----------------------------- MODULE Provisioning -----------------------------
(***************************************************************************)
(* The rows of customer_profiles and driver_profiles under the messages of *)
(* the auth service and the requests that edit and read the rows.          *)
(*                                                                         *)
(*   user.registered, user.role_changed   one transaction each: dedup      *)
(*       record, customer row, driver row, commit; then ack                *)
(*   PATCH /me, PATCH /me/driver          read, save, read the view        *)
(*   GET /me, GET /internal/users/:id/driver   two reads                   *)
(*                                                                         *)
(* Message 1 of a user is user.registered, the others are user.role_changed*)
(* in the order in which auth changed the role.  Transactions read         *)
(* committed rows; what they write is pending until the commit and locks   *)
(* the row meanwhile.  A row is absent, as a handler creates it, or edited *)
(* by its user.  Availability and its events are DriverAvailability's.     *)
(***************************************************************************)
EXTENDS Naturals, FiniteSets

CONSTANTS
    Users,      \* user ids
    Changes,    \* messages per user (bounds the run)
    Reqs,       \* HTTP requests; each is sent once (bounds the run)
    Deliveries, \* the ways the messages of a user may reach the handlers
    MaxFaults   \* how many failed transactions and crashes the run allows

\* One by one, or up to eight at a time: from the head of the queue, or in the
\* order that requeues leave behind.
ASSUME DeliveriesOK == Deliveries \subseteq {"one_by_one", "in_order", "any"}
ASSUME BoundsOK == Changes \in Nat /\ MaxFaults \in Nat

VARIABLES
    rows,       \* the committed rows of every user
    role,       \* the role each message of a user gives
    delivery,   \* how the messages of each user reach the handlers
    phase,      \* how far the handling of each message is
    pending,    \* what the open transaction of each message has written
    processed,  \* processed_events
    commits,    \* history: how often the effects of each message were committed
    request,    \* the state of every HTTP request
    steady,     \* history: the requests whose user has had a driver row all along
    faults      \* history: how many faults there were

vars == <<rows, role, delivery, phase, pending, processed, commits, request, steady, faults>>

-----------------------------------------------------------------------------
Tables == {"customer", "driver"}

Rows == {"none", "new", "edited"}

\* What a message makes of its user: both handlers treat customer and admin alike.
MsgRoles == {"driver", "other"}

TokenRoles == {"customer", "driver", "admin"}

Msgs == Users \X (1 .. Changes)

\* No write: what a transaction leaves alone and what a request has not read.
NoWrites == [t \in Tables |-> "kept"]

TxPhases == {"insertCustomer", "readDriver", "insertDriver", "deleteDriver", "commit"}

Kinds == {"getMe", "patchMe", "patchDriver", "getDriver"}

Statuses == {"ok", "not_found", "forbidden", "internal", "lost"}

Idle == [phase |-> "idle"]

\* The phase names what comes next; seen is what the view is made of.
Requests ==
    {Idle}
    \cup [phase : {"save", "readCustomer", "readDriver", "gather", "done"}, kind : Kinds,
          user : Users, role : TokenRoles, saved : BOOLEAN,
          seen : [Tables -> Rows \cup {"kept"}], status : Statuses]

InFlight(r) == request[r].phase \notin {"idle", "done"}

TypeOK ==
    /\ rows \in [Users -> [Tables -> Rows]]
    /\ role \in [Users -> [1 .. Changes -> MsgRoles]]
    /\ delivery \in [Users -> Deliveries]
    /\ phase \in [Msgs -> {"queued", "ack", "done"} \cup TxPhases]
    /\ pending \in [Msgs -> [Tables -> {"kept", "none", "new"}]]
    /\ processed \subseteq Msgs
    /\ commits \in [Msgs -> Nat]
    /\ request \in [Reqs -> Requests]
    /\ steady \subseteq Reqs
    /\ faults \in 0 .. MaxFaults

\* Nobody has a profile; auth has changed the roles in some order.
Init ==
    /\ rows = [u \in Users |-> [t \in Tables |-> "none"]]
    /\ role \in [Users -> [1 .. Changes -> MsgRoles]]
    /\ delivery \in [Users -> Deliveries]
    /\ phase = [m \in Msgs |-> "queued"]
    /\ pending = [m \in Msgs |-> NoWrites]
    /\ processed = {}
    /\ commits = [m \in Msgs |-> 0]
    /\ request = [r \in Reqs |-> Idle]
    /\ steady = {}
    /\ faults = 0

-----------------------------------------------------------------------------
(* The handlers of user.registered and user.role_changed *)

Promotes(m) == role[m[1]][m[2]] = "driver"

Demotes(m) == m[2] # 1 /\ ~Promotes(m)

\* Handlers that never, or without looking, insert a row (mutants).
NobodyLacks(u) == FALSE
EverybodyLacks(u) == TRUE

\* Neither handler inserts a customer or driver row when it has read one.
LacksCustomer(u) == rows[u]["customer"] = "none"
LacksDriver(u) == rows[u]["driver"] = "none"

\* The transaction of o has written the row that m's user has in table t.
Holds(o, m, t) == o # m /\ o[1] = m[1] /\ pending[o][t] # "kept"

Locked(m, t) == \E o \in Msgs : Holds(o, m, t)

MayStart(m) ==
    LET earlier == {o \in Msgs : o[1] = m[1] /\ o[2] < m[2]} IN
    CASE delivery[m[1]] = "one_by_one" -> \A o \in earlier : phase[o] = "done"
      [] delivery[m[1]] = "in_order"   -> \A o \in earlier : phase[o] # "queued"
      [] OTHER                         -> TRUE

Move(m, ph) == phase' = [phase EXCEPT ![m] = ph]

Write(m, t, row) == pending' = [pending EXCEPT ![m] = [@ EXCEPT ![t] = row]]

\* A handler without the dedup check (mutant).
NeverSeen(m) == FALSE

\* recordIfNew finds the record of an earlier delivery.
AlreadyRecorded(m) == m \in processed

\* recordIfNew, and the read of the customer row.
Start(m) ==
    /\ phase[m] = "queued"
    /\ MayStart(m)
    /\ \/ AlreadyRecorded(m) /\ Move(m, "ack")
       \/ ~AlreadyRecorded(m) /\ LacksCustomer(m[1]) /\ Move(m, "insertCustomer")
       \/ ~AlreadyRecorded(m) /\ ~LacksCustomer(m[1]) /\ Move(m, "readDriver")
    /\ UNCHANGED <<rows, role, delivery, pending, processed, commits, request, steady, faults>>

\* upsert: it waits for whoever is writing the row, and then overwrites it.
InsertCustomer(m) ==
    /\ phase[m] = "insertCustomer"
    /\ ~Locked(m, "customer")
    /\ Write(m, "customer", "new")
    /\ Move(m, "readDriver")
    /\ UNCHANGED <<rows, role, delivery, processed, commits, request, steady, faults>>

\* A user.registered of a customer does not look at the driver row.
ReadDriver(m) ==
    LET lacks == LacksDriver(m[1]) IN
    /\ phase[m] = "readDriver"
    /\ \/ Promotes(m) /\ lacks /\ Move(m, "insertDriver")
       \/ Demotes(m) /\ ~lacks /\ Move(m, "deleteDriver")
       \/ ~(Promotes(m) /\ lacks) /\ ~(Demotes(m) /\ ~lacks) /\ Move(m, "commit")
    /\ UNCHANGED <<rows, role, delivery, pending, processed, commits, request, steady, faults>>

\* A transaction that comes back to the customer row (mutant).
CustomerLast == "insertCustomer"

\* The driver row is the last one a transaction writes.
AfterDriver == "commit"

InsertDriver(m) ==
    /\ phase[m] = "insertDriver"
    /\ ~Locked(m, "driver")
    /\ Write(m, "driver", "new")
    /\ Move(m, AfterDriver)
    /\ UNCHANGED <<rows, role, delivery, processed, commits, request, steady, faults>>

DeleteDriver(m) ==
    /\ phase[m] = "deleteDriver"
    /\ rows[m[1]]["driver"] # "none"
    /\ ~Locked(m, "driver")
    /\ Write(m, "driver", "none")
    /\ Move(m, AfterDriver)
    /\ UNCHANGED <<rows, role, delivery, processed, commits, request, steady, faults>>

\* A commit that also stores what was not written (mutant).
AppliedWhole(row, writes) == writes

\* What the tables say of a user once the pending writes are theirs.
Applied(row, writes) ==
    [t \in Tables |-> IF writes[t] = "kept" THEN row[t] ELSE writes[t]]

Commit(m) ==
    LET u == m[1] IN
    /\ phase[m] = "commit"
    /\ rows' = [rows EXCEPT ![u] = Applied(@, pending[m])]
    /\ processed' = processed \cup {m}
    /\ commits' = [commits EXCEPT ![m] = @ + 1]
    /\ pending' = [pending EXCEPT ![m] = NoWrites]
    /\ steady' = {r \in steady : InFlight(r) /\ request[r].user = u => rows'[u]["driver"] # "none"}
    /\ Move(m, "ack")
    /\ UNCHANGED <<role, delivery, request, faults>>

Ack(m) ==
    /\ phase[m] = "ack"
    /\ Move(m, "done")
    /\ UNCHANGED <<rows, role, delivery, pending, processed, commits, request, steady, faults>>

\* A failed message that is acknowledged (mutant).
AckedAnyway == "done"

AfterFailure == "queued"

\* The delete of a row that is gone throws; any other failure, a transaction
\* that times out included, is a fault.  The message is requeued.
Abort(m) ==
    /\ phase[m] \in TxPhases
    /\ \/ /\ phase[m] = "deleteDriver"
          /\ rows[m[1]]["driver"] = "none"
          /\ UNCHANGED faults
       \/ /\ faults < MaxFaults
          /\ faults' = faults + 1
    /\ pending' = [pending EXCEPT ![m] = NoWrites]
    /\ Move(m, AfterFailure)
    /\ UNCHANGED <<rows, role, delivery, processed, commits, request, steady>>

-----------------------------------------------------------------------------
(* HTTP requests *)

Admitted(kind, tokenRole) ==
    /\ kind = "patchDriver" => tokenRole = "driver"
    /\ kind = "patchMe" => tokenRole # "admin"

\* Where the use-case of a request begins: an admin has a synthetic profile.
FirstPhase(kind, tokenRole) ==
    CASE kind \in {"patchMe", "patchDriver"}      -> "save"
      [] kind = "getMe" /\ tokenRole # "admin"    -> "readCustomer"
      [] kind = "getDriver"                       -> "gather"
      [] OTHER                                    -> "done"

\* The row a PATCH reads and saves.
TableOf(kind) == IF kind = "patchMe" THEN "customer" ELSE "driver"

\* The token's role is the one auth gave out at login, not necessarily the
\* last one; the internal lookup has no user's token, and any role stands for
\* none.  A PATCH reads its row here.
Begin(r, kind, u, tokenRole) ==
    LET q == [phase |-> FirstPhase(kind, tokenRole), kind |-> kind, user |-> u, role |-> tokenRole,
              saved |-> FALSE, seen |-> NoWrites, status |-> "ok"]
        refusal == IF ~Admitted(kind, tokenRole) THEN "forbidden" ELSE "not_found"
    IN
    /\ request[r] = Idle
    /\ kind = "getDriver" => tokenRole = "customer"
    /\ request' = [request EXCEPT ![r] =
           IF \/ ~Admitted(kind, tokenRole)
              \/ q.phase = "save" /\ rows[u][TableOf(kind)] = "none"
           THEN [q EXCEPT !.phase = "done", !.status = refusal] ELSE q]
    /\ steady' = IF rows[u]["driver"] = "none" THEN steady ELSE steady \cup {r}
    /\ UNCHANGED <<rows, role, delivery, phase, pending, processed, commits, faults>>

\* The update waits for a transaction that has written the row it finds; it
\* throws when it finds none.
Save(r) ==
    LET q == request[r]
        t == TableOf(q.kind)
    IN
    /\ q.phase = "save"
    /\ \/ /\ rows[q.user][t] = "none"
          /\ request' = [request EXCEPT ![r] = [@ EXCEPT !.phase = "done", !.status = "internal"]]
          /\ UNCHANGED rows
       \/ /\ rows[q.user][t] # "none"
          /\ \A m \in Msgs : m[1] = q.user => pending[m][t] = "kept"
          /\ rows' = [rows EXCEPT ![q.user] = [@ EXCEPT ![t] = "edited"]]
          /\ request' = [request EXCEPT ![r] = [@ EXCEPT !.phase = "readCustomer", !.saved = TRUE]]
    /\ UNCHANGED <<role, delivery, phase, pending, processed, commits, steady, faults>>

Seen(q, t) == [q EXCEPT !.seen = [@ EXCEPT ![t] = rows[q.user][t]]]

\* GetMyProfileUseCase: the customer row, then the driver row if the token is
\* a driver's.
ReadMine(r) ==
    LET q == request[r] IN
    /\ \/ /\ q.phase = "readCustomer"
          /\ request' = [request EXCEPT ![r] =
                IF rows[q.user]["customer"] = "none" THEN [q EXCEPT !.phase = "done", !.status = "not_found"]
                ELSE [Seen(q, "customer") EXCEPT
                         !.phase = IF q.role = "driver" THEN "readDriver" ELSE "done"]]
       \/ /\ q.phase = "readDriver"
          /\ request' = [request EXCEPT ![r] = [Seen(q, "driver") EXCEPT !.phase = "done"]]
    /\ UNCHANGED <<rows, role, delivery, phase, pending, processed, commits, steady, faults>>

\* GetDriverForServiceUseCase: both rows, by queries sent together.
Gather(r, t) ==
    LET q    == Seen(request[r], t)
        left == \E o \in Tables : q.seen[o] = "kept"
        found == \A o \in Tables : q.seen[o] # "none"
    IN
    /\ request[r].phase = "gather"
    /\ request[r].seen[t] = "kept"
    /\ request' = [request EXCEPT ![r] =
           IF left THEN q
           ELSE [q EXCEPT !.phase = "done", !.status = IF found THEN "ok" ELSE "not_found"]]
    /\ UNCHANGED <<rows, role, delivery, phase, pending, processed, commits, steady, faults>>

-----------------------------------------------------------------------------
\* The process dies and restarts: requests are lost, open transactions rolled
\* back, unacknowledged messages requeued.
Crash ==
    /\ faults < MaxFaults
    /\ faults' = faults + 1
    /\ request' = [r \in Reqs |->
           IF InFlight(r) THEN [request[r] EXCEPT !.phase = "done", !.status = "lost"]
                          ELSE request[r]]
    /\ phase' = [m \in Msgs |-> IF phase[m] = "done" THEN "done" ELSE "queued"]
    /\ pending' = [m \in Msgs |-> NoWrites]
    /\ UNCHANGED <<rows, role, delivery, processed, commits, steady>>

AllDone ==
    /\ \A m \in Msgs : phase[m] = "done"
    /\ \A r \in Reqs : request[r].phase = "done"
    /\ UNCHANGED vars

MessageStep(m) ==
    \/ Start(m)
    \/ InsertCustomer(m)
    \/ ReadDriver(m)
    \/ InsertDriver(m)
    \/ DeleteDriver(m)
    \/ Commit(m)
    \/ Ack(m)
    \/ Abort(m)

Continue(r) == Save(r) \/ ReadMine(r) \/ \E t \in Tables : Gather(r, t)

Next ==
    \/ \E m \in Msgs : MessageStep(m)
    \/ \E r \in Reqs, k \in Kinds, u \in Users, a \in TokenRoles : Begin(r, k, u, a)
    \/ \E r \in Reqs : Continue(r)
    \/ Crash
    \/ AllDone

\* RabbitMQ delivers what is queued, over a channel that stays open (the service
\* never reopens one), queries return, locks are granted.
Fairness ==
    /\ \A m \in Msgs : WF_vars(MessageStep(m))
    /\ \A r \in Reqs : WF_vars(Continue(r))

Spec == Init /\ [][Next]_vars /\ Fairness

-----------------------------------------------------------------------------
(* Properties *)

\* README: "customers + drivers have a `customer_profiles` row": however
\* transactions overlap and fail, nobody sees a driver row without it.
DriversAreCustomers ==
    \A u \in Users : rows[u]["driver"] # "none" => rows[u]["customer"] # "none"

\* A request whose save committed is not answered 404 by the view it then reads.
SavedIsNotDenied ==
    \A r \in Reqs : request[r] # Idle /\ request[r].saved => request[r].status # "not_found"

\* Whoever has a driver row from the first query of a request to its last is
\* found by it, although the rows are read by separate queries.
DriversAreFound ==
    \A r \in steady : request[r].phase = "done" => request[r].status # "not_found"

\* The user's messages are handled one after the other.
InOrder(u) == delivery[u] = "one_by_one"

\* A PATCH /me/driver answered 200 to a user who was a driver all along shows
\* the attributes it saved: no message in between resets them.
OwnEditIsShown ==
    \A r \in steady :
        LET q == request[r] IN
        (q.phase = "done" /\ q.kind = "patchDriver" /\ q.status = "ok" /\ InOrder(q.user))
            => q.seen["driver"] = "edited"

\* The transaction of m is at a write that must wait for o's to end.
WaitsFor(m, o) ==
    \/ phase[m] = "insertCustomer" /\ Holds(o, m, "customer")
    \/ phase[m] \in {"insertDriver", "deleteDriver"} /\ Holds(o, m, "driver")

\* No set of transactions wait for each other, however many messages of a
\* user are handled together: they would all hang until the timeout of Prisma.
NoTransactionDeadlock ==
    LET waiting == {m \in Msgs : \E o \in Msgs : WaitsFor(m, o)} IN
    \A S \in SUBSET waiting : S # {} => \E m \in S : \A o \in S : ~WaitsFor(m, o)

\* Messages handled one by one have the effect of the atomic registry, once
\* each, whatever fails and whatever happens to other users.
Registry == INSTANCE ProfileRegistry WITH
    rows    <- [u \in Users |-> IF InOrder(u) THEN rows[u] ELSE [t \in Tables |-> "none"]],
    applied <- [u \in Users |-> IF InOrder(u) THEN Cardinality({m \in processed : m[1] = u}) ELSE 0]

RegistrySpec == Registry!Spec

\* Query by query, and however messages are delivered, the handlers keep the
\* promise of the consumer: a transaction is committed once for each message,
\* however often it is redelivered, and before the message is acknowledged.
\* Two messages with one event id are UserEventsConsumer's.
Inbox == INSTANCE EventInbox WITH
    Events  <- Msgs,
    Kind    <- [m \in Msgs |-> "valid"],
    EventOf <- [m \in Msgs |-> m],
    effects <- commits,
    outcome <- [m \in Msgs |-> IF phase[m] = "done" THEN "acked" ELSE "pending"]

HandlersKeepInbox == Inbox!Spec

\* The rows are those of the role m gives its user.
MatchesRole(m) ==
    /\ rows[m[1]]["customer"] # "none"
    /\ (rows[m[1]]["driver"] # "none") <=> Promotes(m)

HasEffect(m) == m \in processed \/ phase[m] = "done"

\* The rows of a user whose messages are handled one by one are those of the
\* last message that was recorded or acknowledged, at every moment: through
\* failures, restarts, redeliveries and the user's own writes.
RowsFollowRole ==
    \A m \in Msgs :
        (InOrder(m[1]) /\ HasEffect(m) /\ \A o \in Msgs : o[1] = m[1] /\ o[2] > m[2] => ~HasEffect(o))
            => MatchesRole(m)

AllHandled == \A m \in Msgs : phase[m] = "done"

\* Every message is handled in the end, and the rows of a user whose messages
\* are handled one by one then stay those of the last role.
EveryoneSettles ==
    <>[](AllHandled /\ \A m \in Msgs : InOrder(m[1]) /\ m[2] = Changes => MatchesRole(m))

\* README "Events consumed": "cleanup driver row on demotion", also for a user
\* whose messages, delivered in order, are handled at the same time.
DemotedLoseTheirRow ==
    \A u \in Users :
        delivery[u] = "in_order" /\ AllHandled /\ role[u][Changes] # "driver" => rows[u]["driver"] = "none"
=============================================================================
