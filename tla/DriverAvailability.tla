------------------------- MODULE DriverAvailability -------------------------
(***************************************************************************)
(* Every writer of driver_profiles and every publisher of                  *)
(* driver.availability.changed, one action per awaited database or broker  *)
(* call.  Node suspends a handler at each await, so the steps of two       *)
(* requests, or of a request and a user.role_changed delivery, interleave  *)
(* between a read of the row and the write computed from it.               *)
(*                                                                         *)
(*   PUT /me/availability  read row, setAvailable, save all of it, publish *)
(*   PATCH /me/driver      read row, updateAttributes, save all of it      *)
(*   user.role_changed     transaction: dedup record, read row, create or  *)
(*                         delete it, commit; then publish; then ack       *)
(*                                                                         *)
(* A user.registered event of a driver does to the driver row what a       *)
(* change to driver does: it is one of the messages.  The users have their *)
(* customer row already: its insert touches no driver row.  Messages are   *)
(* delivered in any order and up to all at once (prefetch 8).  A crash     *)
(* loses the requests in flight and rolls back open transactions; the      *)
(* broker requeues what was not acknowledged.                              *)
(*                                                                         *)
(* A request's status is how its use-case ends: the view the controller    *)
(* reads for the response body afterwards writes nothing.                  *)
(***************************************************************************)
EXTENDS DriverProfile, Naturals, FiniteSets

CONSTANTS
    Users,      \* user ids
    Reqs,       \* HTTP requests; each is sent once (bounds the run)
    Msgs,       \* user.role_changed messages, by eventId (bounds the run)
    NoRow,      \* no driver_profiles row
    Overlap,    \* the users whose operations may be in flight together
    Faults      \* which of "abort", "close" and "crash" the run allows

ASSUME NoRowIsNoProfile == NoRow \notin DriverProfiles
ASSUME ReqsAreNotMsgs   == Reqs \cap Msgs = {}
ASSUME SwitchesOK       == Overlap \subseteq Users /\ Faults \subseteq {"abort", "close", "crash"}

VARIABLES
    driver,       \* the committed row of every user
    request,      \* the state of every HTTP request
    message,      \* the state of every role change
    processed,    \* processed_events: the messages recorded by a committed transaction
    channelOpen,  \* is the AMQP channel of the process usable?
    announced,    \* the availability the last published event gave each user
    sends,        \* history: how many events each operation handed to the broker
    committed     \* history: the operations whose commit obliges them to publish

vars == <<driver, request, message, processed, channelOpen, announced, sends, committed>>

Ops == Reqs \cup Msgs

-----------------------------------------------------------------------------
Rows == DriverProfiles \cup {NoRow}

Available(row) == row # NoRow /\ row.isAvailable

Statuses == {"ok", "not_found", "incomplete", "internal", "lost"}

Idle == [phase |-> "idle"]

Requests ==
    {Idle}
    \cup [phase : {"save", "publish"}, kind : {"toggle", "patch"}, user : Users, entity : DriverProfiles]
    \cup [phase : {"done"}, user : Users, status : Statuses]

Messages ==
    [phase    : {"queued", "tx", "publish", "ack", "done"},
     user     : Users,
     role     : {"driver", "other"},     \* newRole; customer and admin are treated alike
     existing : Rows]                    \* the row the transaction read

InFlight(r) == request[r].phase \in {"save", "publish"}
Handling(m) == message[m].phase \in {"tx", "publish", "ack"}

Busy(u) ==
    \/ \E r \in Reqs : InFlight(r) /\ request[r].user = u
    \/ \E m \in Msgs : Handling(m) /\ message[m].user = u

\* The callers serialise the operations on the other users.
Serial == Users \ Overlap

MayBegin(u) == u \in Overlap \/ ~Busy(u)

TypeOK ==
    /\ driver \in [Users -> Rows]
    /\ request \in [Reqs -> Requests]
    /\ message \in [Msgs -> Messages]
    /\ processed \subseteq Msgs
    /\ channelOpen \in BOOLEAN
    /\ announced \in [Users -> BOOLEAN]
    /\ sends \in [Ops -> Nat]
    /\ committed \subseteq Ops

\* Any valid rows, as an orderly past leaves them: the subscribers know them.
Init ==
    /\ driver \in [Users -> {NoRow} \cup {p \in DriverProfiles : WellFormed(p)}]
    /\ request = [r \in Reqs |-> Idle]
    /\ message \in [Msgs -> {m \in Messages : m.phase = "queued" /\ m.existing = NoRow}]
    /\ processed = {}
    /\ channelOpen = TRUE
    /\ announced = [u \in Users |-> Available(driver[u])]
    /\ sends = [o \in Ops |-> 0]
    /\ committed = {}

-----------------------------------------------------------------------------
(* HTTP requests *)

Respond(r, u, s) == request' = [request EXCEPT ![r] = [phase |-> "done", user |-> u, status |-> s]]

Hold(r, u, kind, p) ==
    request' = [request EXCEPT ![r] = [phase |-> "save", kind |-> kind, user |-> u, entity |-> p]]

Begins(r, u) ==
    /\ request[r] = Idle
    /\ MayBegin(u)
    /\ UNCHANGED <<driver, message, processed, channelOpen, announced, sends, committed>>

\* SetAvailabilityUseCase up to its save; the early returns answer at once.
ReadForToggle(r, u, value) ==
    LET p == driver[u] IN
    /\ Begins(r, u)
    /\ \/ p = NoRow /\ Respond(r, u, "not_found")
       \/ p # NoRow /\ ~MaySetAvailable(p, value) /\ Respond(r, u, "incomplete")
       \/ p # NoRow /\ MaySetAvailable(p, value)
          /\ IF p.isAvailable = value
             THEN Respond(r, u, "ok")
             ELSE Hold(r, u, "toggle", SetAvailable(p, value))

\* UpdateDriverProfileUseCase up to its save.
ReadForPatch(r, u, vehicle, plate) ==
    LET p == driver[u] IN
    /\ Begins(r, u)
    /\ \/ p = NoRow /\ Respond(r, u, "not_found")
       \/ p # NoRow /\ Hold(r, u, "patch", UpdateAttributes(p, vehicle, plate))

\* A save that wrote only the columns the operation is about (mutant).
OwnColumns(row, q) ==
    IF q.kind = "toggle" THEN [row EXCEPT !.isAvailable = q.entity.isAvailable]
                         ELSE [q.entity EXCEPT !.isAvailable = row.isAvailable]

\* Prisma's update writes all the columns of the entity.
Saved(row, q) == q.entity

\* The save of either use-case.  It throws, which is
\* answered 500, when the row is gone (P2025) or the database fails.
SaveRow(r) ==
    LET q == request[r] IN
    /\ q.phase = "save"
    /\ \/ /\ driver[q.user] = NoRow \/ "abort" \in Faults
          /\ Respond(r, q.user, "internal")
          /\ UNCHANGED <<driver, committed>>
       \/ /\ driver[q.user] # NoRow
          /\ driver' = [driver EXCEPT ![q.user] = Saved(@, q)]
          /\ \/ /\ q.kind = "patch"
                /\ Respond(r, q.user, "ok")
                /\ UNCHANGED committed
             \/ /\ q.kind = "toggle"
                /\ request' = [request EXCEPT ![r].phase = "publish"]
                /\ committed' = committed \cup {r}
    /\ UNCHANGED <<message, processed, channelOpen, announced, sends>>

\* A payload without the availability, and a publisher that only tells of
\* drivers becoming available (mutants).
AnnounceNothing(o, u, value) ==
    /\ announced' = [announced EXCEPT ![u] = None]
    /\ sends' = [sends EXCEPT ![o] = @ + 1]

AnnounceOnlyAvailable(o, u, value) ==
    /\ announced' = [announced EXCEPT ![u] = @ \/ value]
    /\ sends' = [sends EXCEPT ![o] = IF value THEN @ + 1 ELSE @]

\* The broker takes the event: the subscribers' last word on the user.
Announce(o, u, value) ==
    /\ announced' = [announced EXCEPT ![u] = value]
    /\ sends' = [sends EXCEPT ![o] = @ + 1]

\* A publisher that swallows the error (mutant), and what the error becomes.
SwallowedFailure == "ok"

PublishFailure == "internal"

\* channel.publish throws on a closed channel: 500, though the row is saved.
PublishToggle(r) ==
    LET q == request[r] IN
    /\ q.phase = "publish"
    /\ \/ channelOpen /\ Announce(r, q.user, q.entity.isAvailable) /\ Respond(r, q.user, "ok")
       \/ ~channelOpen /\ Respond(r, q.user, PublishFailure) /\ UNCHANGED <<announced, sends>>
    /\ UNCHANGED <<driver, message, processed, channelOpen, committed>>

-----------------------------------------------------------------------------
(* user.role_changed deliveries *)

MoveMessage(m, ph) == message' = [message EXCEPT ![m].phase = ph]

\* A handler that ignores the dedup record, and one that forgets that the
\* driver it deletes was available (mutants).
NeverRecorded(m) == FALSE
NeverAvailable(m) == FALSE

\* recordIfNew returns false.
AlreadyRecorded(m) == m \in processed

\* wasAvailable, as of the read inside the transaction.
WasAvailable(m) == message[m].existing.isAvailable

\* The consumer's callback runs the handler up to its read of the driver row.
\* A message recorded by an earlier delivery goes straight to its ack.
StartRoleChange(m) ==
    LET u == message[m].user IN
    /\ message[m].phase = "queued"
    /\ channelOpen
    /\ MayBegin(u)
    /\ \/ AlreadyRecorded(m) /\ MoveMessage(m, "ack")
       \/ ~AlreadyRecorded(m)
          /\ message' = [message EXCEPT ![m].phase = "tx", ![m].existing = driver[u]]
    /\ UNCHANGED <<driver, request, processed, channelOpen, announced, sends, committed>>

\* The write of the driver row and the commit, which makes the dedup record
\* and the write visible together.
CommitRoleChange(m) ==
    LET u   == message[m].user
        had == message[m].existing # NoRow
        promotes == message[m].role = "driver"
    IN
    /\ message[m].phase = "tx"
    /\ \/ /\ promotes /\ ~had
          /\ driver' = [driver EXCEPT ![u] = CreateIncomplete]
          /\ MoveMessage(m, "ack")
          /\ UNCHANGED committed
       \/ /\ ~promotes /\ had /\ driver[u] # NoRow
          /\ driver' = [driver EXCEPT ![u] = NoRow]
          /\ IF WasAvailable(m)
             THEN MoveMessage(m, "publish") /\ committed' = committed \cup {m}
             ELSE MoveMessage(m, "ack") /\ UNCHANGED committed
       \/ /\ promotes <=> had
          /\ MoveMessage(m, "ack")
          /\ UNCHANGED <<driver, committed>>
    /\ processed' = processed \cup {m}
    /\ UNCHANGED <<request, channelOpen, announced, sends>>

\* The transaction fails on its own, or on the delete of a row already gone.
TxFails(m) ==
    /\ message[m].phase = "tx"
    /\ \/ "abort" \in Faults
       \/ /\ message[m].role # "driver"
          /\ message[m].existing # NoRow
          /\ driver[message[m].user] = NoRow

\* The callback catches the error and nacks with requeue.
AbortRoleChange(m) ==
    /\ TxFails(m)
    /\ channelOpen
    /\ message' = [message EXCEPT ![m].phase = "queued", ![m].existing = NoRow]
    /\ UNCHANGED <<driver, request, processed, channelOpen, announced, sends, committed>>

PublishRoleChange(m) ==
    /\ message[m].phase = "publish"
    /\ channelOpen
    /\ Announce(m, message[m].user, FALSE)
    /\ MoveMessage(m, "ack")
    /\ UNCHANGED <<driver, request, processed, channelOpen, committed>>

AckRoleChange(m) ==
    /\ message[m].phase = "ack"
    /\ channelOpen
    /\ MoveMessage(m, "done")
    /\ UNCHANGED <<driver, request, processed, channelOpen, announced, sends, committed>>

-----------------------------------------------------------------------------
(* Faults *)

\* The broker closes the channel; the service never opens another.
CloseChannel ==
    /\ "close" \in Faults
    /\ channelOpen
    /\ channelOpen' = FALSE
    /\ UNCHANGED <<driver, request, message, processed, announced, sends, committed>>

\* On a closed channel publish and ack throw, and so does the nack of the
\* catch block: the callback's promise rejects and the process dies.
HandlerRejects ==
    /\ ~channelOpen
    /\ \E m \in Msgs : message[m].phase \in {"publish", "ack"} \/ TxFails(m)

\* The process dies and is started again with a fresh channel.
Restart ==
    /\ HandlerRejects \/ "crash" \in Faults
    /\ request' = [r \in Reqs |->
           IF InFlight(r) THEN [phase |-> "done", user |-> request[r].user, status |-> "lost"]
                          ELSE request[r]]
    /\ message' = [m \in Msgs |->
           IF Handling(m) THEN [message[m] EXCEPT !.phase = "queued", !.existing = NoRow]
                          ELSE message[m]]
    /\ channelOpen' = TRUE
    /\ UNCHANGED <<driver, processed, announced, sends, committed>>

-----------------------------------------------------------------------------
Quiescent == (\A r \in Reqs : ~InFlight(r)) /\ (\A m \in Msgs : ~Handling(m))

\* Nothing is left to do: no more requests, and no message this process can get.
AtRest ==
    /\ Quiescent
    /\ \A r \in Reqs : request[r] # Idle
    /\ \A m \in Msgs : message[m].phase = "done" \/ ~channelOpen
    /\ UNCHANGED vars

RequestStep(r) ==
    \/ \E u \in Users, value \in BOOLEAN : ReadForToggle(r, u, value)
    \/ \E u \in Users, v \in Vehicles \cup {None}, l \in Plates \cup {None} : ReadForPatch(r, u, v, l)
    \/ SaveRow(r)
    \/ PublishToggle(r)

MessageStep(m) ==
    \/ StartRoleChange(m)
    \/ CommitRoleChange(m)
    \/ AbortRoleChange(m)
    \/ PublishRoleChange(m)
    \/ AckRoleChange(m)

Next ==
    \/ \E r \in Reqs : RequestStep(r)
    \/ \E m \in Msgs : MessageStep(m)
    \/ CloseChannel
    \/ Restart
    \/ AtRest

Spec == Init /\ [][Next]_vars

-----------------------------------------------------------------------------
(* Properties *)

\* "Impossible to hold an invalid entity" carried over to the table: whatever
\* writes race, a committed row is complete exactly when both attributes are
\* set, and is available only when complete.
RowsWellFormed == \A u \in Users : driver[u] # NoRow => WellFormed(driver[u])

\* An operation publishes at most one event, and only after its own commit,
\* across crashes and redeliveries of the same message.
EventsWarranted == \A o \in Ops : sends[o] <= (IF o \in committed THEN 1 ELSE 0)

\* A toggle that changed the row is answered 200 only with its event published.
OkMeansAnnounced ==
    \A r \in Reqs :
        r \in committed /\ request[r].phase = "done" /\ request[r].status = "ok" => sends[r] = 1

\* README "Events published": whoever toggled availability or demoted an
\* available driver has published by the time nothing is in flight.
EveryChangeAnnounced == Quiescent => \A o \in committed : sends[o] = 1

\* When nothing is in flight the last event of a user whose operations do not
\* overlap tells the truth, whatever races on the other users.
SettledAgreement == Quiescent => \A u \in Serial : announced[u] = Available(driver[u])

\* README "Events consumed": a demoted driver is not left announced available.
NoGhostAvailability == Quiescent => \A u \in Users : driver[u] = NoRow => ~announced[u]

\* The availability of a serial user never changes in the table without an
\* operation on that user that then owes the event: not by an attribute PATCH,
\* not by a role change that creates a row.
UserOf(o) == IF o \in Reqs THEN request[o].user ELSE message[o].user

EveryChangeOwesAnEvent ==
    [][\A u \in Serial :
          Available(driver'[u]) # Available(driver[u]) =>
              \E o \in committed' \ committed : UserOf(o) = u]_vars

\* Without crashes and a closed channel, the steps of the operations on a serial
\* user look like one atomic update of row and announcement:
\* AvailabilityLedger.  A published event counts from the commit that owes it.
Pending(u) ==
    \/ \E r \in Reqs : request[r].phase = "publish" /\ request[r].user = u
    \/ \E m \in Msgs : message[m].phase = "publish" /\ message[m].user = u

Ledger == INSTANCE AvailabilityLedger WITH
    Users <- Serial,
    row   <- [u \in Serial |-> driver[u]],
    heard <- [u \in Serial |-> IF Pending(u) THEN Available(driver[u]) ELSE announced[u]]

LedgerSpec == Ledger!Spec
=============================================================================
