------------------------- MODULE Provisioning_proofs -------------------------
(***************************************************************************)
(* The profile rows under messages and requests, proved for any number of  *)
(* users, messages, requests and faults and any way of delivery.           *)
(*                                                                         *)
(* DriversAreCustomers is not inductive: a transaction inserts its driver  *)
(* row because of a customer row it has seen or written some queries ago.  *)
(* TransactionsKnow says what an open transaction may rely on, RequestsKnow*)
(* what a suspended request may.  For users whose messages are handled one *)
(* by one, OneByOneKnow adds that nobody else inserts or deletes their rows*)
(* meanwhile, which makes a commit the abstract registry's single step,    *)
(* and FollowsRoles that the rows are those of the last recorded role.     *)
(* RecordsKnow relates the phase of a message to its dedup record, which is*)
(* all that the refinement of the inbox needs.                             *)
(***************************************************************************)
EXTENDS Provisioning, FiniteSetTheorems, TLAPS

Active ==
    [phase : {"save", "readCustomer", "readDriver", "gather", "done"}, kind : Kinds,
     user : Users, role : TokenRoles, saved : BOOLEAN,
     seen : [Tables -> Rows \cup {"kept"}], status : Statuses]

\* A customer row is never deleted, so what a transaction saw of it stays true.
TransactionsKnow ==
    \A m \in Msgs :
        /\ pending[m]["customer"] \in {"kept", "new"}
        /\ pending[m]["driver"] # "kept" => phase[m] = "commit"
        /\ phase[m] \in {"queued", "insertCustomer"} => pending[m]["customer"] = "kept"
        /\ phase[m] \in {"readDriver", "insertDriver", "deleteDriver", "commit"} =>
               rows[m[1]]["customer"] # "none" \/ pending[m]["customer"] = "new"

RequestsKnow ==
    \A r \in Reqs : request[r] # Idle =>
        /\ request[r].phase # "done" => request[r].status = "ok"
        /\ request[r].phase \in {"save", "gather"} => ~request[r].saved
        /\ request[r].saved => /\ request[r].status # "not_found"
                               /\ rows[request[r].user]["customer"] # "none"

SteadyKnow ==
    \A r \in steady :
        /\ request[r] # Idle
        /\ InFlight(r) => rows[request[r].user]["driver"] # "none"
        /\ request[r].phase = "gather" => \A t \in Tables : request[r].seen[t] # "none"
        /\ request[r].status # "not_found"

Inv == TypeOK /\ DriversAreCustomers /\ TransactionsKnow /\ RequestsKnow /\ SteadyKnow

-----------------------------------------------------------------------------
(* Fields and steps *)

LEMMA ActiveRequests ==
    ASSUME TypeOK, NEW r \in Reqs, request[r] # Idle
    PROVE  request[r] \in Active
BY DEF TypeOK, Requests, Active

LEMMA FlightIsActive ==
    ASSUME TypeOK, NEW r \in Reqs, InFlight(r)
    PROVE  request[r] # Idle /\ request[r] \in Active
BY ActiveRequests DEF InFlight, Idle

LEMMA MsgFields ==
    \A m \in Msgs : m[1] \in Users /\ m[2] \in 1 .. Changes /\ m = <<m[1], m[2]>>
BY DEF Msgs

\* The steps of a transaction before its commit, its ack and its abort change
\* nothing that others see.
Unseen(m) ==
    \/ Start(m)
    \/ InsertCustomer(m)
    \/ ReadDriver(m)
    \/ InsertDriver(m)
    \/ DeleteDriver(m)
    \/ Ack(m)
    \/ Abort(m)

LEMMA UnseenFrame ==
    ASSUME NEW m \in Msgs, Unseen(m)
    PROVE  UNCHANGED <<rows, role, delivery, processed, commits, request, steady>>
BY DEF Unseen, Start, AlreadyRecorded, InsertCustomer, ReadDriver, InsertDriver, DeleteDriver, Ack, Abort

LEMMA RequestFrame ==
    ASSUME NEW r \in Reqs, Continue(r)
    PROVE  UNCHANGED <<role, delivery, phase, pending, processed, commits, steady, faults>>
BY DEF Continue, Save, ReadMine, Gather

LEMMA BeginFrame ==
    ASSUME NEW r \in Reqs, NEW k \in Kinds, NEW u \in Users, NEW a \in TokenRoles, Begin(r, k, u, a)
    PROVE  UNCHANGED <<rows, role, delivery, phase, pending, processed, commits, faults>>
BY DEF Begin

-----------------------------------------------------------------------------
(* Type correctness *)

LEMMA InitInv == Init => Inv
<1> SUFFICES ASSUME Init PROVE Inv
  OBVIOUS
<1>1. TypeOK
  BY BoundsOK DEF Init, TypeOK, NoWrites, Rows, Requests
<1>2. DriversAreCustomers /\ TransactionsKnow
  BY MsgFields DEF Init, DriversAreCustomers, TransactionsKnow, NoWrites, Tables
<1>3. RequestsKnow /\ SteadyKnow
  BY DEF Init, RequestsKnow, SteadyKnow
<1> QED
  BY <1>1, <1>2, <1>3 DEF Inv

LEMMA UnseenTypeOK ==
    ASSUME TypeOK, NEW m \in Msgs, Unseen(m)
    PROVE  TypeOK'
<1>1. UNCHANGED <<rows, role, delivery, processed, commits, request, steady>>
  BY UnseenFrame
<1>2. faults' \in 0 .. MaxFaults
  BY BoundsOK DEF Unseen, Start, AlreadyRecorded, InsertCustomer, ReadDriver, InsertDriver, DeleteDriver, Ack, Abort, TypeOK
<1>3. phase' \in [Msgs -> {"queued", "ack", "done"} \cup TxPhases]
  BY DEF Unseen, Start, AlreadyRecorded, InsertCustomer, ReadDriver, InsertDriver, DeleteDriver, Ack, Abort,
         Move, AfterDriver, AfterFailure, TxPhases, TypeOK
<1>4. pending' \in [Msgs -> [Tables -> {"kept", "none", "new"}]]
  <2>1. ASSUME NEW t \in Tables, NEW row \in {"none", "new"}, Write(m, t, row)
        PROVE  pending' \in [Msgs -> [Tables -> {"kept", "none", "new"}]]
    BY <2>1 DEF Write, TypeOK
  <2>2. NoWrites \in [Tables -> {"kept", "none", "new"}]
    BY DEF NoWrites
  <2> QED
    BY <2>1, <2>2 DEF Unseen, Start, AlreadyRecorded, InsertCustomer, ReadDriver, InsertDriver, DeleteDriver, Ack, Abort,
                      Tables, TypeOK
<1> QED
  BY <1>1, <1>2, <1>3, <1>4 DEF TypeOK

LEMMA AppliedRows ==
    ASSUME NEW row \in [Tables -> Rows], NEW writes \in [Tables -> {"kept", "none", "new"}]
    PROVE  /\ Applied(row, writes) \in [Tables -> Rows]
           /\ \A t \in Tables :
                  Applied(row, writes)[t] = IF writes[t] = "kept" THEN row[t] ELSE writes[t]
BY DEF Applied, Rows

LEMMA CommitRows ==
    ASSUME TypeOK, NEW m \in Msgs, Commit(m)
    PROVE  /\ rows'[m[1]] = Applied(rows[m[1]], pending[m])
           /\ \A u \in Users \ {m[1]} : rows'[u] = rows[u]
           /\ rows' \in [Users -> [Tables -> Rows]]
           /\ \A t \in Tables :
                  rows'[m[1]][t] = IF pending[m][t] = "kept" THEN rows[m[1]][t] ELSE pending[m][t]
<1>1. rows[m[1]] \in [Tables -> Rows] /\ pending[m] \in [Tables -> {"kept", "none", "new"}] /\ m[1] \in Users
  BY MsgFields DEF TypeOK
<1>2. rows' = [rows EXCEPT ![m[1]] = Applied(rows[m[1]], pending[m])]
  BY DEF Commit
<1>3. rows'[m[1]] = Applied(rows[m[1]], pending[m]) /\ \A u \in Users \ {m[1]} : rows'[u] = rows[u]
  BY <1>1, <1>2 DEF TypeOK
<1>4. rows' \in [Users -> [Tables -> Rows]]
  BY <1>1, <1>2, AppliedRows DEF TypeOK
<1> QED
  BY <1>1, <1>3, <1>4, AppliedRows

LEMMA CommitTypeOK ==
    ASSUME TypeOK, NEW m \in Msgs, Commit(m)
    PROVE  TypeOK'
<1>1. phase' \in [Msgs -> {"queued", "ack", "done"} \cup TxPhases]
  BY DEF Commit, Move, TypeOK
<1>2. pending' \in [Msgs -> [Tables -> {"kept", "none", "new"}]]
  BY DEF Commit, NoWrites, TypeOK
<1>3. processed' \subseteq Msgs /\ commits' \in [Msgs -> Nat] /\ steady' \subseteq Reqs
  BY DEF Commit, TypeOK
<1> QED
  BY <1>1, <1>2, <1>3, CommitRows DEF TypeOK, Commit

LEMMA FirstPhases ==
    ASSUME NEW k \in Kinds, NEW a \in TokenRoles
    PROVE  FirstPhase(k, a) \in {"save", "readCustomer", "gather", "done"}
BY DEF FirstPhase, Kinds

LEMMA BeginTypeOK ==
    ASSUME TypeOK, NEW r \in Reqs, NEW k \in Kinds, NEW u \in Users, NEW a \in TokenRoles, Begin(r, k, u, a)
    PROVE  TypeOK'
<1> DEFINE q == [phase |-> FirstPhase(k, a), kind |-> k, user |-> u, role |-> a,
                 saved |-> FALSE, seen |-> NoWrites, status |-> "ok"]
<1>1. NoWrites \in [Tables -> Rows \cup {"kept"}]
  BY DEF NoWrites
<1>2. q \in Active
  BY <1>1, FirstPhases DEF Active, Statuses
<1>3. \A s \in {"forbidden", "not_found"} : [q EXCEPT !.phase = "done", !.status = s] \in Active
  BY <1>2 DEF Active, Statuses
<1> HIDE DEF q
<1>4. request' \in [Reqs -> Requests]
  <2>1. \E x \in Active : request' = [request EXCEPT ![r] = x]
    BY <1>2, <1>3 DEF Begin, q
  <2> QED
    BY <2>1 DEF TypeOK, Requests, Active
<1> QED
  BY <1>4, BeginFrame DEF Begin, TypeOK

LEMMA SeenOK ==
    ASSUME TypeOK, NEW q \in Active, NEW t \in Tables
    PROVE  /\ Seen(q, t) \in Active
           /\ Seen(q, t) = [q EXCEPT !.seen = [q.seen EXCEPT ![t] = rows[q.user][t]]]
<1>1. q.user \in Users /\ q.seen \in [Tables -> Rows \cup {"kept"}]
  BY DEF Active
<1>2. [q.seen EXCEPT ![t] = rows[q.user][t]] \in [Tables -> Rows \cup {"kept"}]
  BY <1>1 DEF TypeOK
<1>3. Seen(q, t) = [q EXCEPT !.seen = [q.seen EXCEPT ![t] = rows[q.user][t]]]
  BY DEF Seen, Active
<1> QED
  BY <1>2, <1>3 DEF Active

LEMMA ContinueTypeOK ==
    ASSUME TypeOK, NEW r \in Reqs, Continue(r)
    PROVE  TypeOK'
<1> DEFINE q == request[r]
<1>0. q # Idle /\ q \in Active /\ q.user \in Users
  BY FlightIsActive DEF Continue, Save, ReadMine, Gather, InFlight, Active
<1>1. ASSUME NEW x \in Active, request' = [request EXCEPT ![r] = x]
      PROVE  request' \in [Reqs -> Requests]
  BY <1>1 DEF TypeOK, Requests, Active
<1>2. CASE Save(r)
  <2>1. [q EXCEPT !.phase = "done", !.status = "internal"] \in Active
    BY <1>0 DEF Active, Statuses
  <2>2. [q EXCEPT !.phase = "readCustomer", !.saved = TRUE] \in Active
    BY <1>0 DEF Active
  <2>3. request' \in [Reqs -> Requests]
    BY <1>1, <1>2, <2>1, <2>2 DEF Save
  <2>4. rows' \in [Users -> [Tables -> Rows]]
    <3> DEFINE t == TableOf(q.kind)
    <3>1. t \in Tables
      BY DEF TableOf, Tables
    <3>2. rows' = rows \/ rows' = [rows EXCEPT ![q.user] = [rows[q.user] EXCEPT ![t] = "edited"]]
      BY <1>2 DEF Save
    <3>3. [rows[q.user] EXCEPT ![t] = "edited"] \in [Tables -> Rows]
      BY <1>0, <3>1 DEF TypeOK, Rows
    <3> QED
      BY <1>0, <3>2, <3>3 DEF TypeOK
  <2> QED
    BY <2>3, <2>4, RequestFrame DEF TypeOK
<1>3. CASE ReadMine(r)
  <2>1. [q EXCEPT !.phase = "done", !.status = "not_found"] \in Active
    BY <1>0 DEF Active, Statuses
  <2>2. \A t \in Tables, p \in {"readDriver", "done"} : [Seen(q, t) EXCEPT !.phase = p] \in Active
    BY <1>0, SeenOK DEF Active
  <2>3. request' \in [Reqs -> Requests]
    BY <1>1, <1>3, <2>1, <2>2 DEF ReadMine, Tables
  <2> QED
    BY <1>3, <2>3, RequestFrame DEF ReadMine, TypeOK
<1>4. ASSUME NEW t \in Tables, Gather(r, t) PROVE TypeOK'
  <2>1. \A s \in Statuses : Seen(q, t) \in Active /\ [Seen(q, t) EXCEPT !.phase = "done", !.status = s] \in Active
    BY <1>0, SeenOK DEF Active
  <2>2. request' \in [Reqs -> Requests]
    BY <1>1, <1>4, <2>1 DEF Gather, Statuses
  <2> QED
    BY <1>4, <2>2, RequestFrame DEF Gather, TypeOK
<1> QED
  BY <1>2, <1>3, <1>4 DEF Continue

LEMMA CrashTypeOK == ASSUME TypeOK, Crash PROVE TypeOK'
<1>1. request' \in [Reqs -> Requests]
  <2>1. \A r \in Reqs : InFlight(r) => [request[r] EXCEPT !.phase = "done", !.status = "lost"] \in Active
    BY FlightIsActive DEF Active, Statuses
  <2> QED
    BY <2>1 DEF Crash, TypeOK, Requests, Active
<1>2. phase' \in [Msgs -> {"queued", "ack", "done"} \cup TxPhases]
  BY DEF Crash
<1>3. pending' \in [Msgs -> [Tables -> {"kept", "none", "new"}]]
  BY DEF Crash, NoWrites
<1>4. faults' \in 0 .. MaxFaults
  <2>1. faults \in 0 .. MaxFaults
    BY DEF TypeOK
  <2>2. faults < MaxFaults /\ faults' = faults + 1
    BY DEF Crash
  <2> QED
    BY <2>1, <2>2, BoundsOK
<1> QED
  BY <1>1, <1>2, <1>3, <1>4 DEF Crash, TypeOK

-----------------------------------------------------------------------------
(* The steps of messages *)

LEMMA UnseenTransactions ==
    ASSUME TypeOK, TransactionsKnow, NEW m \in Msgs, Unseen(m)
    PROVE  TransactionsKnow'
<1>0. rows' = rows
  BY UnseenFrame
<1>1. \A o \in Msgs \ {m} : phase'[o] = phase[o] /\ pending'[o] = pending[o]
  BY DEF Unseen, Start, AlreadyRecorded, InsertCustomer, ReadDriver, InsertDriver, DeleteDriver, Ack, Abort, Move, Write, TypeOK
<1>2. /\ pending'[m]["customer"] \in {"kept", "new"}
      /\ pending'[m]["driver"] # "kept" => phase'[m] = "commit"
      /\ phase'[m] \in {"queued", "insertCustomer"} => pending'[m]["customer"] = "kept"
      /\ phase'[m] \in {"readDriver", "insertDriver", "deleteDriver", "commit"} =>
             rows[m[1]]["customer"] # "none" \/ pending'[m]["customer"] = "new"
  <2>0. pending[m] \in [Tables -> {"kept", "none", "new"}] /\ phase[m] \in {"queued", "ack", "done"} \cup TxPhases
    BY DEF TypeOK
  <2>1. CASE Start(m)
    BY <2>0, <2>1 DEF Start, AlreadyRecorded, Move, TransactionsKnow, TypeOK, LacksCustomer, TxPhases
  <2>2. CASE InsertCustomer(m)
    BY <2>0, <2>2 DEF InsertCustomer, Move, Write, TransactionsKnow, TypeOK, Tables
  <2>3. CASE ReadDriver(m)
    BY <2>0, <2>3 DEF ReadDriver, Move, TransactionsKnow, TypeOK
  <2>4. CASE InsertDriver(m)
    BY <2>0, <2>4 DEF InsertDriver, AfterDriver, Move, Write, TransactionsKnow, TypeOK, Tables
  <2>5. CASE DeleteDriver(m)
    BY <2>0, <2>5 DEF DeleteDriver, AfterDriver, Move, Write, TransactionsKnow, TypeOK, Tables
  <2>6. CASE Ack(m)
    BY <2>0, <2>6 DEF Ack, Move, TransactionsKnow, TypeOK
  <2>7. CASE Abort(m)
    BY <2>0, <2>7 DEF Abort, Move, AfterFailure, NoWrites, TypeOK, Tables
  <2> QED
    BY <2>1, <2>2, <2>3, <2>4, <2>5, <2>6, <2>7 DEF Unseen
<1> QED
  BY <1>0, <1>1, <1>2 DEF TransactionsKnow

LEMMA UnseenInv == ASSUME Inv, NEW m \in Msgs, Unseen(m) PROVE Inv'
<1>1. UNCHANGED <<rows, request, steady>>
  BY UnseenFrame
<1>2. TypeOK' /\ TransactionsKnow'
  BY UnseenTypeOK, UnseenTransactions DEF Inv
<1>3. DriversAreCustomers'
  BY <1>1 DEF Inv, DriversAreCustomers
<1>4. RequestsKnow'
  BY <1>1 DEF Inv, RequestsKnow
<1>5. SteadyKnow'
  BY <1>1 DEF Inv, SteadyKnow, InFlight
<1> QED
  BY <1>2, <1>3, <1>4, <1>5 DEF Inv

\* No commit takes a customer row away.
LEMMA CommitKeepsCustomers ==
    ASSUME Inv, NEW m \in Msgs, Commit(m)
    PROVE  \A u \in Users : rows[u]["customer"] # "none" => rows'[u]["customer"] # "none"
<1>1. pending[m]["customer"] \in {"kept", "new"}
  BY DEF Inv, TransactionsKnow
<1> QED
  BY <1>1, CommitRows DEF Inv, Tables

LEMMA CommitInv == ASSUME Inv, NEW m \in Msgs, Commit(m) PROVE Inv'
<1>0. TypeOK /\ m[1] \in Users /\ phase[m] = "commit"
  BY MsgFields DEF Inv, Commit
<1>1. TypeOK'
  BY CommitTypeOK DEF Inv
<1>2. DriversAreCustomers'
  <2>1. rows'[m[1]]["customer"] # "none"
    BY <1>0, CommitRows DEF Inv, TransactionsKnow, Tables
  <2>2. \A u \in Users \ {m[1]} : rows'[u] = rows[u]
    BY <1>0, CommitRows
  <2> QED
    BY <2>1, <2>2 DEF Inv, DriversAreCustomers
<1>3. TransactionsKnow'
  <2>1. \A o \in Msgs \ {m} : phase'[o] = phase[o] /\ pending'[o] = pending[o]
    BY <1>0 DEF Commit, Move, TypeOK
  <2>2. phase'[m] = "ack" /\ pending'[m]["customer"] = "kept" /\ pending'[m]["driver"] = "kept"
    BY <1>0 DEF Commit, Move, TypeOK, NoWrites, Tables
  <2>3. \A o \in Msgs : rows[o[1]]["customer"] # "none" => rows'[o[1]]["customer"] # "none"
    BY CommitKeepsCustomers, MsgFields
  <2> QED
    BY <2>1, <2>2, <2>3 DEF Inv, TransactionsKnow
<1>4. RequestsKnow'
  <2>1. request' = request
    BY DEF Commit
  <2>2. \A r \in Reqs : request[r] # Idle => request[r].user \in Users
    BY <1>0, ActiveRequests DEF Active
  <2> QED
    BY <2>1, <2>2, CommitKeepsCustomers DEF Inv, RequestsKnow
<1>5. SteadyKnow'
  <2> SUFFICES ASSUME NEW r \in steady'
               PROVE  /\ request'[r] # Idle
                      /\ InFlight(r)' => rows'[request'[r].user]["driver"] # "none"
                      /\ request'[r].phase = "gather" => \A t \in Tables : request'[r].seen[t] # "none"
                      /\ request'[r].status # "not_found"
    BY DEF SteadyKnow
  <2>1. request' = request /\ r \in steady
    BY DEF Commit
  <2>2. InFlight(r) /\ request[r].user = m[1] => rows'[m[1]]["driver"] # "none"
    BY DEF Commit
  <2>3. InFlight(r) => request[r].user \in Users
    BY <1>0, <2>1, FlightIsActive DEF Active, TypeOK
  <2>4. InFlight(r) => rows'[request[r].user]["driver"] # "none"
    BY <1>0, <2>1, <2>2, <2>3, CommitRows DEF Inv, SteadyKnow
  <2> QED
    BY <2>1, <2>4 DEF Inv, SteadyKnow, InFlight
<1> QED
  BY <1>1, <1>2, <1>3, <1>4, <1>5 DEF Inv

-----------------------------------------------------------------------------
(* The steps of requests, and crashes *)

\* What becomes of RequestsKnow and SteadyKnow when one request moves on.
LEMMA OneRequestMoves ==
    ASSUME Inv, TypeOK', NEW r \in Reqs, NEW x \in Active, request' = [request EXCEPT ![r] = x],
           steady' \subseteq steady \cup {r},
           \A u \in Users : rows[u]["customer"] # "none" => rows'[u]["customer"] # "none",
           \A u \in Users : rows[u]["driver"] # "none" => rows'[u]["driver"] # "none",
           x.phase # "done" => x.status = "ok",
           x.phase \in {"save", "gather"} => ~x.saved,
           x.saved => x.status # "not_found" /\ rows'[x.user]["customer"] # "none",
           r \in steady' =>
               /\ x.phase # "done" => rows'[x.user]["driver"] # "none"
               /\ x.phase = "gather" => \A t \in Tables : x.seen[t] # "none"
               /\ x.status # "not_found"
    PROVE  RequestsKnow' /\ SteadyKnow'
<1>0. /\ request'[r] = x /\ x # Idle
      /\ \A o \in Reqs \ {r} : request'[o] = request[o]
  BY DEF Inv, TypeOK, Active, Idle
<1>1. RequestsKnow'
  <2>1. \A o \in Reqs : request[o] # Idle => request[o].user \in Users
    BY ActiveRequests DEF Inv, Active
  <2> QED
    BY <1>0, <2>1 DEF Inv, RequestsKnow
<1>2. SteadyKnow'
  <2>1. \A o \in steady : request[o] # Idle /\ (InFlight(o) => request[o].user \in Users)
    BY ActiveRequests DEF Inv, SteadyKnow, TypeOK, Active
  <2>2. \A o \in Reqs \ {r} : InFlight(o)' <=> InFlight(o)
    BY <1>0 DEF InFlight
  <2>3. InFlight(r)' <=> x.phase # "done"
    BY <1>0 DEF InFlight, Active
  <2>4. steady' \subseteq Reqs
    BY DEF TypeOK
  <2> QED
    BY <1>0, <2>1, <2>2, <2>3, <2>4 DEF Inv, SteadyKnow
<1> QED
  BY <1>1, <1>2

LEMMA BeginInv ==
    ASSUME Inv, NEW r \in Reqs, NEW k \in Kinds, NEW u \in Users, NEW a \in TokenRoles, Begin(r, k, u, a)
    PROVE  Inv'
<1> DEFINE q == [phase |-> FirstPhase(k, a), kind |-> k, user |-> u, role |-> a,
                 saved |-> FALSE, seen |-> NoWrites, status |-> "ok"]
           Fresh(x) == /\ x.user = u /\ ~x.saved /\ x.seen = NoWrites
                       /\ x.phase # "done" => x.status = "ok"
                       /\ x.status = "not_found" => rows[u][TableOf(k)] = "none"
<1>1. request[r] = Idle /\ steady' = (IF rows[u]["driver"] = "none" THEN steady ELSE steady \cup {r})
  BY DEF Begin
<1>2. NoWrites \in [Tables -> Rows \cup {"kept"}] /\ \A t \in Tables : NoWrites[t] = "kept"
  BY DEF NoWrites
<1>3. q \in Active /\ Fresh(q)
  BY <1>2, FirstPhases DEF Active, Statuses
<1>4. \A s \in {"forbidden", "not_found"} :
          LET x == [q EXCEPT !.phase = "done", !.status = s] IN
          x \in Active /\ (s = "not_found" => rows[u][TableOf(k)] = "none") => Fresh(x)
  BY <1>3
<1>5. PICK x \in Active : request' = [request EXCEPT ![r] = x] /\ Fresh(x)
  <2>1. \A s \in {"forbidden", "not_found"} : [q EXCEPT !.phase = "done", !.status = s] \in Active
    BY <1>3 DEF Active, Statuses
  <2> HIDE DEF Fresh
  <2> QED
    BY <1>3, <1>4, <2>1 DEF Begin
<1>6. TypeOK' /\ UNCHANGED <<rows, role, delivery, phase, pending, processed, faults>>
  BY BeginTypeOK, BeginFrame DEF Inv
<1>7. r \notin steady
  BY <1>1 DEF Inv, SteadyKnow
<1>8. rows[u]["driver"] # "none" => x.status # "not_found"
  <2>1. rows[u]["driver"] # "none" => rows[u][TableOf(k)] # "none"
    BY DEF Inv, DriversAreCustomers, TableOf
  <2> QED
    BY <2>1, <1>5
<1>9. RequestsKnow' /\ SteadyKnow'
  BY <1>1, <1>2, <1>5, <1>6, <1>7, <1>8, OneRequestMoves
<1>10. DriversAreCustomers' /\ TransactionsKnow'
  BY <1>6 DEF Inv, DriversAreCustomers, TransactionsKnow
<1> QED
  BY <1>6, <1>9, <1>10 DEF Inv

LEMMA SaveRows ==
    ASSUME TypeOK, NEW r \in Reqs, Save(r)
    PROVE  /\ \A u \in Users, t \in Tables : (rows'[u][t] = "none") <=> (rows[u][t] = "none")
           /\ \A u \in Users, t \in Tables :
                  rows'[u][t] # rows[u][t] => rows'[u][t] = "edited" /\ u = request[r].user
<1> DEFINE w == request[r].user
           s == TableOf(request[r].kind)
<1>1. w \in Users /\ s \in Tables
  BY FlightIsActive DEF Save, InFlight, Active, TableOf, Tables
<1>2. CASE rows' = rows
  BY <1>2
<1>3. CASE rows[w][s] # "none" /\ rows' = [rows EXCEPT ![w] = [rows[w] EXCEPT ![s] = "edited"]]
  <2>1. rows[w] \in [Tables -> Rows]
    BY <1>1 DEF TypeOK
  <2>2. /\ rows'[w][s] = "edited"
        /\ \A t \in Tables \ {s} : rows'[w][t] = rows[w][t]
        /\ \A u \in Users \ {w} : rows'[u] = rows[u]
    BY <1>1, <1>3, <2>1 DEF TypeOK
  <2> QED
    BY <1>3, <2>2
<1> QED
  BY <1>2, <1>3 DEF Save

LEMMA ContinueInv == ASSUME Inv, NEW r \in Reqs, Continue(r) PROVE Inv'
<1> DEFINE q == request[r]
<1>0. /\ TypeOK /\ q # Idle /\ q \in Active /\ q.user \in Users
      /\ r \in steady => rows[q.user]["driver"] # "none" /\ q.status # "not_found"
  <2>1. InFlight(r)
    BY DEF Continue, Save, ReadMine, Gather, InFlight
  <2> QED
    BY <2>1, FlightIsActive DEF Inv, SteadyKnow, Active
<1>1. TypeOK' /\ UNCHANGED <<phase, pending, steady>>
  BY ContinueTypeOK, RequestFrame DEF Inv
<1>2. \A u \in Users, t \in Tables : (rows'[u][t] = "none") <=> (rows[u][t] = "none")
  BY <1>0, SaveRows DEF Continue, ReadMine, Gather
<1>3. DriversAreCustomers' /\ TransactionsKnow'
  BY <1>1, <1>2, MsgFields DEF Inv, DriversAreCustomers, TransactionsKnow, Tables
<1>4. q.saved => rows[q.user]["customer"] # "none" /\ q.status # "not_found" /\ q.phase \notin {"save", "gather"}
  BY <1>0 DEF Inv, RequestsKnow
<1>5. rows[q.user]["driver"] # "none" => rows[q.user]["customer"] # "none"
  BY <1>0 DEF Inv, DriversAreCustomers
<1>6. CASE Save(r)
  <2>1. ASSUME request' = [request EXCEPT ![r] = [q EXCEPT !.phase = "done", !.status = "internal"]]
        PROVE  RequestsKnow' /\ SteadyKnow'
    <3> DEFINE x == [q EXCEPT !.phase = "done", !.status = "internal"]
    <3>1. x \in Active /\ x.phase = "done" /\ x.status = "internal" /\ x.saved = q.saved /\ x.user = q.user
      BY <1>0 DEF Active, Statuses
    <3> HIDE DEF x
    <3> QED
      BY <1>1, <1>2, <1>4, <2>1, <3>1, OneRequestMoves, <1>0 DEF Tables, x
  <2>2. ASSUME request' = [request EXCEPT ![r] = [q EXCEPT !.phase = "readCustomer", !.saved = TRUE]],
               rows[q.user][TableOf(q.kind)] # "none"
        PROVE  RequestsKnow' /\ SteadyKnow'
    <3> DEFINE x == [q EXCEPT !.phase = "readCustomer", !.saved = TRUE]
    <3>1. /\ x \in Active /\ x.phase = "readCustomer" /\ x.status = q.status /\ x.saved
          /\ x.user = q.user /\ q.phase = "save" /\ x.status = "ok"
      BY <1>0, <1>6 DEF Active, Save, Inv, RequestsKnow
    <3>2. rows'[q.user]["customer"] # "none"
      BY <1>0, <1>2, <1>5, <2>2 DEF TableOf, Tables
    <3> HIDE DEF x
    <3> QED
      BY <1>0, <1>1, <1>2, <2>2, <3>1, <3>2, OneRequestMoves DEF Tables, x
  <2> QED
    BY <1>1, <1>3, <1>6, <2>1, <2>2 DEF Inv, Save
<1>7. CASE ReadMine(r)
  <2>0. rows' = rows
    BY <1>7 DEF ReadMine
  <2>1. CASE /\ q.phase = "readCustomer"
             /\ rows[q.user]["customer"] = "none"
             /\ request' = [request EXCEPT ![r] = [q EXCEPT !.phase = "done", !.status = "not_found"]]
    <3> DEFINE x == [q EXCEPT !.phase = "done", !.status = "not_found"]
    <3>1. x \in Active /\ x.phase = "done" /\ x.saved = q.saved /\ x.user = q.user /\ ~q.saved /\ r \notin steady
      BY <1>0, <1>4, <1>5, <2>1 DEF Active, Statuses
    <3> HIDE DEF x
    <3>2. RequestsKnow' /\ SteadyKnow'
      BY <1>1, <1>2, <2>1, <3>1, OneRequestMoves DEF Tables, x
    <3> QED
      BY <1>1, <1>3, <3>2 DEF Inv
  <2>2. ASSUME NEW t \in Tables, NEW p \in {"readDriver", "done"}, q.phase # "done",
               request' = [request EXCEPT ![r] = [Seen(q, t) EXCEPT !.phase = p]]
        PROVE  RequestsKnow' /\ SteadyKnow'
    <3> DEFINE x == [Seen(q, t) EXCEPT !.phase = p]
    <3>0. /\ Seen(q, t) \in Active
          /\ Seen(q, t) = [q EXCEPT !.seen = [q.seen EXCEPT ![t] = rows[q.user][t]]]
      BY <1>0, SeenOK
    <3>1. /\ x \in Active /\ x.phase = p /\ x.saved = q.saved /\ x.user = q.user
          /\ x.status = q.status /\ q.status = "ok"
      <4>1. q.status = "ok"
        BY <1>0, <2>2 DEF Inv, RequestsKnow
      <4> QED
        BY <1>0, <3>0, <4>1 DEF Active
    <3> HIDE DEF x
    <3> QED
      BY <1>0, <1>1, <1>2, <1>4, <2>0, <2>2, <3>1, OneRequestMoves DEF Tables, x
  <2> QED
    BY <1>1, <1>3, <1>7, <2>1, <2>2 DEF Inv, ReadMine, Tables
<1>8. ASSUME NEW t \in Tables, Gather(r, t) PROVE Inv'
  <2>0. rows' = rows /\ q.phase = "gather" /\ ~q.saved /\ q.status = "ok"
    BY <1>0, <1>8 DEF Gather, Inv, RequestsKnow
  <2>1. /\ Seen(q, t) \in Active
        /\ Seen(q, t) = [q EXCEPT !.seen = [q.seen EXCEPT ![t] = rows[q.user][t]]]
    BY <1>0, SeenOK
  <2>2. /\ Seen(q, t).phase = "gather" /\ Seen(q, t).user = q.user /\ ~Seen(q, t).saved
        /\ Seen(q, t).status = "ok"
    BY <1>0, <2>0, <2>1 DEF Active
  <2>3. r \in steady => \A o \in Tables : Seen(q, t).seen[o] # "none"
    <3>1. r \in steady => rows[q.user][t] # "none" /\ \A o \in Tables : q.seen[o] # "none"
      BY <1>0, <1>5, <1>8, <2>0 DEF Inv, SteadyKnow, Tables
    <3>2. Seen(q, t).seen = [q.seen EXCEPT ![t] = rows[q.user][t]] /\ q.seen \in [Tables -> Rows \cup {"kept"}]
      BY <1>0, <2>1 DEF Active
    <3> QED
      BY <3>1, <3>2
  <2>4. ASSUME request' = [request EXCEPT ![r] = Seen(q, t)]
        PROVE  RequestsKnow' /\ SteadyKnow'
    BY <1>0, <1>1, <1>2, <2>0, <2>1, <2>2, <2>3, <2>4, OneRequestMoves DEF Tables
  <2>5. ASSUME NEW s \in {"ok", "not_found"}, r \in steady => s = "ok",
               request' = [request EXCEPT ![r] = [Seen(q, t) EXCEPT !.phase = "done", !.status = s]]
        PROVE  RequestsKnow' /\ SteadyKnow'
    <3> DEFINE x == [Seen(q, t) EXCEPT !.phase = "done", !.status = s]
    <3>1. x \in Active /\ x.phase = "done" /\ ~x.saved /\ x.user = q.user /\ x.status = s
      BY <2>1, <2>2 DEF Active, Statuses
    <3> HIDE DEF x
    <3> QED
      BY <1>0, <1>1, <1>2, <2>5, <3>1, OneRequestMoves DEF Tables, x
  <2>6. RequestsKnow' /\ SteadyKnow'
    <3> DEFINE found == \A o \in Tables : Seen(q, t).seen[o] # "none"
    <3>1. \/ request' = [request EXCEPT ![r] = Seen(q, t)]
          \/ request' = [request EXCEPT ![r] =
                 [Seen(q, t) EXCEPT !.phase = "done", !.status = IF found THEN "ok" ELSE "not_found"]]
      BY <1>8 DEF Gather
    <3> QED
      BY <2>3, <2>4, <2>5, <3>1
  <2> QED
    BY <1>1, <1>3, <2>6 DEF Inv
<1> QED
  BY <1>6, <1>7, <1>8 DEF Continue

LEMMA CrashInv == ASSUME Inv, Crash PROVE Inv'
<1>1. TypeOK' /\ UNCHANGED <<rows, steady>>
  BY CrashTypeOK DEF Inv, Crash
<1>2. DriversAreCustomers'
  BY <1>1 DEF Inv, DriversAreCustomers
<1>3. TransactionsKnow'
  BY DEF Crash, TransactionsKnow, NoWrites, Tables
<1>4. \A r \in Reqs :
          /\ ~InFlight(r)'
          /\ request[r] = Idle => request'[r] = Idle
          /\ request[r] # Idle =>
                 /\ request'[r] # Idle
                 /\ request'[r].phase = "done"
                 /\ request'[r].saved = request[r].saved
                 /\ request'[r].user = request[r].user
                 /\ request'[r].status \in {"lost", request[r].status}
  <2> TAKE r \in Reqs
  <2>1. CASE InFlight(r)
    <3>1. request[r] \in Active /\ request[r] # Idle
      BY <2>1, FlightIsActive DEF Inv
    <3>2. request'[r] = [request[r] EXCEPT !.phase = "done", !.status = "lost"]
      BY <2>1 DEF Crash
    <3> QED
      BY <3>1, <3>2 DEF Active, InFlight, Idle
  <2>2. CASE ~InFlight(r)
    <3>1. request'[r] = request[r]
      BY <2>2 DEF Crash
    <3>2. request[r] # Idle => request[r] \in Active
      BY ActiveRequests DEF Inv
    <3> QED
      BY <2>2, <3>1, <3>2 DEF InFlight, Active, Idle
  <2> QED
    BY <2>1, <2>2
<1>5. RequestsKnow'
  BY <1>1, <1>4 DEF Inv, RequestsKnow
<1>6. SteadyKnow'
  BY <1>1, <1>4 DEF Inv, SteadyKnow, TypeOK
<1> QED
  BY <1>1, <1>2, <1>3, <1>5, <1>6 DEF Inv

LEMMA StutterInv == ASSUME Inv, UNCHANGED vars PROVE Inv'
BY DEF Inv, vars, TypeOK, DriversAreCustomers, TransactionsKnow, RequestsKnow, SteadyKnow, InFlight

\* The steps, by what they mean for the proofs.
LEMMA Steps ==
    ASSUME [Next]_vars
    PROVE  \/ \E m \in Msgs : Unseen(m) \/ Commit(m)
           \/ \E r \in Reqs, k \in Kinds, u \in Users, a \in TokenRoles : Begin(r, k, u, a)
           \/ \E r \in Reqs : Continue(r)
           \/ Crash
           \/ UNCHANGED vars
BY DEF Next, MessageStep, Unseen, AllDone

LEMMA NextInv == ASSUME Inv, [Next]_vars PROVE Inv'
BY Steps, UnseenInv, CommitInv, BeginInv, ContinueInv, CrashInv, StutterInv

LEMMA InvAlways == Spec => []Inv
BY InitInv, NextInv, PTL DEF Spec
-----------------------------------------------------------------------------
(* Users whose messages are handled one by one *)

\* Until the commit nobody else inserts or deletes the rows a transaction has
\* looked at, so its writes are what the rows still call for.
Knows(m) ==
    /\ phase[m] # "queued" => \A o \in Msgs : o[1] = m[1] /\ o[2] < m[2] => phase[o] = "done"
    /\ phase[m] \in {"ack", "done"} => m \in processed
    /\ phase[m] \in TxPhases => m \notin processed
    /\ phase[m] = "insertCustomer" => LacksCustomer(m[1])
    /\ phase[m] \in {"readDriver", "insertDriver", "deleteDriver", "commit"} =>
           (pending[m]["customer"] = "new" <=> LacksCustomer(m[1]))
    /\ phase[m] \in {"queued", "insertCustomer"} => pending[m]["customer"] = "kept"
    /\ phase[m] \in (TxPhases \ {"commit"}) \cup {"queued"} => pending[m]["driver"] = "kept"
    /\ phase[m] = "insertDriver" => Promotes(m) /\ LacksDriver(m[1])
    /\ phase[m] = "deleteDriver" => Demotes(m) /\ ~LacksDriver(m[1])
    /\ phase[m] = "commit" =>
           pending[m]["driver"] = IF Promotes(m) /\ LacksDriver(m[1]) THEN "new"
                                  ELSE IF Demotes(m) /\ ~LacksDriver(m[1]) THEN "none"
                                  ELSE "kept"

OneByOneKnow == \A m \in Msgs : InOrder(m[1]) => Knows(m)

LEMMA RolesAreFixed ==
    ASSUME [Next]_vars
    PROVE  UNCHANGED <<role, delivery>>
<1>1. ASSUME NEW m \in Msgs, Unseen(m) \/ Commit(m) PROVE UNCHANGED <<role, delivery>>
  BY <1>1, UnseenFrame DEF Commit
<1>2. ASSUME NEW r \in Reqs, Continue(r) PROVE UNCHANGED <<role, delivery>>
  BY <1>2, RequestFrame
<1>3. ASSUME NEW r \in Reqs, NEW k \in Kinds, NEW u \in Users, NEW a \in TokenRoles, Begin(r, k, u, a)
      PROVE UNCHANGED <<role, delivery>>
  BY <1>3, BeginFrame
<1> QED
  BY <1>1, <1>2, <1>3, Steps DEF Crash, vars

LEMMA OneOpen ==
    ASSUME OneByOneKnow, NEW m \in Msgs, NEW o \in Msgs, InOrder(m[1]), o[1] = m[1], o # m,
           phase[m] # "queued", phase[m] # "done"
    PROVE  phase[o] \in {"queued", "done"}
<1>1. m[2] \in Nat /\ o[2] \in Nat /\ m[2] # o[2]
  BY MsgFields, BoundsOK
<1>2. CASE o[2] < m[2]
  BY <1>2 DEF OneByOneKnow, Knows
<1>3. CASE m[2] < o[2]
  BY <1>3 DEF OneByOneKnow, Knows
<1> QED
  BY <1>1, <1>2, <1>3

LEMMA OneByOneInit == Init => OneByOneKnow
BY DEF Init, OneByOneKnow, Knows, NoWrites, Tables, TxPhases

\* One message moves, and the rows of its user keep what they have or lack.
LEMMA OneMessageMoves ==
    ASSUME OneByOneKnow, NEW m \in Msgs,
           UNCHANGED <<rows, role, delivery, processed>>,
           \A o \in Msgs \ {m} : phase'[o] = phase[o] /\ pending'[o] = pending[o],
           phase[m] # "done",
           InOrder(m[1]) =>
               /\ phase'[m] # "queued" =>
                      \A o \in Msgs : o[1] = m[1] /\ o[2] < m[2] => phase[o] = "done"
               /\ phase'[m] \in {"ack", "done"} => m \in processed
               /\ phase'[m] \in TxPhases => m \notin processed
               /\ phase'[m] = "insertCustomer" => LacksCustomer(m[1])
               /\ phase'[m] \in {"readDriver", "insertDriver", "deleteDriver", "commit"} =>
                      (pending'[m]["customer"] = "new" <=> LacksCustomer(m[1]))
               /\ phase'[m] \in {"queued", "insertCustomer"} => pending'[m]["customer"] = "kept"
               /\ phase'[m] \in (TxPhases \ {"commit"}) \cup {"queued"} => pending'[m]["driver"] = "kept"
               /\ phase'[m] = "insertDriver" => Promotes(m) /\ LacksDriver(m[1])
               /\ phase'[m] = "deleteDriver" => Demotes(m) /\ ~LacksDriver(m[1])
               /\ phase'[m] = "commit" =>
                      pending'[m]["driver"] = IF Promotes(m) /\ LacksDriver(m[1]) THEN "new"
                                              ELSE IF Demotes(m) /\ ~LacksDriver(m[1]) THEN "none"
                                              ELSE "kept"
    PROVE  OneByOneKnow'
<1>1. \A o \in Msgs : phase[o] = "done" => phase'[o] = "done"
  OBVIOUS
<1>2. \A u \in Users : /\ InOrder(u)' <=> InOrder(u)
                       /\ LacksCustomer(u)' <=> LacksCustomer(u)
                       /\ LacksDriver(u)' <=> LacksDriver(u)
  BY DEF InOrder, LacksCustomer, LacksDriver
<1>3. \A o \in Msgs : (Promotes(o)' <=> Promotes(o)) /\ (Demotes(o)' <=> Demotes(o)) /\ o[1] \in Users
  BY MsgFields DEF Promotes, Demotes
<1>4. ASSUME NEW o \in Msgs, InOrder(o[1]), phase'[o] # "queued",
             NEW e \in Msgs, e[1] = o[1], e[2] < o[2]
      PROVE  phase'[e] = "done"
  BY <1>1, <1>4 DEF OneByOneKnow, Knows
<1> QED
  BY <1>2, <1>3, <1>4 DEF OneByOneKnow, Knows

LEMMA OneByOneUnseen ==
    ASSUME TypeOK, TransactionsKnow, OneByOneKnow, NEW m \in Msgs, Unseen(m)
    PROVE  OneByOneKnow'
<1>0. UNCHANGED <<rows, role, delivery, processed>> /\ m[1] \in Users
  BY UnseenFrame, MsgFields
<1>1. \A o \in Msgs \ {m} : phase'[o] = phase[o] /\ pending'[o] = pending[o]
  BY DEF Unseen, Start, AlreadyRecorded, InsertCustomer, ReadDriver, InsertDriver, DeleteDriver, Ack, Abort, Move, Write, TypeOK
<1>2. pending[m] \in [Tables -> {"kept", "none", "new"}] /\ phase[m] \in {"queued", "ack", "done"} \cup TxPhases
  BY DEF TypeOK
<1>3. phase[m] # "done"
  BY DEF Unseen, Start, AlreadyRecorded, InsertCustomer, ReadDriver, InsertDriver, DeleteDriver, Ack, Abort, TxPhases
<1>4. CASE Start(m)
  <2>1. phase'[m] \in {"ack", "insertCustomer", "readDriver"} /\ pending' = pending
    BY <1>4 DEF Start, AlreadyRecorded, Move, TypeOK
  <2>2. InOrder(m[1]) => \A o \in Msgs : o[1] = m[1] /\ o[2] < m[2] => phase[o] = "done"
    BY <1>4 DEF Start, AlreadyRecorded, MayStart, InOrder
  <2>3. InOrder(m[1]) => pending[m]["customer"] = "kept" /\ pending[m]["driver"] = "kept"
    <3>1. phase[m] = "queued"
      BY <1>4 DEF Start
    <3> QED
      BY <3>1 DEF OneByOneKnow, Knows
  <2>4. /\ phase'[m] = "ack" => m \in processed
        /\ phase'[m] = "insertCustomer" => m \notin processed /\ LacksCustomer(m[1])
        /\ phase'[m] = "readDriver" => m \notin processed /\ ~LacksCustomer(m[1])
    BY <1>4 DEF Start, AlreadyRecorded, Move, TypeOK
  <2> QED
    BY <1>0, <1>1, <1>3, <2>1, <2>2, <2>3, <2>4, OneMessageMoves DEF TxPhases
<1>5. CASE InsertCustomer(m)
  <2>1. /\ phase[m] = "insertCustomer" /\ phase'[m] = "readDriver"
        /\ pending'[m]["customer"] = "new" /\ pending'[m]["driver"] = pending[m]["driver"]
    BY <1>2, <1>5 DEF InsertCustomer, Move, Write, Tables, TypeOK
  <2>2. InOrder(m[1]) =>
            /\ \A o \in Msgs : o[1] = m[1] /\ o[2] < m[2] => phase[o] = "done"
            /\ m \notin processed /\ LacksCustomer(m[1]) /\ pending[m]["driver"] = "kept"
    BY <2>1 DEF OneByOneKnow, Knows, TxPhases
  <2> QED
    BY <1>0, <1>1, <1>3, <2>1, <2>2, OneMessageMoves DEF TxPhases
<1>6. CASE ReadDriver(m)
  <2>1. /\ phase[m] = "readDriver" /\ pending' = pending
        /\ phase'[m] = IF Promotes(m) /\ LacksDriver(m[1]) THEN "insertDriver"
                       ELSE IF Demotes(m) /\ ~LacksDriver(m[1]) THEN "deleteDriver" ELSE "commit"
    BY <1>6 DEF ReadDriver, Move, TypeOK
  <2>2. InOrder(m[1]) =>
            /\ \A o \in Msgs : o[1] = m[1] /\ o[2] < m[2] => phase[o] = "done"
            /\ m \notin processed /\ pending[m]["driver"] = "kept"
            /\ pending[m]["customer"] = "new" <=> LacksCustomer(m[1])
    BY <2>1 DEF OneByOneKnow, Knows, TxPhases
  <2>3. CASE Promotes(m) /\ LacksDriver(m[1])
    BY <1>0, <1>1, <1>3, <2>1, <2>2, <2>3, OneMessageMoves DEF TxPhases
  <2>4. CASE ~(Promotes(m) /\ LacksDriver(m[1])) /\ Demotes(m) /\ ~LacksDriver(m[1])
    BY <1>0, <1>1, <1>3, <2>1, <2>2, <2>4, OneMessageMoves DEF TxPhases
  <2>5. CASE ~(Promotes(m) /\ LacksDriver(m[1])) /\ ~(Demotes(m) /\ ~LacksDriver(m[1]))
    BY <1>0, <1>1, <1>3, <2>1, <2>2, <2>5, OneMessageMoves DEF TxPhases
  <2> QED
    BY <2>3, <2>4, <2>5
<1>7. CASE InsertDriver(m)
  <2>1. /\ phase[m] = "insertDriver" /\ phase'[m] = "commit"
        /\ pending'[m]["driver"] = "new" /\ pending'[m]["customer"] = pending[m]["customer"]
    BY <1>2, <1>7 DEF InsertDriver, AfterDriver, Move, Write, Tables, TypeOK
  <2>2. InOrder(m[1]) =>
            /\ \A o \in Msgs : o[1] = m[1] /\ o[2] < m[2] => phase[o] = "done"
            /\ m \notin processed /\ Promotes(m) /\ LacksDriver(m[1])
            /\ pending[m]["customer"] = "new" <=> LacksCustomer(m[1])
    BY <2>1 DEF OneByOneKnow, Knows, TxPhases
  <2> QED
    BY <1>0, <1>1, <1>3, <2>1, <2>2, OneMessageMoves DEF TxPhases
<1>8. CASE DeleteDriver(m)
  <2>1. /\ phase[m] = "deleteDriver" /\ phase'[m] = "commit"
        /\ pending'[m]["driver"] = "none" /\ pending'[m]["customer"] = pending[m]["customer"]
    BY <1>2, <1>8 DEF DeleteDriver, AfterDriver, Move, Write, Tables, TypeOK
  <2>2. InOrder(m[1]) =>
            /\ \A o \in Msgs : o[1] = m[1] /\ o[2] < m[2] => phase[o] = "done"
            /\ m \notin processed /\ Demotes(m) /\ ~LacksDriver(m[1])
            /\ pending[m]["customer"] = "new" <=> LacksCustomer(m[1])
    BY <2>1 DEF OneByOneKnow, Knows, TxPhases
  <2> QED
    BY <1>0, <1>1, <1>3, <2>1, <2>2, OneMessageMoves DEF TxPhases, Demotes
<1>9. CASE Ack(m)
  <2>1. phase[m] = "ack" /\ phase'[m] = "done"
    BY <1>9 DEF Ack, Move, TypeOK
  <2>2. InOrder(m[1]) =>
            /\ \A o \in Msgs : o[1] = m[1] /\ o[2] < m[2] => phase[o] = "done"
            /\ m \in processed
    BY <2>1 DEF OneByOneKnow, Knows
  <2> QED
    BY <1>0, <1>1, <1>3, <2>1, <2>2, OneMessageMoves DEF TxPhases
<1>10. CASE Abort(m)
  <2>1. phase'[m] = "queued" /\ pending'[m]["customer"] = "kept" /\ pending'[m]["driver"] = "kept"
    BY <1>10 DEF Abort, Move, AfterFailure, NoWrites, Tables, TypeOK
  <2> QED
    BY <1>0, <1>1, <1>3, <2>1, OneMessageMoves DEF TxPhases
<1> QED
  BY <1>4, <1>5, <1>6, <1>7, <1>8, <1>9, <1>10 DEF Unseen

LEMMA OneByOneCommit ==
    ASSUME TypeOK, OneByOneKnow, NEW m \in Msgs, Commit(m)
    PROVE  OneByOneKnow'
<1>0. /\ m[1] \in Users /\ phase[m] = "commit" /\ phase'[m] = "ack" /\ m \in processed'
      /\ UNCHANGED <<role, delivery>>
  BY MsgFields DEF Commit, Move, TypeOK
<1>1. \A o \in Msgs \ {m} : phase'[o] = phase[o] /\ pending'[o] = pending[o]
  BY DEF Commit, Move, TypeOK
<1>2. \A o \in Msgs \ {m} : o \in processed' <=> o \in processed
  BY DEF Commit
<1>3. \A u \in Users \ {m[1]} : rows'[u] = rows[u]
  BY CommitRows
<1>4. pending'[m]["customer"] = "kept" /\ pending'[m]["driver"] = "kept"
  BY DEF Commit, NoWrites, Tables, TypeOK
<1> SUFFICES ASSUME NEW o \in Msgs, InOrder(o[1])
             PROVE  Knows(o)'
  BY <1>0 DEF OneByOneKnow, InOrder
<1>5. Knows(o) /\ o[1] \in Users
  BY MsgFields DEF OneByOneKnow
<1>6. phase'[o] # "queued" => \A e \in Msgs : e[1] = o[1] /\ e[2] < o[2] => phase'[e] = "done"
  BY <1>0, <1>1, <1>5 DEF Knows
<1>7. CASE o = m
  BY <1>0, <1>4, <1>6, <1>7 DEF Knows, TxPhases
<1>8. CASE o # m /\ o[1] = m[1]
  <2>1. phase[o] \in {"queued", "done"}
    BY <1>0, <1>8, OneOpen
  <2> QED
    BY <1>1, <1>2, <1>5, <1>6, <1>8, <2>1 DEF Knows, TxPhases
<1>9. CASE o[1] # m[1]
  <2>1. (LacksCustomer(o[1])' <=> LacksCustomer(o[1])) /\ (LacksDriver(o[1])' <=> LacksDriver(o[1]))
    BY <1>3, <1>5, <1>9 DEF LacksCustomer, LacksDriver
  <2>2. (Promotes(o)' <=> Promotes(o)) /\ (Demotes(o)' <=> Demotes(o))
    BY <1>0 DEF Promotes, Demotes
  <2> QED
    BY <1>1, <1>2, <1>5, <1>6, <1>9, <2>1, <2>2 DEF Knows
<1> QED
  BY <1>7, <1>8, <1>9

LEMMA OneByOneRequests ==
    ASSUME OneByOneKnow, UNCHANGED <<role, delivery, phase, pending, processed>>,
           \A u \in Users, t \in Tables : (rows'[u][t] = "none") <=> (rows[u][t] = "none")
    PROVE  OneByOneKnow'
<1> SUFFICES ASSUME NEW o \in Msgs, InOrder(o[1])
             PROVE  Knows(o)'
  BY DEF OneByOneKnow, InOrder
<1>1. Knows(o) /\ o[1] \in Users
  BY MsgFields DEF OneByOneKnow
<1>2. (LacksCustomer(o[1])' <=> LacksCustomer(o[1])) /\ (LacksDriver(o[1])' <=> LacksDriver(o[1]))
  BY <1>1 DEF LacksCustomer, LacksDriver, Tables
<1>3. (Promotes(o)' <=> Promotes(o)) /\ (Demotes(o)' <=> Demotes(o))
  BY DEF Promotes, Demotes
<1> QED
  BY <1>1, <1>2, <1>3 DEF Knows

LEMMA OneByOneCrash == ASSUME OneByOneKnow, Crash PROVE OneByOneKnow'
<1> SUFFICES ASSUME NEW o \in Msgs, InOrder(o[1])
             PROVE  Knows(o)'
  BY DEF OneByOneKnow, InOrder, Crash
<1>1. Knows(o)
  BY DEF OneByOneKnow
<1>2. \A e \in Msgs : /\ phase'[e] = IF phase[e] = "done" THEN "done" ELSE "queued"
                      /\ pending'[e]["customer"] = "kept" /\ pending'[e]["driver"] = "kept"
  BY DEF Crash, NoWrites, Tables
<1>3. processed' = processed
  BY DEF Crash
<1> QED
  BY <1>1, <1>2, <1>3 DEF Knows, TxPhases
-----------------------------------------------------------------------------
(* What a driver's own PATCH shows *)

EditsStay ==
    \A r \in Reqs : request[r] # Idle /\ request[r].kind = "patchDriver" =>
        /\ request[r].phase # "done" =>
               request[r].role = "driver" /\ request[r].phase \in {"save", "readCustomer", "readDriver"}
        /\ (r \in steady /\ InOrder(request[r].user)) =>
               /\ request[r].phase \in {"readCustomer", "readDriver"} =>
                      rows[request[r].user]["driver"] = "edited"
               /\ request[r].phase = "done" /\ request[r].status = "ok" =>
                      request[r].seen["driver"] = "edited"

LEMMA EditsInit == Init => EditsStay
BY DEF Init, EditsStay

LEMMA EditsUnseen ==
    ASSUME EditsStay, UNCHANGED <<rows, delivery, request, steady>>
    PROVE  EditsStay'
BY DEF EditsStay, InOrder

\* The commit that would overwrite an edited row found none when it was prepared.
LEMMA EditsCommit ==
    ASSUME Inv, OneByOneKnow, EditsStay, NEW m \in Msgs, Commit(m)
    PROVE  EditsStay'
<1>1. request' = request /\ delivery' = delivery /\ steady' \subseteq steady
  BY DEF Commit
<1> SUFFICES ASSUME NEW r \in steady', request[r] # Idle, request[r].kind = "patchDriver",
                    InOrder(request[r].user), request[r].phase \in {"readCustomer", "readDriver"}
             PROVE  rows'[request[r].user]["driver"] = "edited"
  BY <1>1 DEF EditsStay, InOrder, Inv, TypeOK
<1>2. r \in Reqs /\ r \in steady /\ InFlight(r)
  BY <1>1 DEF Inv, TypeOK, InFlight
<1>3. request[r].user \in Users /\ rows[request[r].user]["driver"] = "edited"
  BY <1>2, ActiveRequests DEF Inv, Active, EditsStay
<1>4. CASE request[r].user # m[1]
  BY <1>3, <1>4, CommitRows DEF Inv
<1>5. CASE request[r].user = m[1]
  <2>1. rows'[m[1]]["driver"] # "none"
    BY <1>2, <1>5 DEF Commit
  <2>2. ~LacksDriver(m[1])
    BY <1>3, <1>5 DEF LacksDriver
  <2>3. pending[m]["driver"] # "new"
    BY <1>5, <2>2 DEF OneByOneKnow, Knows, Commit
  <2>4. pending[m]["driver"] \in {"kept", "none", "new"}
    BY DEF Inv, TypeOK, Tables
  <2> QED
    BY <1>3, <1>5, <2>1, <2>3, <2>4, CommitRows DEF Inv, Tables
<1> QED
  BY <1>4, <1>5

LEMMA EditsBegin ==
    ASSUME Inv, EditsStay, NEW r \in Reqs, NEW k \in Kinds, NEW u \in Users, NEW a \in TokenRoles,
           Begin(r, k, u, a)
    PROVE  EditsStay'
<1> DEFINE q == [phase |-> FirstPhase(k, a), kind |-> k, user |-> u, role |-> a,
                 saved |-> FALSE, seen |-> NoWrites, status |-> "ok"]
           Fresh(x) == x.kind = "patchDriver" =>
                           \/ x.phase = "save" /\ x.role = "driver"
                           \/ x.phase = "done" /\ x.status # "ok"
<1>1. \A o \in Reqs \ {r} : request'[o] = request[o] /\ (o \in steady' <=> o \in steady)
  BY DEF Begin, Inv, TypeOK
<1>2. \A s \in {"forbidden", "not_found"} : Fresh([q EXCEPT !.phase = "done", !.status = s])
  OBVIOUS
<1>3. Admitted(k, a) => Fresh(q)
  BY DEF Admitted, FirstPhase
<1>4. Fresh(request'[r])
  <2>1. request[r] = Idle /\ request \in [Reqs -> Requests]
    BY DEF Begin, Inv, TypeOK
  <2> HIDE DEF Fresh
  <2> QED
    BY <1>2, <1>3, <2>1 DEF Begin
<1>5. UNCHANGED <<rows, delivery>>
  BY BeginFrame
<1> QED
  BY <1>1, <1>4, <1>5 DEF EditsStay, InOrder

LEMMA EditsContinue ==
    ASSUME Inv, EditsStay, NEW r \in Reqs, Continue(r)
    PROVE  EditsStay'
<1> DEFINE q == request[r]
<1>0. /\ TypeOK /\ q # Idle /\ q \in Active /\ q.user \in Users /\ q.phase # "done"
      /\ request \in [Reqs -> Requests]
  <2>1. InFlight(r)
    BY DEF Continue, Save, ReadMine, Gather, InFlight
  <2> QED
    BY <2>1, FlightIsActive DEF Inv, Active, TypeOK, InFlight
<1>1. steady' = steady /\ delivery' = delivery
  BY RequestFrame
<1>2. \A o \in Reqs \ {r} : request'[o] = request[o]
  BY <1>0 DEF Continue, Save, ReadMine, Gather
<1>3. \A u \in Users : rows[u]["driver"] = "edited" => rows'[u]["driver"] = "edited"
  BY <1>0, SaveRows DEF Continue, ReadMine, Gather, Tables
<1>4. q.kind = "patchDriver" => q.role = "driver" /\ q.phase \in {"save", "readCustomer", "readDriver"}
  BY <1>0 DEF EditsStay
<1>5. (q.kind = "patchDriver" /\ r \in steady /\ InOrder(q.user) /\ q.phase # "save")
          => rows[q.user]["driver"] = "edited"
  BY <1>0, <1>4 DEF EditsStay
<1>6. ASSUME q.kind = "patchDriver", request'[r] # Idle
      PROVE  /\ request'[r].user = q.user /\ request'[r].kind = q.kind
             /\ request'[r].phase # "done" =>
                    /\ request'[r].role = "driver"
                    /\ request'[r].phase \in {"save", "readCustomer", "readDriver"}
             /\ (r \in steady /\ InOrder(q.user)) =>
                    /\ request'[r].phase \in {"readCustomer", "readDriver"} =>
                           rows'[q.user]["driver"] = "edited"
                    /\ request'[r].phase = "done" /\ request'[r].status = "ok" =>
                           request'[r].seen["driver"] = "edited"
  <2>1. CASE Save(r)
    <3>1. CASE request'[r] = [q EXCEPT !.phase = "done", !.status = "internal"]
      BY <1>0, <3>1 DEF Active
    <3>2. CASE /\ request'[r] = [q EXCEPT !.phase = "readCustomer", !.saved = TRUE]
               /\ rows' = [rows EXCEPT ![q.user] = [rows[q.user] EXCEPT !["driver"] = "edited"]]
      <4>1. rows[q.user] \in [Tables -> Rows] /\ "driver" \in Tables
        BY <1>0 DEF TypeOK, Tables
      <4>2. rows'[q.user]["driver"] = "edited"
        BY <1>0, <3>2, <4>1 DEF TypeOK
      <4> QED
        BY <1>0, <1>4, <1>6, <3>2, <4>2 DEF Active
    <3> QED
      BY <1>0, <1>6, <2>1, <3>1, <3>2 DEF Save, TableOf
  <2>2. CASE ReadMine(r)
    <3>1. CASE q.phase = "readCustomer"
      <4>1. \/ request'[r] = [q EXCEPT !.phase = "done", !.status = "not_found"]
            \/ request'[r] = [Seen(q, "customer") EXCEPT !.phase = "readDriver"]
        BY <1>0, <1>4, <1>6, <2>2, <3>1 DEF ReadMine
      <4>2. "customer" \in Tables
        BY DEF Tables
      <4>3. Seen(q, "customer") = [q EXCEPT !.seen = [q.seen EXCEPT !["customer"] = rows[q.user]["customer"]]]
        BY <1>0, <4>2, SeenOK
      <4> QED
        BY <1>0, <1>3, <1>4, <1>5, <1>6, <3>1, <4>1, <4>3 DEF Active
    <3>2. CASE q.phase = "readDriver"
      <4>1. request'[r] = [Seen(q, "driver") EXCEPT !.phase = "done"]
        BY <1>0, <2>2, <3>2 DEF ReadMine
      <4>2. "driver" \in Tables
        BY DEF Tables
      <4>3. Seen(q, "driver") = [q EXCEPT !.seen = [q.seen EXCEPT !["driver"] = rows[q.user]["driver"]]]
        BY <1>0, <4>2, SeenOK
      <4>4. q.seen \in [Tables -> Rows \cup {"kept"}]
        BY <1>0 DEF Active
      <4> QED
        BY <1>0, <1>5, <1>6, <3>2, <4>1, <4>2, <4>3, <4>4 DEF Active
    <3> QED
      BY <2>2, <3>1, <3>2 DEF ReadMine
  <2>3. ASSUME NEW t \in Tables, Gather(r, t) PROVE FALSE
    BY <1>4, <1>6, <2>3 DEF Gather
  <2> QED
    BY <2>1, <2>2, <2>3 DEF Continue
<1>7. request'[r].kind = q.kind
  <2>1. \A t \in Tables : Seen(q, t) = [q EXCEPT !.seen = [q.seen EXCEPT ![t] = rows[q.user][t]]]
    BY <1>0, SeenOK
  <2>2. \A t \in Tables : Seen(q, t) \in Active /\ Seen(q, t).kind = q.kind
    BY <1>0, <2>1, SeenOK DEF Active
  <2>3. CASE Save(r)
    BY <1>0, <2>3 DEF Save, Active
  <2>4. CASE ReadMine(r)
    <3>1. \A x \in Active, p \in {"readDriver", "done"} : [x EXCEPT !.phase = p].kind = x.kind
      BY DEF Active
    <3>2. [q EXCEPT !.phase = "done", !.status = "not_found"].kind = q.kind
      BY <1>0 DEF Active
    <3> QED
      BY <1>0, <2>2, <2>4, <3>1, <3>2 DEF ReadMine, Tables
  <2>5. ASSUME NEW t \in Tables, Gather(r, t) PROVE request'[r].kind = q.kind
    BY <1>0, <2>2, <2>5 DEF Gather, Active
  <2> QED
    BY <2>3, <2>4, <2>5 DEF Continue
<1> QED
  BY <1>0, <1>1, <1>2, <1>3, <1>6, <1>7, ActiveRequests DEF EditsStay, InOrder, Active

LEMMA EditsCrash == ASSUME Inv, EditsStay, Crash PROVE EditsStay'
<1>1. UNCHANGED <<rows, delivery, steady>>
  BY DEF Crash
<1>2. \A r \in Reqs : InFlight(r) => request'[r].phase = "done" /\ request'[r].status = "lost"
  <2> TAKE r \in Reqs
  <2> HAVE InFlight(r)
  <2>1. request[r] \in Active /\ request'[r] = [request[r] EXCEPT !.phase = "done", !.status = "lost"]
    BY FlightIsActive DEF Inv, Crash
  <2> QED
    BY <2>1 DEF Active
<1>3. \A r \in Reqs : ~InFlight(r) => request'[r] = request[r]
  BY DEF Crash
<1> QED
  BY <1>1, <1>2, <1>3 DEF EditsStay, InOrder, InFlight
-----------------------------------------------------------------------------
(* How many messages have had their effect *)

Handled(u) == {m \in processed : m[1] = u}

\* Messages handled one by one are recorded from the first on, without a gap.
Counted ==
    \A u \in Users : InOrder(u) =>
        \E n \in 0 .. Changes : /\ Handled(u) = {<<u, i>> : i \in 1 .. n}
                                /\ IsFiniteSet(Handled(u))
                                /\ Cardinality(Handled(u)) = n

LEMMA CountedInit == Init => Counted
<1> SUFFICES ASSUME Init, NEW u \in Users
             PROVE  /\ Handled(u) = {<<u, i>> : i \in 1 .. 0}
                    /\ IsFiniteSet(Handled(u)) /\ Cardinality(Handled(u)) = 0
  BY BoundsOK DEF Counted
<1>1. Handled(u) = {}
  BY DEF Init, Handled
<1> QED
  BY <1>1, FS_EmptySet

LEMMA CountedStays ==
    ASSUME Counted, UNCHANGED <<processed, delivery>>
    PROVE  Counted'
<1>1. \A u \in Users : Handled(u)' = Handled(u) /\ (InOrder(u)' <=> InOrder(u))
  BY DEF Handled, InOrder
<1> QED
  BY <1>1 DEF Counted

\* Message m of a user is the m-th one that is recorded.
LEMMA CommitCounts ==
    ASSUME Inv, OneByOneKnow, Counted, NEW m \in Msgs, Commit(m)
    PROVE  /\ \A u \in Users \ {m[1]} : Handled(u)' = Handled(u)
           /\ InOrder(m[1]) =>
                  /\ Handled(m[1])' = {<<m[1], i>> : i \in 1 .. m[2]}
                  /\ IsFiniteSet(Handled(m[1])')
                  /\ Cardinality(Handled(m[1])) = m[2] - 1
                  /\ Cardinality(Handled(m[1])') = m[2]
<1>0. /\ m[1] \in Users /\ m[2] \in 1 .. Changes /\ m = <<m[1], m[2]>> /\ Changes \in Nat
      /\ phase[m] = "commit" /\ processed' = processed \cup {m}
  BY MsgFields, BoundsOK DEF Commit
<1>1. \A u \in Users \ {m[1]} : Handled(u)' = Handled(u)
  BY <1>0 DEF Handled
<1> SUFFICES ASSUME InOrder(m[1])
             PROVE  /\ Handled(m[1])' = {<<m[1], i>> : i \in 1 .. m[2]}
                    /\ IsFiniteSet(Handled(m[1])')
                    /\ Cardinality(Handled(m[1])) = m[2] - 1
                    /\ Cardinality(Handled(m[1])') = m[2]
  BY <1>1
<1>2. PICK n \in 0 .. Changes : /\ Handled(m[1]) = {<<m[1], i>> : i \in 1 .. n}
                                /\ IsFiniteSet(Handled(m[1]))
                                /\ Cardinality(Handled(m[1])) = n
  BY <1>0 DEF Counted
<1>3. m \notin Handled(m[1]) /\ Handled(m[1])' = Handled(m[1]) \cup {m}
  BY <1>0 DEF Handled, OneByOneKnow, Knows, TxPhases
<1>4. \A i \in 1 .. m[2] : i < m[2] => <<m[1], i>> \in Handled(m[1])
  <2> TAKE i \in 1 .. m[2]
  <2> HAVE i < m[2]
  <2>1. <<m[1], i>> \in Msgs
    BY <1>0 DEF Msgs
  <2>2. phase[<<m[1], i>>] = "done"
    BY <1>0, <2>1 DEF OneByOneKnow, Knows
  <2>3. <<m[1], i>> \in processed
    BY <2>1, <2>2 DEF OneByOneKnow, Knows
  <2> QED
    BY <2>3 DEF Handled
<1>5. n = m[2] - 1
  <2>1. ~(m[2] <= n)
    BY <1>0, <1>2, <1>3
  <2>2. ~(n < m[2] - 1)
    <3>1. SUFFICES ASSUME n < m[2] - 1 PROVE FALSE
      OBVIOUS
    <3>2. <<m[1], n + 1>> \in Handled(m[1])
      BY <1>0, <1>4, <3>1
    <3>3. PICK i \in 1 .. n : <<m[1], n + 1>> = <<m[1], i>>
      BY <1>2, <3>2
    <3> QED
      BY <3>3
  <2> QED
    BY <1>0, <2>1, <2>2
<1>6. IsFiniteSet(Handled(m[1])') /\ Cardinality(Handled(m[1])') = n + 1
  BY <1>2, <1>3, FS_AddElement
<1>7. Handled(m[1])' = {<<m[1], i>> : i \in 1 .. m[2]}
  <2>1. 1 .. m[2] = (1 .. n) \cup {m[2]}
    BY <1>0, <1>5
  <2> QED
    BY <1>0, <1>2, <1>3, <2>1
<1> QED
  BY <1>0, <1>2, <1>5, <1>6, <1>7

LEMMA CountedCommit ==
    ASSUME Inv, OneByOneKnow, Counted, NEW m \in Msgs, Commit(m)
    PROVE  Counted'
<1>1. delivery' = delivery /\ m[1] \in Users /\ m[2] \in 0 .. Changes
  BY MsgFields, BoundsOK DEF Commit
<1>2. \A u \in Users : InOrder(u)' <=> InOrder(u)
  BY <1>1 DEF InOrder
<1> QED
  BY <1>1, <1>2, CommitCounts DEF Counted

-----------------------------------------------------------------------------
(* The rows and the last role *)

\* The rows of a user after the first n messages.
RowsAfter(u, n) ==
    IF n = 0 THEN rows[u]["driver"] = "none" ELSE MatchesRole(<<u, n>>)

FollowsRoles == \A u \in Users : InOrder(u) => RowsAfter(u, Cardinality(Handled(u)))

LEMMA FollowsInit == Init => FollowsRoles
<1> SUFFICES ASSUME Init, NEW u \in Users
             PROVE  RowsAfter(u, Cardinality(Handled(u)))
  BY DEF FollowsRoles
<1>1. Handled(u) = {} /\ rows[u]["driver"] = "none"
  BY DEF Init, Handled, Tables
<1> QED
  BY <1>1, FS_EmptySet DEF RowsAfter

\* Only a commit changes which rows there are.
LEMMA FollowsStays ==
    ASSUME FollowsRoles, UNCHANGED <<processed, delivery, role>>,
           \A u \in Users, t \in Tables : (rows'[u][t] = "none") <=> (rows[u][t] = "none")
    PROVE  FollowsRoles'
<1> SUFFICES ASSUME NEW u \in Users, InOrder(u)
             PROVE  RowsAfter(u, Cardinality(Handled(u)))'
  BY DEF FollowsRoles, InOrder
<1>1. RowsAfter(u, Cardinality(Handled(u))) /\ Handled(u)' = Handled(u)
  BY DEF FollowsRoles, Handled
<1>2. \A n : Promotes(<<u, n>>)' <=> Promotes(<<u, n>>)
  BY DEF Promotes
<1>3. "customer" \in Tables /\ "driver" \in Tables
  BY DEF Tables
<1> QED
  BY <1>1, <1>2, <1>3 DEF RowsAfter, MatchesRole

\* What a transaction has written is what the registry makes of the row.
LEMMA CommitProvisions ==
    ASSUME Inv, OneByOneKnow, NEW m \in Msgs, Commit(m), InOrder(m[1])
    PROVE  rows'[m[1]] = Registry!Provisioned(rows[m[1]], m[2], role[m[1]][m[2]])
<1> DEFINE old == rows[m[1]]
           new == rows'[m[1]]
<1>0. /\ m[1] \in Users /\ Knows(m) /\ phase[m] = "commit"
      /\ old \in [Tables -> Rows] /\ new \in [Tables -> Rows]
      /\ pending[m]["customer"] \in {"kept", "new"}
  BY MsgFields, CommitRows DEF Inv, TypeOK, OneByOneKnow, TransactionsKnow, Commit
<1>1. new["customer"] = IF old["customer"] = "none" THEN "new" ELSE old["customer"]
  BY <1>0, CommitRows DEF Inv, Knows, LacksCustomer, Tables
<1>2. new["driver"] = IF Promotes(m) THEN IF old["driver"] = "none" THEN "new" ELSE old["driver"]
                      ELSE IF m[2] = 1 THEN old["driver"] ELSE "none"
  BY <1>0, CommitRows DEF Inv, Knows, LacksDriver, Demotes, Tables
<1>3. \A f, g : f \in [Tables -> Rows] /\ g = [customer |-> f["customer"], driver |-> f["driver"]] => f = g
  BY DEF Tables
<1> QED
  BY <1>0, <1>1, <1>2, <1>3 DEF Registry!Provisioned, Promotes

LEMMA FollowsCommit ==
    ASSUME Inv, OneByOneKnow, Counted, FollowsRoles, NEW m \in Msgs, Commit(m)
    PROVE  FollowsRoles'
<1>0. /\ m[1] \in Users /\ m[2] \in 1 .. Changes /\ m = <<m[1], m[2]>> /\ Changes \in Nat
      /\ UNCHANGED <<role, delivery>>
  BY MsgFields, BoundsOK DEF Commit
<1> SUFFICES ASSUME NEW u \in Users, InOrder(u)
             PROVE  RowsAfter(u, Cardinality(Handled(u)))'
  BY <1>0 DEF FollowsRoles, InOrder
<1>1. \A n : Promotes(<<u, n>>)' <=> Promotes(<<u, n>>)
  BY <1>0 DEF Promotes
<1>2. RowsAfter(u, Cardinality(Handled(u)))
  BY DEF FollowsRoles
<1>3. CASE u # m[1]
  <2>1. rows'[u] = rows[u] /\ Handled(u)' = Handled(u)
    BY <1>3, CommitRows, CommitCounts DEF Inv
  <2> QED
    BY <1>1, <1>2, <2>1 DEF RowsAfter, MatchesRole
<1>4. CASE u = m[1]
  <2>1. Cardinality(Handled(u)) = m[2] - 1 /\ Cardinality(Handled(u)') = m[2]
    BY <1>4, CommitCounts
  <2>2. rows'[u] = Registry!Provisioned(rows[u], m[2], role[u][m[2]])
    BY <1>4, CommitProvisions
  <2>3. rows'[u]["customer"] # "none"
    BY <2>2 DEF Registry!Provisioned
  <2>4. (rows'[u]["driver"] # "none") <=> role[u][m[2]] = "driver"
    <3>1. m[2] = 1 => rows[u]["driver"] = "none"
      BY <1>2, <2>1 DEF RowsAfter
    <3> QED
      BY <2>2, <3>1 DEF Registry!Provisioned
  <2>5. MatchesRole(<<u, m[2]>>)'
    BY <1>0, <2>3, <2>4 DEF MatchesRole, Promotes
  <2> QED
    BY <1>0, <2>1, <2>5 DEF RowsAfter
<1> QED
  BY <1>3, <1>4

\* The last message with an effect is the one that was recorded last.
LEMMA LastIsCounted ==
    ASSUME OneByOneKnow, Counted, NEW m \in Msgs, InOrder(m[1]), HasEffect(m),
           \A o \in Msgs : o[1] = m[1] /\ o[2] > m[2] => ~HasEffect(o)
    PROVE  Cardinality(Handled(m[1])) = m[2]
<1>1. m[1] \in Users /\ m[2] \in 1 .. Changes /\ m = <<m[1], m[2]>> /\ Changes \in Nat
  BY MsgFields, BoundsOK
<1>2. m \in Handled(m[1])
  BY DEF HasEffect, OneByOneKnow, Knows, Handled
<1>3. PICK n \in 0 .. Changes : /\ Handled(m[1]) = {<<m[1], i>> : i \in 1 .. n}
                                /\ Cardinality(Handled(m[1])) = n
  BY <1>1 DEF Counted
<1>4. m[2] <= n
  BY <1>1, <1>2, <1>3
<1>5. ~(n > m[2])
  <2> SUFFICES ASSUME n > m[2] PROVE FALSE
    OBVIOUS
  <2>1. <<m[1], n>> \in Handled(m[1]) /\ <<m[1], n>> \in Msgs
    BY <1>1, <1>3 DEF Msgs
  <2> QED
    BY <2>1 DEF Handled, HasEffect
<1> QED
  BY <1>1, <1>3, <1>4, <1>5

-----------------------------------------------------------------------------
(* All of it is invariant *)

FullInv == Inv /\ OneByOneKnow /\ EditsStay /\ Counted /\ FollowsRoles

LEMMA FullInvInit == Init => FullInv
BY InitInv, OneByOneInit, EditsInit, CountedInit, FollowsInit DEF FullInv

LEMMA FullInvNext == ASSUME FullInv, [Next]_vars PROVE FullInv'
<1>0. Inv'
  BY NextInv DEF FullInv
<1>1. ASSUME NEW m \in Msgs, Unseen(m) PROVE FullInv'
  BY <1>0, <1>1, UnseenFrame, OneByOneUnseen, EditsUnseen, CountedStays, FollowsStays DEF FullInv, Inv
<1>2. ASSUME NEW m \in Msgs, Commit(m) PROVE FullInv'
  BY <1>0, <1>2, OneByOneCommit, EditsCommit, CountedCommit, FollowsCommit DEF FullInv, Inv
<1>3. ASSUME NEW r \in Reqs, NEW k \in Kinds, NEW u \in Users, NEW a \in TokenRoles, Begin(r, k, u, a)
      PROVE  FullInv'
  BY <1>0, <1>3, BeginFrame, OneByOneRequests, EditsBegin, CountedStays, FollowsStays DEF FullInv
<1>4. ASSUME NEW r \in Reqs, Continue(r) PROVE FullInv'
  <2>1. \A u \in Users, t \in Tables : (rows'[u][t] = "none") <=> (rows[u][t] = "none")
    BY <1>4, SaveRows DEF Continue, ReadMine, Gather, FullInv, Inv
  <2> QED
    BY <1>0, <1>4, <2>1, RequestFrame, OneByOneRequests, EditsContinue, CountedStays, FollowsStays DEF FullInv
<1>5. CASE Crash
  <2>1. UNCHANGED <<rows, role, processed, delivery>>
    BY <1>5 DEF Crash
  <2> QED
    BY <1>0, <1>5, <2>1, OneByOneCrash, EditsCrash, CountedStays, FollowsStays DEF FullInv
<1>6. CASE UNCHANGED vars
  <2>1. UNCHANGED <<rows, role, delivery, phase, pending, processed, request, steady>>
    BY <1>6 DEF vars
  <2> QED
    BY <1>0, <2>1, OneByOneRequests, EditsUnseen, CountedStays, FollowsStays DEF FullInv
<1> QED
  BY <1>1, <1>2, <1>3, <1>4, <1>5, <1>6, Steps

LEMMA FullInvAlways == Spec => []FullInv
BY FullInvInit, FullInvNext, PTL DEF Spec

\* Type correctness, for any number of users, messages, requests and faults.
THEOREM TypeCorrect == Spec => []TypeOK
<1>1. Inv => TypeOK
  BY DEF Inv
<1> QED
  BY <1>1, InvAlways, PTL

\* However the transactions of both handlers overlap, abort and restart, nobody
\* is seen with a driver row and without a customer row.
THEOREM NoDriverWithoutCustomer == Spec => []DriversAreCustomers
<1>1. Inv => DriversAreCustomers
  BY DEF Inv
<1> QED
  BY <1>1, InvAlways, PTL

\* A PATCH that has saved its row is never answered 404 by the view it reads
\* afterwards, whatever the handlers did in between.
THEOREM SavedAreNotDenied == Spec => []SavedIsNotDenied
<1>1. Inv => SavedIsNotDenied
  BY DEF Inv, RequestsKnow, SavedIsNotDenied
<1> QED
  BY <1>1, InvAlways, PTL

\* The two unsynchronised queries of the internal lookup never miss a driver
\* who was one from the first to the last of them.
THEOREM SteadyDriversAreFound == Spec => []DriversAreFound
<1>1. Inv => DriversAreFound
  BY DEF Inv, SteadyKnow, DriversAreFound
<1> QED
  BY <1>1, InvAlways, PTL

\* No message handled one by one resets what a steady driver has just saved.
THEOREM OwnEditsAreShown == Spec => []OwnEditIsShown
<1>1. FullInv => OwnEditIsShown
  BY DEF FullInv, Inv, SteadyKnow, TypeOK, EditsStay, OwnEditIsShown
<1> QED
  BY <1>1, FullInvAlways, PTL

\* Two transactions of one user cannot wait for each other: whoever has written
\* the driver row is at its commit, and whoever still wants to write the
\* customer row has written nothing.
THEOREM NoDeadlock == Spec => []NoTransactionDeadlock
<1>1. ASSUME Inv, NEW S \in SUBSET Msgs, S # {}
      PROVE  \E m \in S : \A o \in S : ~WaitsFor(m, o)
  <2>1. \A m, o \in S : WaitsFor(m, o) /\ phase[m] # "insertCustomer" => \A e \in S : ~WaitsFor(o, e)
    BY <1>1 DEF WaitsFor, Holds, Inv, TransactionsKnow
  <2>2. \A m, o \in S : WaitsFor(m, o) /\ phase[m] = "insertCustomer" => phase[o] # "insertCustomer"
    BY <1>1 DEF WaitsFor, Holds, Inv, TransactionsKnow
  <2> QED
    BY <1>1, <2>1, <2>2
<1>2. Inv => NoTransactionDeadlock
  BY <1>1 DEF NoTransactionDeadlock
<1> QED
  BY <1>2, InvAlways, PTL

\* At every moment the rows of a user whose messages are handled one by one are
\* those of the last role that was recorded.
THEOREM RowsFollowRoles == Spec => []RowsFollowRole
<1>1. ASSUME FullInv, NEW m \in Msgs, InOrder(m[1]), HasEffect(m),
             \A o \in Msgs : o[1] = m[1] /\ o[2] > m[2] => ~HasEffect(o)
      PROVE  MatchesRole(m)
  <2>1. Cardinality(Handled(m[1])) = m[2]
    BY <1>1, LastIsCounted DEF FullInv
  <2>2. m[1] \in Users /\ m[2] # 0 /\ m = <<m[1], m[2]>>
    BY MsgFields, BoundsOK
  <2> QED
    BY <1>1, <2>1, <2>2 DEF FullInv, FollowsRoles, RowsAfter
<1>2. FullInv => RowsFollowRole
  BY <1>1 DEF RowsFollowRole
<1> QED
  BY <1>2, FullInvAlways, PTL

\* Once every message is handled, all stay handled and the rows of those whose
\* messages are handled one by one stay those of the last role: of what
\* EveryoneSettles says only that this comes about is left to the run.
THEOREM HandledStaySettled == Spec /\ <>AllHandled => EveryoneSettles
<1> DEFINE Settled == AllHandled /\ \A m \in Msgs : InOrder(m[1]) /\ m[2] = Changes => MatchesRole(m)
<1>1. AllHandled /\ [Next]_vars => AllHandled'
  <2> SUFFICES ASSUME AllHandled, [Next]_vars PROVE AllHandled'
    OBVIOUS
  <2>1. \A m \in Msgs : ~Unseen(m) /\ ~Commit(m)
    BY DEF AllHandled, Unseen, Start, AlreadyRecorded, InsertCustomer, ReadDriver, InsertDriver, DeleteDriver, Ack,
           Abort, TxPhases, Commit
  <2>2. phase' = phase \/ Crash
    BY <2>1, Steps, BeginFrame, RequestFrame DEF vars
  <2> QED
    BY <2>2 DEF AllHandled, Crash
<1>2. AllHandled /\ RowsFollowRole => Settled
  <2> SUFFICES ASSUME AllHandled, RowsFollowRole, NEW m \in Msgs, InOrder(m[1]), m[2] = Changes
               PROVE  MatchesRole(m)
    OBVIOUS
  <2>1. HasEffect(m)
    BY DEF AllHandled, HasEffect
  <2>2. \A o \in Msgs : ~(o[2] > m[2])
    BY MsgFields, BoundsOK
  <2> QED
    BY <2>1, <2>2 DEF RowsFollowRole
<1> HIDE DEF Settled
<1>3. Spec /\ <>AllHandled => <>[]Settled
  BY <1>1, <1>2, RowsFollowRoles, PTL DEF Spec
<1> QED
  BY <1>3 DEF Settled, EveryoneSettles

-----------------------------------------------------------------------------
(* The refinement of the registry *)

RegistryRows == [u \in Users |-> IF InOrder(u) THEN rows[u] ELSE [t \in Tables |-> "none"]]

RegistryApplied == [u \in Users |-> IF InOrder(u) THEN Cardinality(Handled(u)) ELSE 0]

LEMMA RegistryInit == Init => Registry!Init
<1> SUFFICES ASSUME Init PROVE Registry!Init
  OBVIOUS
<1>1. \A u \in Users : Cardinality(Handled(u)) = 0
  <2> TAKE u \in Users
  <2>1. Handled(u) = {}
    BY DEF Init, Handled
  <2> QED
    BY <2>1, FS_EmptySet
<1>2. [t \in Tables |-> "none"] = [customer |-> "none", driver |-> "none"]
  BY DEF Tables
<1>3. RegistryRows = [u \in Users |-> [customer |-> "none", driver |-> "none"]]
  BY <1>2 DEF RegistryRows, Init
<1>4. RegistryApplied = [u \in Users |-> 0]
  BY <1>1 DEF RegistryApplied
<1>5. role \in [Users -> [1 .. Changes -> {"driver", "other"}]]
  BY DEF Init, MsgRoles
<1> QED
  BY <1>3, <1>4, <1>5 DEF Registry!Init, RegistryRows, RegistryApplied, Handled

\* Steps that touch neither rows nor records stutter.
LEMMA RegistryStutter ==
    ASSUME UNCHANGED <<role, delivery, processed>>, \A u \in Users : InOrder(u) => rows'[u] = rows[u]
    PROVE  UNCHANGED Registry!registry
<1>1. \A u \in Users : (InOrder(u)' <=> InOrder(u)) /\ Handled(u)' = Handled(u)
  BY DEF InOrder, Handled
<1>2. RegistryRows' = RegistryRows /\ RegistryApplied' = RegistryApplied
  BY <1>1 DEF RegistryRows, RegistryApplied
<1> QED
  BY <1>2 DEF Registry!registry, RegistryRows, RegistryApplied, Handled

LEMMA CommitRefines ==
    ASSUME Inv, OneByOneKnow, Counted, NEW m \in Msgs, Commit(m)
    PROVE  Registry!Next \/ UNCHANGED Registry!registry
<1>0. /\ m[1] \in Users /\ m[2] \in 1 .. Changes /\ UNCHANGED <<role, delivery>>
      /\ \A u \in Users \ {m[1]} : rows'[u] = rows[u] /\ Handled(u)' = Handled(u)
  BY MsgFields, CommitRows, CommitCounts DEF Commit, Inv
<1>1. \A u \in Users : InOrder(u)' <=> InOrder(u)
  BY <1>0 DEF InOrder
<1>2. CASE ~InOrder(m[1])
  <2>1. RegistryRows' = RegistryRows /\ RegistryApplied' = RegistryApplied
    BY <1>0, <1>1, <1>2 DEF RegistryRows, RegistryApplied
  <2> QED
    BY <1>0, <2>1 DEF Registry!registry, RegistryRows, RegistryApplied, Handled
<1>3. CASE InOrder(m[1])
  <2>1. /\ Cardinality(Handled(m[1])) = m[2] - 1 /\ Cardinality(Handled(m[1])') = m[2]
        /\ rows'[m[1]] = Registry!Provisioned(rows[m[1]], m[2], role[m[1]][m[2]])
    BY <1>3, CommitCounts, CommitProvisions
  <2>2. RegistryApplied[m[1]] + 1 = m[2] /\ RegistryRows[m[1]] = rows[m[1]]
    BY <1>0, <1>3, <2>1 DEF RegistryApplied, RegistryRows
  <2>3. RegistryRows' = [RegistryRows EXCEPT ![m[1]] =
                             Registry!Provisioned(RegistryRows[m[1]], m[2], role[m[1]][m[2]])]
    BY <1>0, <1>1, <1>3, <2>1, <2>2 DEF RegistryRows
  <2>4. RegistryApplied' = [RegistryApplied EXCEPT ![m[1]] = m[2]]
    BY <1>0, <1>1, <1>3, <2>1 DEF RegistryApplied
  <2>5. Registry!Apply(m[1])
    BY <1>0, <2>2, <2>3, <2>4 DEF Registry!Apply, RegistryRows, RegistryApplied, Handled
  <2> QED
    BY <1>0, <2>5 DEF Registry!Next
<1> QED
  BY <1>2, <1>3

LEMMA SaveRefines ==
    ASSUME Inv, NEW r \in Reqs, Save(r)
    PROVE  Registry!Next \/ UNCHANGED Registry!registry
<1> PICK w \in Users, s \in {"customer", "driver"} : w = request[r].user /\ s = TableOf(request[r].kind)
  BY FlightIsActive DEF Save, InFlight, Active, TableOf, Inv
<1>0. UNCHANGED <<role, delivery, processed>>
  BY DEF Save
<1>1. CASE rows' = rows
  BY <1>0, <1>1, RegistryStutter
<1>2. CASE rows[w][s] # "none" /\ rows' = [rows EXCEPT ![w] = [rows[w] EXCEPT ![s] = "edited"]]
  <2>1. rows \in [Users -> [Tables -> Rows]]
    BY DEF Inv, TypeOK
  <2>2. CASE ~InOrder(w)
    BY <1>0, <1>2, <2>1, <2>2, RegistryStutter
  <2>3. CASE InOrder(w)
    <3>1. \A u \in Users : (InOrder(u)' <=> InOrder(u)) /\ Handled(u)' = Handled(u)
      BY <1>0 DEF InOrder, Handled
    <3>2. RegistryApplied' = RegistryApplied
      BY <3>1 DEF RegistryApplied
    <3>3. RegistryRows[w] = rows[w]
      BY <2>1, <2>3 DEF RegistryRows
    <3>4. RegistryRows' = [RegistryRows EXCEPT ![w] = [RegistryRows[w] EXCEPT ![s] = "edited"]]
      BY <1>2, <2>1, <2>3, <3>1, <3>3 DEF RegistryRows
    <3>5. Registry!Edit(w, s)
      BY <1>0, <1>2, <3>2, <3>3, <3>4 DEF Registry!Edit, RegistryRows, RegistryApplied, Handled
    <3> QED
      BY <3>5 DEF Registry!Next
  <2> QED
    BY <2>2, <2>3
<1> QED
  BY <1>1, <1>2 DEF Save

LEMMA StepRefines ==
    ASSUME FullInv, [Next]_vars
    PROVE  Registry!Next \/ UNCHANGED Registry!registry
<1>1. ASSUME NEW m \in Msgs, Unseen(m) PROVE UNCHANGED Registry!registry
  BY <1>1, UnseenFrame, RegistryStutter
<1>2. ASSUME NEW m \in Msgs, Commit(m) PROVE Registry!Next \/ UNCHANGED Registry!registry
  BY <1>2, CommitRefines DEF FullInv
<1>3. ASSUME NEW r \in Reqs, NEW k \in Kinds, NEW u \in Users, NEW a \in TokenRoles, Begin(r, k, u, a)
      PROVE  UNCHANGED Registry!registry
  BY <1>3, BeginFrame, RegistryStutter
<1>4. ASSUME NEW r \in Reqs, Continue(r) PROVE Registry!Next \/ UNCHANGED Registry!registry
  <2>1. CASE Save(r)
    BY <2>1, SaveRefines DEF FullInv
  <2>2. CASE ~Save(r)
    <3>1. UNCHANGED <<rows, role, delivery, processed>>
      BY <1>4, <2>2 DEF Continue, ReadMine, Gather
    <3> QED
      BY <3>1, RegistryStutter
  <2> QED
    BY <2>1, <2>2
<1>5. CASE Crash \/ UNCHANGED vars
  <2>1. UNCHANGED <<rows, role, delivery, processed>>
    BY <1>5 DEF Crash, vars
  <2> QED
    BY <2>1, RegistryStutter
<1> QED
  BY <1>1, <1>2, <1>3, <1>4, <1>5, Steps

\* Handled one by one, the messages of the auth service have the effect of the
\* atomic registry: once each, in order, without resetting what users edited.
THEOREM HandlersImplementRegistry == Spec => RegistrySpec
<1>1. Init => Registry!Init
  BY RegistryInit
<1>2. FullInv /\ [Next]_vars => [Registry!Next]_(Registry!registry)
  BY StepRefines
<1> QED
  BY <1>1, <1>2, FullInvAlways, PTL DEF Spec, RegistrySpec, Registry!Spec

-----------------------------------------------------------------------------
(* The refinement of the inbox, for any way of delivery *)

InboxOutcome == [m \in Msgs |-> IF phase[m] = "done" THEN "acked" ELSE "pending"]

\* The dedup check of a message holds until its transaction ends: an open one is
\* the first to come this far, and no second one is ever committed.
RecordsKnow ==
    \A m \in Msgs :
        /\ commits[m] = IF m \in processed THEN 1 ELSE 0
        /\ phase[m] \in TxPhases => m \notin processed
        /\ phase[m] \in {"ack", "done"} => m \in processed

LEMMA RecordsInit == Init => RecordsKnow
BY DEF Init, RecordsKnow, TxPhases

\* What a step may do to the phase of a message and to its record.
LEMMA RecordSteps ==
    ASSUME TypeOK, NEW m \in Msgs, Unseen(m)
    PROVE  /\ UNCHANGED <<processed, commits>>
           /\ \A o \in Msgs \ {m} : phase'[o] = phase[o]
           /\ \/ phase'[m] \in TxPhases /\ (m \notin processed \/ phase[m] \in TxPhases)
              \/ phase'[m] = "ack" /\ m \in processed
              \/ phase'[m] = "done" /\ phase[m] = "ack" /\ Ack(m)
              \/ phase'[m] = "queued"
           /\ phase[m] # "done"
BY UnseenFrame
   DEF Unseen, Start, AlreadyRecorded, InsertCustomer, ReadDriver, InsertDriver, DeleteDriver, Ack, Abort,
       Move, AfterDriver, AfterFailure, TxPhases, TypeOK

LEMMA CommitRecords ==
    ASSUME TypeOK, NEW m \in Msgs, Commit(m)
    PROVE  /\ processed' = processed \cup {m}
           /\ commits' = [commits EXCEPT ![m] = commits[m] + 1]
           /\ phase[m] = "commit" /\ phase'[m] = "ack"
           /\ \A o \in Msgs \ {m} : phase'[o] = phase[o]
BY DEF Commit, Move, TypeOK

\* Requests, crashes and stutters record nothing and settle nothing.
LEMMA OtherSteps ==
    ASSUME TypeOK, [Next]_vars, \A m \in Msgs : ~Unseen(m) /\ ~Commit(m)
    PROVE  /\ UNCHANGED <<processed, commits>>
           /\ \A m \in Msgs : phase'[m] = phase[m] \/ (phase[m] # "done" /\ phase'[m] = "queued")
<1>1. CASE Crash
  <2>1. UNCHANGED <<processed, commits>>
    BY <1>1 DEF Crash
  <2>2. phase' = [m \in Msgs |-> IF phase[m] = "done" THEN "done" ELSE "queued"]
    BY <1>1 DEF Crash
  <2> QED
    BY <2>1, <2>2
<1>2. CASE ~Crash
  <2>1. UNCHANGED <<phase, processed, commits>>
    BY <1>2, Steps, BeginFrame, RequestFrame DEF vars
  <2> QED
    BY <2>1
<1> QED
  BY <1>1, <1>2

LEMMA RecordsNext == TypeOK /\ RecordsKnow /\ [Next]_vars => RecordsKnow'
<1> SUFFICES ASSUME TypeOK, RecordsKnow, [Next]_vars PROVE RecordsKnow'
  OBVIOUS
<1>1. CASE \E m \in Msgs : Unseen(m)
  BY <1>1, RecordSteps DEF RecordsKnow, TxPhases
<1>2. CASE \E m \in Msgs : Commit(m)
  BY <1>2, CommitRecords DEF RecordsKnow, TxPhases, TypeOK
<1>3. CASE \A m \in Msgs : ~Unseen(m) /\ ~Commit(m)
  BY <1>3, OtherSteps DEF RecordsKnow, TxPhases
<1> QED
  BY <1>1, <1>2, <1>3

\* Only the commit and the ack of a message are steps of the inbox.
LEMMA InboxStep ==
    ASSUME TypeOK, RecordsKnow, [Next]_vars
    PROVE  Inbox!Next \/ UNCHANGED <<commits, InboxOutcome>>
<1>1. ASSUME NEW m \in Msgs, Unseen(m), ~Ack(m)
      PROVE  UNCHANGED <<commits, InboxOutcome>>
  BY <1>1, RecordSteps DEF InboxOutcome, TxPhases
<1>2. ASSUME NEW m \in Msgs, Ack(m)
      PROVE  Inbox!Next
  <2>1. /\ phase[m] = "ack" /\ phase'[m] = "done" /\ UNCHANGED <<processed, commits>>
        /\ \A o \in Msgs \ {m} : phase'[o] = phase[o]
    BY <1>2 DEF Ack, Move, TypeOK
  <2>2. InboxOutcome[m] = "pending" /\ commits[m] = 1
    BY <2>1 DEF InboxOutcome, RecordsKnow
  <2>3. InboxOutcome' = [InboxOutcome EXCEPT ![m] = "acked"] /\ commits' = commits
    BY <2>1 DEF InboxOutcome
  <2>4. Inbox!Acknowledge(m)
    BY <2>2, <2>3 DEF Inbox!Acknowledge, InboxOutcome
  <2> QED
    BY <2>4 DEF Inbox!Next
<1>3. ASSUME NEW m \in Msgs, Commit(m)
      PROVE  Inbox!Next
  <2>1. commits[m] = 0
    BY <1>3, CommitRecords DEF RecordsKnow, TxPhases
  <2>2. commits' = [commits EXCEPT ![m] = 1] /\ InboxOutcome' = InboxOutcome
    BY <1>3, <2>1, CommitRecords DEF InboxOutcome, TypeOK
  <2>3. Inbox!Apply(m)
    BY <2>1, <2>2 DEF Inbox!Apply, InboxOutcome
  <2> QED
    BY <2>3 DEF Inbox!Next
<1>4. CASE \A m \in Msgs : ~Unseen(m) /\ ~Commit(m)
  BY <1>4, OtherSteps DEF InboxOutcome
<1> QED
  BY <1>1, <1>2, <1>3, <1>4

\* However messages are delivered and whatever fails, the effects of each are
\* committed once, redelivered or not, and before its ack: the handlers, query by
\* query, implement the inbox that the consumer implements.
THEOREM HandlersImplementInbox == Spec => HandlersKeepInbox
<1>1. Init => Inbox!Init
  BY DEF Init, Inbox!Init
<1>2. TypeOK /\ RecordsKnow /\ [Next]_vars => [Inbox!Next]_(Inbox!inbox)
  <2>1. UNCHANGED <<commits, InboxOutcome>> => UNCHANGED Inbox!inbox
    BY DEF Inbox!inbox, InboxOutcome
  <2> QED
    BY <2>1, InboxStep
<1>3. Spec => []RecordsKnow
  BY RecordsInit, RecordsNext, TypeCorrect, PTL DEF Spec
<1> QED
  BY <1>1, <1>2, <1>3, TypeCorrect, PTL DEF Spec, HandlersKeepInbox, Inbox!Spec
=============================================================================
