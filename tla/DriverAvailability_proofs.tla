---------------------- MODULE DriverAvailability_proofs ----------------------
(***************************************************************************)
(* Type correctness, well-formed rows and warranted events, proved for any *)
(* set of users, requests, messages, vehicles and plates, with or without  *)
(* overlapping operations, and under every fault.  For serial users: every *)
(* change of availability owes an event; and, in a process that does not   *)
(* crash or lose its channel (Reliable), table and subscribers agree and   *)
(* the ledger is implemented.                                              *)
(***************************************************************************)
EXTENDS DriverAvailability, TLAPS

\* createIncomplete makes a well-formed entity (domain/driver/driver-profile.ts).
LEMMA CreateIncompleteOK ==
    CreateIncomplete \in DriverProfiles /\ WellFormed(CreateIncomplete)
BY DEF CreateIncomplete, DriverProfiles, WellFormed, HasBothAttributes

\* updateAttributes makes a well-formed entity of any entity.
LEMMA UpdateAttributesOK ==
    ASSUME NEW p \in DriverProfiles,
           NEW v \in Vehicles \cup {None}, NEW l \in Plates \cup {None}
    PROVE  UpdateAttributes(p, v, l) \in DriverProfiles /\ WellFormed(UpdateAttributes(p, v, l))
BY DEF DriverProfiles, UpdateAttributes, Given, WellFormed, HasBothAttributes

\* setAvailable keeps a well-formed entity well-formed when it does not throw.
LEMMA SetAvailableOK ==
    ASSUME NEW p \in DriverProfiles, NEW value \in BOOLEAN, MaySetAvailable(p, value)
    PROVE  /\ SetAvailable(p, value) \in DriverProfiles
           /\ WellFormed(p) => WellFormed(SetAvailable(p, value))
BY DEF DriverProfiles, MaySetAvailable, SetAvailable, WellFormed, HasBothAttributes

\* The states a request can move to are requests.
LEMMA RequestShapes ==
    /\ Idle \in Requests
    /\ \A u \in Users, s \in Statuses : [phase |-> "done", user |-> u, status |-> s] \in Requests
    /\ \A u \in Users, k \in {"toggle", "patch"}, p \in DriverProfiles :
           [phase |-> "save", kind |-> k, user |-> u, entity |-> p] \in Requests
BY DEF Requests, Idle

\* A request between its read and its answer holds a user and an entity.
LEMMA InFlightShape ==
    ASSUME NEW q \in Requests, q.phase \in {"save", "publish"}
    PROVE  q \in [phase : {"save", "publish"}, kind : {"toggle", "patch"},
                  user : Users, entity : DriverProfiles]
BY DEF Requests, Idle

-----------------------------------------------------------------------------
(* Type correctness *)

LEMMA InitTypeOK == Init => TypeOK
<1> SUFFICES ASSUME Init PROVE TypeOK
  OBVIOUS
<1>1. driver \in [Users -> Rows]
  BY DEF Init, Rows
<1>2. request \in [Reqs -> Requests]
  BY RequestShapes DEF Init
<1>3. message \in [Msgs -> Messages]
  BY DEF Init
<1>4. announced \in [Users -> BOOLEAN]
  <2>1. \A u \in Users : Available(driver[u]) \in BOOLEAN
    BY <1>1, NoRowIsNoProfile DEF Available, Rows, DriverProfiles
  <2> QED
    BY <2>1 DEF Init
<1>5. sends \in [Ops -> Nat]
  BY DEF Init
<1> QED
  BY <1>1, <1>2, <1>3, <1>4, <1>5 DEF Init, TypeOK

\* One lemma per kind of step; the four conjuncts a step can touch.
LEMMA RequestTypeOK ==
    ASSUME TypeOK, NEW r \in Reqs, RequestStep(r)
    PROVE  TypeOK'
<1>1. ASSUME NEW u \in Users, NEW value \in BOOLEAN, ReadForToggle(r, u, value)
      PROVE  TypeOK'
  <2>1. UNCHANGED <<driver, message, processed, channelOpen, announced, sends, committed>>
    BY <1>1 DEF ReadForToggle, Begins
  <2>2. request' \in [Reqs -> Requests]
    <3>1. CASE \E s \in Statuses : Respond(r, u, s)
      BY <3>1, RequestShapes DEF Respond, TypeOK
    <3>2. CASE /\ driver[u] # NoRow
               /\ MaySetAvailable(driver[u], value)
               /\ Hold(r, u, "toggle", SetAvailable(driver[u], value))
      <4>1. SetAvailable(driver[u], value) \in DriverProfiles
        BY <3>2, SetAvailableOK DEF TypeOK, Rows
      <4> QED
        BY <3>2, <4>1, RequestShapes DEF Hold, TypeOK
    <3> QED
      BY <1>1, <3>1, <3>2 DEF ReadForToggle, Statuses
  <2> QED
    BY <2>1, <2>2 DEF TypeOK
<1>2. ASSUME NEW u \in Users, NEW v \in Vehicles \cup {None}, NEW l \in Plates \cup {None},
             ReadForPatch(r, u, v, l)
      PROVE  TypeOK'
  <2>1. UNCHANGED <<driver, message, processed, channelOpen, announced, sends, committed>>
    BY <1>2 DEF ReadForPatch, Begins
  <2>2. request' \in [Reqs -> Requests]
    <3>1. CASE Respond(r, u, "not_found")
      BY <3>1, RequestShapes DEF Respond, TypeOK, Statuses
    <3>2. CASE driver[u] # NoRow /\ Hold(r, u, "patch", UpdateAttributes(driver[u], v, l))
      <4>1. UpdateAttributes(driver[u], v, l) \in DriverProfiles
        BY <3>2, UpdateAttributesOK DEF TypeOK, Rows
      <4> QED
        BY <3>2, <4>1, RequestShapes DEF Hold, TypeOK
    <3> QED
      BY <1>2, <3>1, <3>2 DEF ReadForPatch
  <2> QED
    BY <2>1, <2>2 DEF TypeOK
<1>3. CASE SaveRow(r)
  <2> DEFINE q == request[r]
  <2>1. q \in [phase : {"save", "publish"}, kind : {"toggle", "patch"}, user : Users, entity : DriverProfiles]
    BY <1>3, InFlightShape DEF SaveRow, TypeOK
  <2>2. driver' \in [Users -> Rows]
    BY <1>3, <2>1 DEF SaveRow, Saved, TypeOK, Rows
  <2>3. request' \in [Reqs -> Requests]
    <3>1. CASE \E s \in Statuses : Respond(r, q.user, s)
      BY <2>1, <3>1, RequestShapes DEF Respond, TypeOK
    <3>2. CASE request' = [request EXCEPT ![r].phase = "publish"]
      <4>1. [q EXCEPT !.phase = "publish"] \in Requests
        BY <2>1 DEF Requests
      <4> QED
        BY <3>2, <4>1 DEF TypeOK
    <3> QED
      BY <1>3, <3>1, <3>2 DEF SaveRow, Statuses
  <2> QED
    BY <1>3, <2>2, <2>3 DEF SaveRow, TypeOK, Ops
<1>4. CASE PublishToggle(r)
  <2> DEFINE q == request[r]
  <2>1. q \in [phase : {"save", "publish"}, kind : {"toggle", "patch"}, user : Users, entity : DriverProfiles]
    BY <1>4, InFlightShape DEF PublishToggle, TypeOK
  <2>2. request' \in [Reqs -> Requests]
    BY <1>4, <2>1, RequestShapes DEF PublishToggle, PublishFailure, Respond, TypeOK, Statuses
  <2>3. announced' \in [Users -> BOOLEAN] /\ sends' \in [Ops -> Nat]
    BY <1>4, <2>1 DEF PublishToggle, Announce, TypeOK, DriverProfiles, Ops
  <2> QED
    BY <1>4, <2>2, <2>3 DEF PublishToggle, TypeOK
<1> QED
  BY <1>1, <1>2, <1>3, <1>4 DEF RequestStep

LEMMA MessageTypeOK ==
    ASSUME TypeOK, NEW m \in Msgs, MessageStep(m)
    PROVE  TypeOK'
<1> USE DEF TypeOK, Messages
<1>1. CASE StartRoleChange(m)
  BY <1>1 DEF StartRoleChange, MoveMessage
<1>2. CASE CommitRoleChange(m)
  <2>1. message' \in [Msgs -> Messages]
    BY <1>2 DEF CommitRoleChange, MoveMessage
  <2>2. driver' \in [Users -> Rows]
    BY <1>2, CreateIncompleteOK DEF CommitRoleChange, Rows
  <2>3. committed' \subseteq Ops /\ processed' \subseteq Msgs
    BY <1>2 DEF CommitRoleChange, Ops
  <2> QED
    BY <1>2, <2>1, <2>2, <2>3 DEF CommitRoleChange
<1>3. CASE AbortRoleChange(m)
  BY <1>3 DEF AbortRoleChange, Rows
<1>4. CASE PublishRoleChange(m)
  BY <1>4 DEF PublishRoleChange, MoveMessage, Announce, Ops
<1>5. CASE AckRoleChange(m)
  BY <1>5 DEF AckRoleChange, MoveMessage
<1> QED
  BY <1>1, <1>2, <1>3, <1>4, <1>5 DEF MessageStep

LEMMA RestartTypeOK ==
    ASSUME TypeOK, Restart
    PROVE  TypeOK'
<1>1. request' \in [Reqs -> Requests]
  <2> SUFFICES ASSUME NEW r \in Reqs
               PROVE  (IF InFlight(r) THEN [phase |-> "done", user |-> request[r].user, status |-> "lost"]
                                      ELSE request[r]) \in Requests
    BY DEF Restart
  <2>1. CASE InFlight(r)
    <3>1. request[r].user \in Users
      BY <2>1, InFlightShape DEF InFlight, TypeOK
    <3> QED
      BY <2>1, <3>1, RequestShapes DEF Statuses
  <2>2. CASE ~InFlight(r)
    BY <2>2 DEF TypeOK
  <2> QED
    BY <2>1, <2>2
<1>2. message' \in [Msgs -> Messages]
  BY DEF Restart, TypeOK, Messages, Rows
<1> QED
  BY <1>1, <1>2 DEF Restart, TypeOK

LEMMA NextTypeOK == TypeOK /\ [Next]_vars => TypeOK'
<1> SUFFICES ASSUME TypeOK, [Next]_vars PROVE TypeOK'
  OBVIOUS
<1>1. CASE \E r \in Reqs : RequestStep(r)
  BY <1>1, RequestTypeOK
<1>2. CASE \E m \in Msgs : MessageStep(m)
  BY <1>2, MessageTypeOK
<1>3. CASE CloseChannel
  BY <1>3 DEF CloseChannel, TypeOK
<1>4. CASE Restart
  BY <1>4, RestartTypeOK
<1>5. CASE UNCHANGED vars
  BY <1>5 DEF vars, TypeOK
<1> QED
  BY <1>1, <1>2, <1>3, <1>4, <1>5 DEF Next, AtRest

\* The variables keep their types in every behaviour.
THEOREM TypeCorrect == Spec => []TypeOK
BY InitTypeOK, NextTypeOK, PTL DEF Spec

-----------------------------------------------------------------------------
(* Well-formed rows.  RowsWellFormed is not inductive: a save writes what a *)
(* request read and changed some steps ago, so the entities the requests   *)
(* hold have to be well-formed too.                                        *)

EntitiesWellFormed == \A r \in Reqs : InFlight(r) => WellFormed(request[r].entity)

RowInv == TypeOK /\ RowsWellFormed /\ EntitiesWellFormed

LEMMA InitRowInv == Init => RowInv
<1> SUFFICES ASSUME Init PROVE RowInv
  OBVIOUS
<1>1. TypeOK
  BY InitTypeOK
<1>2. RowsWellFormed
  BY DEF Init, RowsWellFormed
<1>3. EntitiesWellFormed
  BY DEF Init, EntitiesWellFormed, InFlight, Idle
<1> QED
  BY <1>1, <1>2, <1>3 DEF RowInv

LEMMA RequestRowInv ==
    ASSUME RowInv, NEW r \in Reqs, RequestStep(r)
    PROVE  RowsWellFormed' /\ EntitiesWellFormed'
<1> USE DEF RowInv
\* Answering a request, or sending it on to publish, gives it no new entity.
<1>a. ASSUME NEW u, NEW s, Respond(r, u, s)
      PROVE  EntitiesWellFormed'
  BY <1>a DEF Respond, EntitiesWellFormed, InFlight, TypeOK
<1>b. ASSUME NEW u, NEW k, NEW p, WellFormed(p), Hold(r, u, k, p)
      PROVE  EntitiesWellFormed'
  BY <1>b DEF Hold, EntitiesWellFormed, InFlight, TypeOK
<1>1. ASSUME NEW u \in Users, NEW value \in BOOLEAN, ReadForToggle(r, u, value)
      PROVE  RowsWellFormed' /\ EntitiesWellFormed'
  <2>1. RowsWellFormed'
    BY <1>1 DEF ReadForToggle, Begins, RowsWellFormed
  <2>2. CASE \E s \in Statuses : Respond(r, u, s)
    BY <2>1, <2>2, <1>a
  <2>3. CASE /\ driver[u] # NoRow
             /\ MaySetAvailable(driver[u], value)
             /\ Hold(r, u, "toggle", SetAvailable(driver[u], value))
    <3>1. WellFormed(SetAvailable(driver[u], value))
      BY <2>3, SetAvailableOK DEF TypeOK, Rows, RowsWellFormed
    <3> QED
      BY <2>1, <2>3, <3>1, <1>b
  <2> QED
    BY <1>1, <2>2, <2>3 DEF ReadForToggle, Statuses
<1>2. ASSUME NEW u \in Users, NEW v \in Vehicles \cup {None}, NEW l \in Plates \cup {None},
             ReadForPatch(r, u, v, l)
      PROVE  RowsWellFormed' /\ EntitiesWellFormed'
  <2>1. RowsWellFormed'
    BY <1>2 DEF ReadForPatch, Begins, RowsWellFormed
  <2>2. CASE Respond(r, u, "not_found")
    BY <2>1, <2>2, <1>a
  <2>3. CASE driver[u] # NoRow /\ Hold(r, u, "patch", UpdateAttributes(driver[u], v, l))
    <3>1. WellFormed(UpdateAttributes(driver[u], v, l))
      BY <2>3, UpdateAttributesOK DEF TypeOK, Rows
    <3> QED
      BY <2>1, <2>3, <3>1, <1>b
  <2> QED
    BY <1>2, <2>2, <2>3 DEF ReadForPatch
<1>3. CASE SaveRow(r)
  <2> DEFINE q == request[r]
  <2>1. WellFormed(q.entity) /\ q.user \in Users
    BY <1>3, InFlightShape DEF SaveRow, EntitiesWellFormed, InFlight, TypeOK
  <2>2. RowsWellFormed'
    BY <1>3, <2>1 DEF SaveRow, Saved, RowsWellFormed, TypeOK
  <2>3. EntitiesWellFormed'
    <3>1. CASE \E s : Respond(r, q.user, s)
      BY <3>1, <1>a
    <3>2. CASE request' = [request EXCEPT ![r].phase = "publish"]
      <4>1. /\ \A x \in Reqs \ {r} : request'[x] = request[x]
            /\ request'[r] = [q EXCEPT !.phase = "publish"]
        BY <3>2 DEF TypeOK
      <4>2. request'[r].entity = q.entity
        <5>1. q \in [phase : {"save", "publish"}, kind : {"toggle", "patch"},
                     user : Users, entity : DriverProfiles]
          BY <1>3, InFlightShape DEF SaveRow, TypeOK
        <5> QED
          BY <4>1, <5>1
      <4> QED
        BY <4>1, <4>2, <2>1 DEF EntitiesWellFormed, InFlight
    <3> QED
      BY <1>3, <3>1, <3>2 DEF SaveRow
  <2> QED
    BY <2>2, <2>3
<1>4. CASE PublishToggle(r)
  <2>1. RowsWellFormed'
    BY <1>4 DEF PublishToggle, RowsWellFormed
  <2>2. EntitiesWellFormed'
    BY <1>4, <1>a DEF PublishToggle
  <2> QED
    BY <2>1, <2>2
<1> QED
  BY <1>1, <1>2, <1>3, <1>4 DEF RequestStep

LEMMA MessageRowInv ==
    ASSUME RowInv, NEW m \in Msgs, MessageStep(m)
    PROVE  RowsWellFormed' /\ EntitiesWellFormed'
<1>1. UNCHANGED request
  BY DEF MessageStep, StartRoleChange, CommitRoleChange, AbortRoleChange,
         PublishRoleChange, AckRoleChange
<1>2. EntitiesWellFormed'
  BY <1>1 DEF RowInv, EntitiesWellFormed, InFlight
<1>3. CASE CommitRoleChange(m)
  BY <1>2, <1>3, CreateIncompleteOK DEF CommitRoleChange, RowInv, RowsWellFormed, TypeOK
<1>4. CASE UNCHANGED driver
  BY <1>2, <1>4 DEF RowInv, RowsWellFormed
<1> QED
  BY <1>3, <1>4 DEF MessageStep, StartRoleChange, AbortRoleChange,
                    PublishRoleChange, AckRoleChange

LEMMA NextRowInv == RowInv /\ [Next]_vars => RowInv'
<1> SUFFICES ASSUME RowInv, [Next]_vars PROVE RowInv'
  OBVIOUS
<1>0. TypeOK'
  BY NextTypeOK DEF RowInv
<1>1. CASE \E r \in Reqs : RequestStep(r)
  BY <1>0, <1>1, RequestRowInv DEF RowInv
<1>2. CASE \E m \in Msgs : MessageStep(m)
  BY <1>0, <1>2, MessageRowInv DEF RowInv
<1>3. CASE CloseChannel \/ UNCHANGED vars
  BY <1>0, <1>3 DEF CloseChannel, vars, RowInv, RowsWellFormed, EntitiesWellFormed, InFlight
<1>4. CASE Restart
  <2>1. RowsWellFormed'
    BY <1>4 DEF Restart, RowInv, RowsWellFormed
  <2>2. EntitiesWellFormed'
    BY <1>4 DEF Restart, RowInv, EntitiesWellFormed, InFlight
  <2> QED
    BY <1>0, <2>1, <2>2 DEF RowInv
<1> QED
  BY <1>1, <1>2, <1>3, <1>4 DEF Next, AtRest

\* No interleaving, crash or redelivery leaves an invalid row in the table.
THEOREM RowsStayWellFormed == Spec => []RowsWellFormed
<1>1. RowInv => RowsWellFormed
  BY DEF RowInv
<1> QED
  BY <1>1, InitRowInv, NextRowInv, PTL DEF Spec

-----------------------------------------------------------------------------
(* Warranted events.  An operation passes at most once through "publish":  *)
(* a request because it moves forward only, a message because its commit   *)
(* also records it in processed_events, so that a redelivery skips the     *)
(* transaction.  The invariant ties both to the history variables.         *)

RequestEvents ==
    \A r \in Reqs :
        /\ request[r].phase \in {"idle", "save"} => r \notin committed
        /\ request[r].phase = "publish" => r \in committed /\ sends[r] = 0

MessageEvents ==
    \A m \in Msgs :
        /\ m \in committed => m \in processed
        /\ message[m].phase = "tx" => m \notin processed
        /\ message[m].phase = "publish" => m \in committed /\ sends[m] = 0

EventInv == RequestEvents /\ MessageEvents /\ EventsWarranted /\ OkMeansAnnounced

LEMMA InitEventInv == Init => EventInv
BY DEF Init, EventInv, RequestEvents, MessageEvents, EventsWarranted, OkMeansAnnounced, Idle, Messages

\* A step that changes one request, and neither history variable.
LEMMA QuietRequestStep ==
    ASSUME EventInv, NEW r \in Reqs,
           \A x \in Reqs \ {r} : request'[x] = request[x],
           UNCHANGED <<message, processed, sends, committed>>,
           \/ request'[r].phase = "save" /\ r \notin committed
           \/ request'[r].phase = "done" /\ (r \notin committed \/ request'[r].status # "ok")
    PROVE  EventInv'
<1>1. RequestEvents'
  BY DEF EventInv, RequestEvents
<1>2. MessageEvents'
  BY DEF EventInv, MessageEvents
<1>3. EventsWarranted'
  BY DEF EventInv, EventsWarranted
<1>4. OkMeansAnnounced'
  BY DEF EventInv, OkMeansAnnounced
<1> QED
  BY <1>1, <1>2, <1>3, <1>4 DEF EventInv

LEMMA RequestEventInv ==
    ASSUME TypeOK, EventInv, NEW r \in Reqs, RequestStep(r)
    PROVE  EventInv'
<1>1. ASSUME NEW u, request[r] = Idle, UNCHANGED <<message, processed, sends, committed>>,
             \/ \E s \in Statuses : Respond(r, u, s)
             \/ \E k, p : Hold(r, u, k, p)
      PROVE  EventInv'
  <2>1. r \notin committed
    BY <1>1 DEF EventInv, RequestEvents, Idle
  <2>2. CASE \E s \in Statuses : Respond(r, u, s)
    <3>1. PICK s \in Statuses : Respond(r, u, s)
      BY <2>2
    <3> QED
      BY <1>1, <2>1, <3>1, QuietRequestStep DEF Respond, TypeOK
  <2>3. CASE \E k, p : Hold(r, u, k, p)
    <3>1. PICK k, p : Hold(r, u, k, p)
      BY <2>3
    <3> QED
      BY <1>1, <2>1, <3>1, QuietRequestStep DEF Hold, TypeOK
  <2> QED
    BY <1>1, <2>2, <2>3
<1>2. ASSUME NEW u \in Users, NEW value \in BOOLEAN, ReadForToggle(r, u, value)
      PROVE  EventInv'
  BY <1>1, <1>2 DEF ReadForToggle, Begins, Statuses
<1>3. ASSUME NEW u \in Users, NEW v \in Vehicles \cup {None}, NEW l \in Plates \cup {None},
             ReadForPatch(r, u, v, l)
      PROVE  EventInv'
  BY <1>1, <1>3 DEF ReadForPatch, Begins, Statuses
<1>4. CASE SaveRow(r)
  <2> DEFINE u == request[r].user
  <2>0. r \notin committed
    BY <1>4 DEF SaveRow, EventInv, RequestEvents
  <2>1. CASE UNCHANGED committed /\ \E s \in {"ok", "internal"} : Respond(r, u, s)
    BY <1>4, <2>0, <2>1, QuietRequestStep DEF SaveRow, Respond, TypeOK
  <2>2. CASE /\ request' = [request EXCEPT ![r].phase = "publish"]
             /\ committed' = committed \cup {r}
    <3>1. /\ request'[r].phase = "publish"
          /\ \A x \in Reqs \ {r} : request'[x] = request[x]
      <4>1. request[r] \in [phase : {"save", "publish"}, kind : {"toggle", "patch"},
                            user : Users, entity : DriverProfiles]
        BY <1>4, InFlightShape DEF SaveRow, TypeOK
      <4> QED
        BY <2>2, <4>1 DEF TypeOK
    <3>2. sends[r] = 0
      BY <2>0 DEF EventInv, EventsWarranted, TypeOK, Ops
    <3>3. UNCHANGED <<message, processed, sends>>
      BY <1>4 DEF SaveRow
    <3>4. RequestEvents'
      BY <2>2, <3>1, <3>2, <3>3 DEF EventInv, RequestEvents
    <3>5. MessageEvents'
      BY <2>2, <3>3, ReqsAreNotMsgs DEF EventInv, MessageEvents
    <3>6. EventsWarranted'
      BY <2>2, <3>2, <3>3 DEF EventInv, EventsWarranted
    <3>7. OkMeansAnnounced'
      BY <2>2, <3>1, <3>3 DEF EventInv, OkMeansAnnounced
    <3> QED
      BY <3>4, <3>5, <3>6, <3>7 DEF EventInv
  <2> QED
    BY <1>4, <2>1, <2>2 DEF SaveRow
<1>5. CASE PublishToggle(r)
  <2> DEFINE u == request[r].user
  <2>0. r \in committed /\ sends[r] = 0
    BY <1>5 DEF PublishToggle, EventInv, RequestEvents
  <2>1. CASE Respond(r, u, "internal") /\ UNCHANGED sends
    BY <1>5, <2>1, QuietRequestStep DEF PublishToggle, PublishFailure, Respond, TypeOK
  <2>2. CASE Respond(r, u, "ok") /\ sends' = [sends EXCEPT ![r] = @ + 1]
    <3>1. /\ request'[r].phase = "done"
          /\ \A x \in Reqs \ {r} : request'[x] = request[x]
      BY <2>2 DEF Respond, TypeOK
    <3>2. sends'[r] = 1 /\ \A x \in Ops \ {r} : sends'[x] = sends[x]
      BY <2>0, <2>2 DEF TypeOK, Ops
    <3>3. UNCHANGED <<message, processed, committed>>
      BY <1>5 DEF PublishToggle
    <3>4. RequestEvents'
      BY <3>1, <3>2, <3>3 DEF EventInv, RequestEvents, Ops
    <3>5. MessageEvents'
      BY <3>2, <3>3, ReqsAreNotMsgs DEF EventInv, MessageEvents, Ops
    <3>6. EventsWarranted'
      BY <2>0, <3>2, <3>3 DEF EventInv, EventsWarranted
    <3>7. OkMeansAnnounced'
      BY <3>1, <3>2, <3>3 DEF EventInv, OkMeansAnnounced, Ops
    <3> QED
      BY <3>4, <3>5, <3>6, <3>7 DEF EventInv
  <2> QED
    BY <1>5, <2>1, <2>2 DEF PublishToggle, PublishFailure, Announce
<1> QED
  BY <1>2, <1>3, <1>4, <1>5 DEF RequestStep

LEMMA MessageEventInv ==
    ASSUME TypeOK, EventInv, NEW m \in Msgs, MessageStep(m)
    PROVE  EventInv'
<1>1. UNCHANGED request
  BY DEF MessageStep, StartRoleChange, CommitRoleChange, AbortRoleChange,
         PublishRoleChange, AckRoleChange
<1>2. \A x \in Msgs \ {m} : message'[x] = message[x]
  BY DEF MessageStep, StartRoleChange, CommitRoleChange, AbortRoleChange,
         PublishRoleChange, AckRoleChange, MoveMessage, TypeOK
<1>3. CASE /\ message'[m].phase \in {"queued", "tx", "ack", "done"}
           /\ message'[m].phase = "tx" => m \notin processed
           /\ UNCHANGED <<processed, sends, committed>>
  BY <1>1, <1>2, <1>3
     DEF EventInv, RequestEvents, MessageEvents, EventsWarranted, OkMeansAnnounced
<1>4. CASE CommitRoleChange(m)
  <2>0. m \notin processed /\ m \notin committed /\ sends[m] = 0
    BY <1>4 DEF CommitRoleChange, EventInv, MessageEvents, EventsWarranted, TypeOK, Ops
  <2>1. \/ message'[m].phase = "ack" /\ committed' = committed
        \/ message'[m].phase = "publish" /\ committed' = committed \cup {m}
    BY <1>4 DEF CommitRoleChange, MoveMessage, TypeOK, Messages
  <2>2. processed' = processed \cup {m} /\ UNCHANGED sends
    BY <1>4 DEF CommitRoleChange
  <2>3. RequestEvents'
    BY <1>1, <2>1, <2>2, ReqsAreNotMsgs DEF EventInv, RequestEvents
  <2>4. MessageEvents'
    BY <1>2, <2>0, <2>1, <2>2 DEF EventInv, MessageEvents
  <2>5. EventsWarranted'
    BY <2>0, <2>1, <2>2 DEF EventInv, EventsWarranted
  <2>6. OkMeansAnnounced'
    BY <1>1, <2>1, <2>2, ReqsAreNotMsgs DEF EventInv, OkMeansAnnounced
  <2> QED
    BY <2>3, <2>4, <2>5, <2>6 DEF EventInv
<1>5. CASE PublishRoleChange(m)
  <2>0. m \in committed /\ sends[m] = 0
    BY <1>5 DEF PublishRoleChange, EventInv, MessageEvents
  <2>1. message'[m].phase = "ack"
    BY <1>5 DEF PublishRoleChange, MoveMessage, TypeOK, Messages
  <2>2. sends'[m] = 1 /\ \A x \in Ops \ {m} : sends'[x] = sends[x]
    BY <1>5, <2>0 DEF PublishRoleChange, Announce, TypeOK, Ops
  <2>3. UNCHANGED <<processed, committed>>
    BY <1>5 DEF PublishRoleChange
  <2>4. RequestEvents'
    BY <1>1, <2>2, <2>3, ReqsAreNotMsgs DEF EventInv, RequestEvents, Ops
  <2>5. MessageEvents'
    BY <1>2, <2>1, <2>2, <2>3 DEF EventInv, MessageEvents, Ops
  <2>6. EventsWarranted'
    BY <2>0, <2>2, <2>3 DEF EventInv, EventsWarranted
  <2>7. OkMeansAnnounced'
    BY <1>1, <2>2, <2>3, ReqsAreNotMsgs DEF EventInv, OkMeansAnnounced, Ops
  <2> QED
    BY <2>4, <2>5, <2>6, <2>7 DEF EventInv
<1>6. CASE StartRoleChange(m)
  BY <1>3, <1>6 DEF StartRoleChange, AlreadyRecorded, MoveMessage, TypeOK, Messages
<1>7. CASE AbortRoleChange(m)
  BY <1>3, <1>7 DEF AbortRoleChange, TypeOK, Messages
<1>8. CASE AckRoleChange(m)
  BY <1>3, <1>8 DEF AckRoleChange, MoveMessage, TypeOK, Messages
<1> QED
  BY <1>4, <1>5, <1>6, <1>7, <1>8 DEF MessageStep

LEMMA NextEventInv == TypeOK /\ EventInv /\ [Next]_vars => EventInv'
<1> SUFFICES ASSUME TypeOK, EventInv, [Next]_vars PROVE EventInv'
  OBVIOUS
<1>1. CASE \E r \in Reqs : RequestStep(r)
  BY <1>1, RequestEventInv
<1>2. CASE \E m \in Msgs : MessageStep(m)
  BY <1>2, MessageEventInv
<1>3. CASE CloseChannel \/ UNCHANGED vars
  BY <1>3 DEF CloseChannel, vars, EventInv, RequestEvents, MessageEvents,
              EventsWarranted, OkMeansAnnounced
<1>4. CASE Restart
  <2>1. UNCHANGED <<processed, sends, committed>>
    BY <1>4 DEF Restart
  <2>2. \A r \in Reqs : \/ request'[r] = request[r] /\ request[r].phase \notin {"save", "publish"}
                        \/ request'[r].phase = "done" /\ request'[r].status = "lost"
    BY <1>4 DEF Restart, InFlight
  <2>3. \A m \in Msgs : message'[m].phase \in {"queued", "done"}
    BY <1>4 DEF Restart, Handling, TypeOK, Messages
  <2>4. RequestEvents'
    BY <2>1, <2>2 DEF EventInv, RequestEvents
  <2>5. MessageEvents'
    BY <2>1, <2>3 DEF EventInv, MessageEvents
  <2>6. EventsWarranted'
    BY <2>1 DEF EventInv, EventsWarranted
  <2>7. OkMeansAnnounced'
    BY <2>1, <2>2 DEF EventInv, OkMeansAnnounced
  <2> QED
    BY <2>4, <2>5, <2>6, <2>7 DEF EventInv
<1> QED
  BY <1>1, <1>2, <1>3, <1>4 DEF Next, AtRest

\* At most one event per operation, after its commit, whatever is redelivered.
THEOREM EventsStayWarranted == Spec => []EventsWarranted
<1>1. EventInv => EventsWarranted
  BY DEF EventInv
<1> QED
  BY <1>1, InitTypeOK, NextTypeOK, InitEventInv, NextEventInv, PTL DEF Spec

\* A toggle answered 200 after changing the row has published its event.
THEOREM OkAlwaysMeansAnnounced == Spec => []OkMeansAnnounced
<1>1. EventInv => OkMeansAnnounced
  BY DEF EventInv
<1> QED
  BY <1>1, InitTypeOK, NextTypeOK, InitEventInv, NextEventInv, PTL DEF Spec

-----------------------------------------------------------------------------
(* A process that never crashes and keeps its channel loses no event: every *)
(* step that leaves "publish" has published.                                *)

Reliable == Faults \cap {"close", "crash"} = {}

OwedIsPending ==
    /\ channelOpen
    /\ \A r \in Reqs : r \in committed => sends[r] = 1 \/ request[r].phase = "publish"
    /\ \A m \in Msgs : m \in committed => sends[m] = 1 \/ message[m].phase = "publish"

LEMMA InitOwed == Init => OwedIsPending
BY DEF Init, OwedIsPending

LEMMA NextOwed ==
    ASSUME Reliable, TypeOK, EventInv, OwedIsPending, [Next]_vars
    PROVE  OwedIsPending'
<1>1. ASSUME NEW r \in Reqs, RequestStep(r) PROVE OwedIsPending'
  <2>1. CASE \E u \in Users, value \in BOOLEAN : ReadForToggle(r, u, value)
    BY <2>1 DEF ReadForToggle, Begins, Respond, Hold, OwedIsPending, EventInv, RequestEvents, TypeOK, Idle
  <2>2. CASE \E u \in Users, v \in Vehicles \cup {None}, l \in Plates \cup {None} : ReadForPatch(r, u, v, l)
    BY <2>2 DEF ReadForPatch, Begins, Respond, Hold, OwedIsPending, EventInv, RequestEvents, TypeOK, Idle
  <2>3. CASE SaveRow(r)
    <3>1. \A x \in Reqs \ {r} : request'[x] = request[x]
      BY <2>3 DEF SaveRow, Respond, TypeOK
    <3>2. UNCHANGED <<message, channelOpen, sends>> /\ r \notin committed
      BY <2>3 DEF SaveRow, EventInv, RequestEvents
    <3>3. \/ committed' = committed
          \/ committed' = committed \cup {r} /\ request' = [request EXCEPT ![r].phase = "publish"]
      BY <2>3 DEF SaveRow
    <3>4. request[r] \in Requests /\ request[r].phase = "save"
      BY <2>3 DEF SaveRow, TypeOK
    <3>5. committed' = committed \cup {r} => r \in committed \/ request'[r].phase = "publish" \/ committed' = committed
      BY <3>3, <3>4, InFlightShape DEF TypeOK
    <3> QED
      BY <3>1, <3>2, <3>3, <3>5, ReqsAreNotMsgs DEF OwedIsPending
  <2>4. CASE PublishToggle(r)
    <3>1. /\ \A x \in Reqs \ {r} : request'[x] = request[x]
          /\ sends' = [sends EXCEPT ![r] = @ + 1]
          /\ UNCHANGED <<message, channelOpen, committed>>
      BY <2>4 DEF PublishToggle, Announce, Respond, TypeOK, OwedIsPending
    <3>2. sends[r] = 0
      BY <2>4 DEF PublishToggle, EventInv, RequestEvents
    <3> QED
      BY <3>1, <3>2, ReqsAreNotMsgs DEF OwedIsPending, TypeOK, Ops
  <2> QED
    BY <1>1, <2>1, <2>2, <2>3, <2>4 DEF RequestStep
<1>2. ASSUME NEW m \in Msgs, MessageStep(m) PROVE OwedIsPending'
  <2>0. message[m] \in Messages /\ UNCHANGED <<request, channelOpen>>
    BY <1>2 DEF MessageStep, StartRoleChange, CommitRoleChange, AbortRoleChange, PublishRoleChange,
                AckRoleChange, TypeOK
  <2>1. CASE StartRoleChange(m) \/ AbortRoleChange(m) \/ AckRoleChange(m)
    BY <2>0, <2>1 DEF StartRoleChange, AbortRoleChange, AckRoleChange, TxFails, MoveMessage,
                      OwedIsPending, TypeOK
  <2>2. CASE CommitRoleChange(m)
    <3>1. /\ \A x \in Msgs \ {m} : message'[x] = message[x]
          /\ UNCHANGED sends
          /\ m \notin committed
      BY <2>2 DEF CommitRoleChange, MoveMessage, TypeOK, EventInv, MessageEvents
    <3>2. \/ committed' = committed
          \/ committed' = committed \cup {m} /\ MoveMessage(m, "publish")
      BY <2>2 DEF CommitRoleChange
    <3>3. MoveMessage(m, "publish") => message'[m].phase = "publish"
      BY <2>0 DEF MoveMessage, TypeOK, Messages
    <3> QED
      BY <2>0, <3>1, <3>2, <3>3, ReqsAreNotMsgs DEF OwedIsPending
  <2>3. CASE PublishRoleChange(m)
    <3>1. /\ \A x \in Msgs \ {m} : message'[x] = message[x]
          /\ sends' = [sends EXCEPT ![m] = @ + 1]
          /\ UNCHANGED committed
      BY <2>3 DEF PublishRoleChange, Announce, MoveMessage, TypeOK
    <3>2. sends[m] = 0
      BY <2>3 DEF PublishRoleChange, EventInv, MessageEvents
    <3> QED
      BY <2>0, <3>1, <3>2, ReqsAreNotMsgs DEF OwedIsPending, TypeOK, Ops
  <2> QED
    BY <1>2, <2>1, <2>2, <2>3 DEF MessageStep
<1>3. ~CloseChannel /\ ~Restart
  BY DEF Reliable, CloseChannel, Restart, HandlerRejects, OwedIsPending
<1>4. CASE UNCHANGED vars
  BY <1>4 DEF vars, OwedIsPending
<1> QED
  BY <1>1, <1>2, <1>3, <1>4 DEF Next, AtRest

\* Without crashes and a closed channel every toggle and every demotion of an
\* available driver has published once nothing is in flight, whatever races.
THEOREM ReliableProcessAnnounces == ASSUME Reliable PROVE Spec => []EveryChangeAnnounced
<1>1. OwedIsPending /\ TypeOK => EveryChangeAnnounced
  BY DEF OwedIsPending, TypeOK, EveryChangeAnnounced, Quiescent, InFlight, Handling, Ops
<1>2. Reliable /\ TypeOK /\ EventInv /\ OwedIsPending /\ [Next]_vars => OwedIsPending'
  BY NextOwed
<1>3. TypeOK /\ EventInv /\ OwedIsPending /\ [Next]_vars => OwedIsPending'
  BY <1>2
<1> QED
  BY <1>1, <1>3, InitTypeOK, NextTypeOK, InitEventInv, NextEventInv, InitOwed, PTL DEF Spec

-----------------------------------------------------------------------------
(* Serial users.  The operations on them come one at a time, so what an      *)
(* operation has read is still in the table when it writes, publishes or     *)
(* commits, whatever happens to the other users.                             *)

Active(o) == IF o \in Reqs THEN InFlight(o) ELSE Handling(o)

OneAtATime ==
    \A o, p \in Ops :
        Active(o) /\ Active(p) /\ UserOf(o) = UserOf(p) /\ UserOf(o) \in Serial => o = p

RequestKnows(q) ==
    /\ q.phase = "save" /\ q.kind = "toggle" =>
           \E value \in BOOLEAN : /\ MaySetAvailable(driver[q.user], value)
                                  /\ q.entity = SetAvailable(driver[q.user], value)
    /\ q.phase = "save" /\ q.kind = "patch" =>
           \E v \in Vehicles \cup {None}, l \in Plates \cup {None} :
               q.entity = UpdateAttributes(driver[q.user], v, l)
    /\ q.phase = "publish" =>
           driver[q.user] # NoRow /\ driver[q.user].isAvailable = q.entity.isAvailable

MessageKnows(q) ==
    /\ q.phase = "tx" => q.existing = driver[q.user]
    /\ q.phase = "publish" => driver[q.user] = NoRow

Knows(o) == IF o \in Reqs THEN RequestKnows(request[o]) ELSE MessageKnows(message[o])

SerialKnow == \A o \in Ops : Active(o) /\ UserOf(o) \in Serial => Knows(o)

SerialInv == RowInv /\ EventInv /\ OneAtATime /\ SerialKnow

\* Operation o moves, on user v, and disturbs neither another operation nor
\* another user.
Moves(o, v) ==
    /\ UserOf(o)' = v
    /\ (Active(o) /\ UserOf(o) = v) \/ v \in Overlap \/ ~Busy(v)
    /\ Active(o) => UserOf(o) = v
    /\ \A x \in Reqs \ {o} : request'[x] = request[x]
    /\ \A x \in Msgs \ {o} : message'[x] = message[x]
    /\ \A u \in Users \ {v} : driver'[u] = driver[u] /\ announced'[u] = announced[u]

LEMMA RequestMoves ==
    ASSUME TypeOK, NEW r \in Reqs, RequestStep(r)
    PROVE  \E v \in Users : Moves(r, v)
<1>0. UNCHANGED message
  BY DEF RequestStep, ReadForToggle, ReadForPatch, Begins, SaveRow, PublishToggle
<1>1. ASSUME NEW u \in Users, Begins(r, u), (\E s : Respond(r, u, s)) \/ \E k, p : Hold(r, u, k, p)
      PROVE  Moves(r, u)
  <2>1. request'[r].user = u /\ \A x \in Reqs \ {r} : request'[x] = request[x]
    BY <1>1 DEF Respond, Hold, TypeOK
  <2>2. ~Active(r)
    BY <1>1 DEF Begins, Idle, Active, InFlight
  <2> QED
    BY <1>1, <2>1, <2>2 DEF Moves, UserOf, Begins, MayBegin
<1>2. ASSUME NEW u \in Users, NEW value \in BOOLEAN, ReadForToggle(r, u, value)
      PROVE  Moves(r, u)
  BY <1>1, <1>2 DEF ReadForToggle
<1>3. ASSUME NEW u \in Users, NEW v \in Vehicles \cup {None}, NEW l \in Plates \cup {None},
             ReadForPatch(r, u, v, l)
      PROVE  Moves(r, u)
  BY <1>1, <1>3 DEF ReadForPatch
<1>4. ASSUME SaveRow(r) \/ PublishToggle(r)
      PROVE  request[r].user \in Users /\ Moves(r, request[r].user)
  <2>1. request[r] \in [phase : {"save", "publish"}, kind : {"toggle", "patch"},
                        user : Users, entity : DriverProfiles]
    BY <1>4, InFlightShape DEF SaveRow, PublishToggle, TypeOK
  <2>2. request'[r].user = request[r].user /\ \A x \in Reqs \ {r} : request'[x] = request[x]
    BY <1>4, <2>1 DEF SaveRow, PublishToggle, Respond, TypeOK
  <2>3. \A u \in Users \ {request[r].user} : driver'[u] = driver[u] /\ announced'[u] = announced[u]
    BY <1>4, <2>1 DEF SaveRow, PublishToggle, Announce, TypeOK
  <2>4. Active(r)
    BY <1>4 DEF SaveRow, PublishToggle, Active, InFlight
  <2> QED
    BY <1>0, <2>1, <2>2, <2>3, <2>4 DEF Moves, UserOf
<1> QED
  BY <1>2, <1>3, <1>4 DEF RequestStep

LEMMA MessageMoves ==
    ASSUME TypeOK, NEW m \in Msgs, MessageStep(m)
    PROVE  message[m].user \in Users /\ Moves(m, message[m].user)
<1>1. m \notin Reqs /\ message[m] \in Messages
  BY ReqsAreNotMsgs DEF TypeOK
<1>2. UNCHANGED request
  BY DEF MessageStep, StartRoleChange, CommitRoleChange, AbortRoleChange, PublishRoleChange,
         AckRoleChange
<1>3. message'[m].user = message[m].user /\ \A x \in Msgs \ {m} : message'[x] = message[x]
  <2>1. CASE \E ph : MoveMessage(m, ph)
    BY <1>1, <2>1 DEF MoveMessage, TypeOK, Messages
  <2>2. CASE StartRoleChange(m) \/ AbortRoleChange(m)
    BY <1>1, <2>2 DEF StartRoleChange, AbortRoleChange, MoveMessage, TypeOK, Messages
  <2>3. CASE CommitRoleChange(m)
    BY <2>1, <2>3 DEF CommitRoleChange
  <2> QED
    BY <2>1, <2>2, <2>3 DEF MessageStep, PublishRoleChange, AckRoleChange
<1>4. \A u \in Users \ {message[m].user} : driver'[u] = driver[u] /\ announced'[u] = announced[u]
  BY <1>1 DEF MessageStep, StartRoleChange, CommitRoleChange, AbortRoleChange, PublishRoleChange,
              AckRoleChange, Announce, TypeOK, Messages
<1>5. Active(m) \/ message[m].user \in Overlap \/ ~Busy(message[m].user)
  BY <1>1 DEF MessageStep, StartRoleChange, CommitRoleChange, AbortRoleChange, PublishRoleChange,
              AckRoleChange, TxFails, Active, Handling, MayBegin
<1> QED
  BY <1>1, <1>2, <1>3, <1>4, <1>5 DEF Moves, UserOf, Messages

\* While an operation moves on a serial user, no other is active on that user.
LEMMA OthersElsewhere ==
    ASSUME OneAtATime, NEW o \in Ops, NEW v \in Users, Moves(o, v),
           NEW p \in Ops, p # o, Active(p), UserOf(p) \in Serial
    PROVE  UserOf(p) # v
<1> SUFFICES ASSUME UserOf(p) = v PROVE FALSE
  OBVIOUS
<1>1. Busy(v) /\ v \notin Overlap
  BY DEF Busy, Active, UserOf, Ops, Serial
<1> QED
  BY <1>1 DEF OneAtATime, Moves

\* Another operation is as active as before, on the same user.
LEMMA OthersStay ==
    ASSUME NEW o \in Ops, NEW v \in Users, Moves(o, v), NEW p \in Ops, p # o
    PROVE  (Active(p)' <=> Active(p)) /\ UserOf(p)' = UserOf(p)
BY DEF Moves, Active, UserOf, InFlight, Handling, Ops

LEMMA MoveSerial ==
    ASSUME TypeOK, OneAtATime, SerialKnow, NEW o \in Ops, NEW v \in Users, Moves(o, v),
           (Active(o) /\ v \in Serial => Knows(o))'
    PROVE  OneAtATime' /\ SerialKnow'
<1>1. UserOf(o)' = v
  BY DEF Moves
<1>2. OneAtATime'
  <2> SUFFICES ASSUME NEW p \in Ops, NEW q \in Ops, p # q, Active(p)', Active(q)',
                      UserOf(p)' = UserOf(q)', UserOf(p)' \in Serial
               PROVE  FALSE
    BY DEF OneAtATime, Serial
  <2>1. CASE p # o /\ q # o
    BY <2>1, OthersStay DEF OneAtATime
  <2>2. CASE p = o
    <3>1. Active(q) /\ UserOf(q) = v /\ UserOf(q) \in Serial
      BY <1>1, <2>2, OthersStay
    <3> QED
      BY <2>2, <3>1, OthersElsewhere
  <2>3. CASE q = o
    <3>1. Active(p) /\ UserOf(p) = v /\ UserOf(p) \in Serial
      BY <1>1, <2>3, OthersStay
    <3> QED
      BY <2>3, <3>1, OthersElsewhere
  <2> QED
    BY <2>1, <2>2, <2>3
<1>3. ASSUME NEW p \in Ops, Active(p)', UserOf(p)' \in Serial PROVE Knows(p)'
  <2>1. CASE p = o
    BY <1>1, <1>3, <2>1
  <2>2. CASE p # o
    <3>1. Active(p) /\ UserOf(p) \in Serial /\ Knows(p)
      BY <1>3, <2>2, OthersStay DEF SerialKnow
    <3>2. UserOf(p) # v /\ UserOf(p) \in Users
      BY <2>2, <3>1, OthersElsewhere DEF Serial
    <3>3. driver'[UserOf(p)] = driver[UserOf(p)]
      BY <3>2 DEF Moves
    <3>4. p \in Reqs => request'[p] = request[p]
      BY <2>2 DEF Moves
    <3>5. p \in Msgs => message'[p] = message[p]
      BY <2>2 DEF Moves
    <3>6. CASE p \in Reqs
      <4>1. RequestKnows(request[p])
        BY <3>1, <3>6 DEF Knows
      <4>2. driver'[request[p].user] = driver[request[p].user]
        BY <3>3, <3>6 DEF UserOf
      <4>3. RequestKnows(request[p])'
        BY <3>4, <3>6, <4>1, <4>2 DEF RequestKnows
      <4> QED
        BY <3>6, <4>3 DEF Knows
    <3>7. CASE p \notin Reqs
      BY <3>1, <3>3, <3>5, <3>7 DEF Knows, MessageKnows, UserOf, Ops
    <3> QED
      BY <3>6, <3>7
  <2> QED
    BY <2>1, <2>2
<1> QED
  BY <1>2, <1>3 DEF SerialKnow

LEMMA RequestSerial ==
    ASSUME SerialInv, NEW r \in Reqs, RequestStep(r)
    PROVE  OneAtATime' /\ SerialKnow'
<1>0. TypeOK /\ r \in Ops
  BY DEF SerialInv, RowInv, Ops
<1>1. PICK v \in Users : Moves(r, v)
  BY <1>0, RequestMoves
<1> SUFFICES ASSUME Active(r)', v \in Serial PROVE RequestKnows(request[r])'
  BY <1>0, <1>1, MoveSerial DEF SerialInv, Knows
<1>2. request'[r].phase \in {"save", "publish"} /\ request'[r].user = v
  BY <1>1 DEF Active, InFlight, Moves, UserOf
<1>3. ASSUME NEW u \in Users, NEW value \in BOOLEAN, ReadForToggle(r, u, value)
      PROVE  RequestKnows(request[r])'
  <2>1. /\ MaySetAvailable(driver[u], value)
        /\ request'[r] = [phase |-> "save", kind |-> "toggle", user |-> u,
                          entity |-> SetAvailable(driver[u], value)]
    BY <1>0, <1>2, <1>3 DEF ReadForToggle, Respond, Hold, TypeOK
  <2>2. UNCHANGED driver
    BY <1>3 DEF ReadForToggle, Begins
  <2> QED
    BY <2>1, <2>2 DEF RequestKnows
<1>4. ASSUME NEW u \in Users, NEW w \in Vehicles \cup {None}, NEW l \in Plates \cup {None},
             ReadForPatch(r, u, w, l)
      PROVE  RequestKnows(request[r])'
  <2>1. request'[r] = [phase |-> "save", kind |-> "patch", user |-> u,
                       entity |-> UpdateAttributes(driver[u], w, l)]
    BY <1>0, <1>2, <1>4 DEF ReadForPatch, Respond, Hold, TypeOK
  <2>2. UNCHANGED driver
    BY <1>4 DEF ReadForPatch, Begins
  <2> QED
    BY <2>1, <2>2 DEF RequestKnows
<1>5. CASE SaveRow(r)
  <2>1. request[r] \in [phase : {"save", "publish"}, kind : {"toggle", "patch"},
                        user : Users, entity : DriverProfiles]
    BY <1>0, <1>5, InFlightShape DEF SaveRow, TypeOK
  <2>2. /\ request' = [request EXCEPT ![r].phase = "publish"]
        /\ driver' = [driver EXCEPT ![request[r].user] = request[r].entity]
    BY <1>0, <1>2, <1>5 DEF SaveRow, Saved, Respond, TypeOK
  <2>3. request'[r] = [request[r] EXCEPT !.phase = "publish"]
    BY <1>0, <2>2 DEF TypeOK
  <2>4. driver'[request[r].user] = request[r].entity /\ request[r].entity # NoRow
    BY <1>0, <2>1, <2>2, NoRowIsNoProfile DEF TypeOK
  <2> QED
    BY <2>1, <2>3, <2>4 DEF RequestKnows
<1>6. ~PublishToggle(r)
  BY <1>0, <1>2 DEF PublishToggle, Respond, TypeOK
<1> QED
  BY <1>3, <1>4, <1>5, <1>6 DEF RequestStep

LEMMA MessageSerial ==
    ASSUME SerialInv, NEW m \in Msgs, MessageStep(m)
    PROVE  OneAtATime' /\ SerialKnow'
<1> DEFINE v == message[m].user
<1>0. TypeOK /\ m \in Ops /\ m \notin Reqs /\ message[m] \in Messages
  BY ReqsAreNotMsgs DEF SerialInv, RowInv, Ops, TypeOK
<1>1. v \in Users /\ Moves(m, v)
  BY <1>0, MessageMoves
<1> SUFFICES ASSUME v \in Serial PROVE MessageKnows(message[m])'
  BY <1>0, <1>1, MoveSerial DEF SerialInv, Knows
<1>2. CASE StartRoleChange(m)
  BY <1>0, <1>2 DEF StartRoleChange, MoveMessage, MessageKnows, TypeOK, Messages
<1>3. CASE CommitRoleChange(m)
  <2>1. message'[m].phase = "publish" => driver'[v] = NoRow
    BY <1>0, <1>1, <1>3 DEF CommitRoleChange, MoveMessage, TypeOK, Messages
  <2>2. message'[m].phase # "tx" /\ message'[m].user = v
    BY <1>0, <1>3 DEF CommitRoleChange, MoveMessage, TypeOK, Messages
  <2> QED
    BY <2>1, <2>2 DEF MessageKnows
<1>4. CASE AbortRoleChange(m) \/ PublishRoleChange(m) \/ AckRoleChange(m)
  <2>1. ASSUME NEW ph, MoveMessage(m, ph) PROVE message'[m].phase = ph
    BY <1>0, <2>1 DEF MoveMessage, TypeOK, Messages
  <2>2. CASE AbortRoleChange(m)
    BY <1>0, <2>2 DEF AbortRoleChange, MessageKnows, TypeOK, Messages
  <2>3. CASE PublishRoleChange(m) \/ AckRoleChange(m)
    <3>1. message'[m].phase \in {"ack", "done"}
      BY <2>1, <2>3 DEF PublishRoleChange, AckRoleChange
    <3> QED
      BY <3>1 DEF MessageKnows
  <2> QED
    BY <1>4, <2>2, <2>3
<1> QED
  BY <1>2, <1>3, <1>4 DEF MessageStep

LEMMA InitSerial == Init => SerialInv
<1> SUFFICES ASSUME Init PROVE SerialInv
  OBVIOUS
<1>1. \A o \in Ops : ~Active(o)
  BY DEF Init, Idle, Active, InFlight, Handling, Messages, Ops
<1> QED
  BY <1>1, InitRowInv, InitEventInv DEF SerialInv, OneAtATime, SerialKnow

LEMMA NextSerial == SerialInv /\ [Next]_vars => SerialInv'
<1> SUFFICES ASSUME SerialInv, [Next]_vars PROVE SerialInv'
  OBVIOUS
<1>0. RowInv' /\ EventInv'
  BY NextRowInv, NextEventInv DEF SerialInv, RowInv
<1>1. ASSUME NEW r \in Reqs, RequestStep(r) PROVE SerialInv'
  BY <1>0, <1>1, RequestSerial DEF SerialInv
<1>2. ASSUME NEW m \in Msgs, MessageStep(m) PROVE SerialInv'
  BY <1>0, <1>2, MessageSerial DEF SerialInv
<1>3. CASE Restart
  <2>1. \A o \in Ops : ~Active(o)'
    BY <1>3 DEF Restart, Active, InFlight, Handling, Ops, SerialInv, RowInv, TypeOK, Messages
  <2> QED
    BY <1>0, <2>1 DEF SerialInv, OneAtATime, SerialKnow
<1>4. CASE UNCHANGED <<driver, request, message>>
  BY <1>0, <1>4 DEF SerialInv, OneAtATime, SerialKnow, Active, InFlight, Handling, UserOf, Knows,
                    RequestKnows, MessageKnows
<1> QED
  BY <1>1, <1>2, <1>3, <1>4 DEF Next, CloseChannel, AtRest, vars

\* What a step does to the row of a serial user, in one atomic operation of the
\* ledger.
LedgerStep(u) ==
    \/ UNCHANGED driver[u]
    \/ /\ driver[u] # NoRow
       /\ driver'[u] # NoRow
       /\ \/ \E value \in BOOLEAN : /\ MaySetAvailable(driver[u], value)
                                    /\ driver'[u] = SetAvailable(driver[u], value)
          \/ \E v \in Vehicles \cup {None}, l \in Plates \cup {None} :
                 driver'[u] = UpdateAttributes(driver[u], v, l)
    \/ driver[u] = NoRow /\ driver'[u] = CreateIncomplete
    \/ driver[u] # NoRow /\ driver'[u] = NoRow

Owes(u) == Available(driver'[u]) # Available(driver[u]) =>
               \E o \in committed' \ committed : UserOf(o) = u

\* An attribute PATCH leaves the availability of a valid row alone.
LEMMA PatchKeepsAvailability ==
    ASSUME NEW p \in DriverProfiles, WellFormed(p),
           NEW v \in Vehicles \cup {None}, NEW l \in Plates \cup {None}
    PROVE  UpdateAttributes(p, v, l).isAvailable = p.isAvailable
BY DEF DriverProfiles, WellFormed, UpdateAttributes, Given, HasBothAttributes

LEMMA SaveOfSerial ==
    ASSUME SerialInv, NEW r \in Reqs, SaveRow(r), NEW u \in Serial
    PROVE  LedgerStep(u) /\ Owes(u)
<1> DEFINE q == request[r]
<1>0. TypeOK /\ r \in Ops /\ u \in Users /\ driver[u] \in Rows
  BY DEF SerialInv, RowInv, Ops, Serial, TypeOK
<1>1. q \in [phase : {"save", "publish"}, kind : {"toggle", "patch"},
             user : Users, entity : DriverProfiles]
  BY <1>0, InFlightShape DEF SaveRow, TypeOK
<1>2. CASE UNCHANGED driver[u]
  BY <1>2 DEF LedgerStep, Owes
<1>3. CASE ~UNCHANGED driver[u]
  <2>1. /\ q.phase = "save" /\ q.user = u /\ driver[u] # NoRow /\ driver'[u] = q.entity
        /\ q.kind = "toggle" => committed' = committed \cup {r}
    BY <1>0, <1>1, <1>3 DEF SaveRow, Saved, TypeOK
  <2>2. RequestKnows(q) /\ r \notin committed
    BY <1>0, <2>1 DEF SerialInv, SerialKnow, Active, InFlight, UserOf, Knows, EventInv, RequestEvents
  <2>3. LedgerStep(u)
    BY <1>1, <2>1, <2>2, NoRowIsNoProfile DEF LedgerStep, RequestKnows
  <2>4. CASE q.kind = "toggle"
    BY <1>0, <2>1, <2>2, <2>3, <2>4 DEF Owes, UserOf
  <2>5. CASE q.kind = "patch"
    <3>1. PICK v \in Vehicles \cup {None}, l \in Plates \cup {None} :
              driver'[u] = UpdateAttributes(driver[u], v, l)
      BY <2>1, <2>2, <2>5 DEF RequestKnows
    <3>2. driver[u] \in DriverProfiles /\ WellFormed(driver[u])
      BY <1>0, <2>1 DEF Rows, SerialInv, RowInv, RowsWellFormed
    <3>3. driver'[u].isAvailable = driver[u].isAvailable /\ driver'[u] # NoRow
      <4>1. UpdateAttributes(driver[u], v, l).isAvailable = driver[u].isAvailable
        BY <3>2, PatchKeepsAvailability
      <4>2. driver'[u] \in DriverProfiles
        BY <1>1, <2>1
      <4> QED
        BY <3>1, <4>1, <4>2, NoRowIsNoProfile
    <3> QED
      BY <2>1, <2>3, <3>3 DEF Owes, Available
  <2> QED
    BY <1>1, <2>4, <2>5
<1> QED
  BY <1>2, <1>3

LEMMA CommitOfSerial ==
    ASSUME SerialInv, NEW m \in Msgs, CommitRoleChange(m), NEW u \in Serial
    PROVE  LedgerStep(u) /\ Owes(u)
<1> DEFINE q == message[m]
<1>0. /\ TypeOK /\ m \in Ops /\ m \notin Reqs /\ u \in Users
      /\ driver[u] \in Rows /\ q \in Messages
  BY ReqsAreNotMsgs DEF SerialInv, RowInv, Ops, Serial, TypeOK
<1>1. CASE UNCHANGED driver[u]
  BY <1>1 DEF LedgerStep, Owes
<1>2. CASE ~UNCHANGED driver[u]
  <2>1. q.user = u /\ q.phase = "tx"
    BY <1>0, <1>2 DEF CommitRoleChange, TypeOK, Messages
  <2>2. q.existing = driver[u] /\ m \notin committed
    BY <1>0, <2>1 DEF SerialInv, SerialKnow, Active, Handling, UserOf, Knows, MessageKnows,
                      EventInv, MessageEvents
  <2>3. \/ driver[u] = NoRow /\ driver'[u] = CreateIncomplete
        \/ /\ driver[u] # NoRow /\ driver'[u] = NoRow
           /\ driver[u].isAvailable => committed' = committed \cup {m}
    BY <1>0, <1>2, <2>1, <2>2 DEF CommitRoleChange, WasAvailable, TypeOK
  <2>4. CASE driver[u] = NoRow /\ driver'[u] = CreateIncomplete
    BY <2>4 DEF LedgerStep, Owes, Available, CreateIncomplete
  <2>5. CASE /\ driver[u] # NoRow /\ driver'[u] = NoRow
             /\ driver[u].isAvailable => committed' = committed \cup {m}
    <3>1. CASE driver[u].isAvailable
      BY <1>0, <2>1, <2>2, <2>5, <3>1 DEF LedgerStep, Owes, UserOf
    <3>2. CASE ~driver[u].isAvailable
      BY <2>5, <3>2 DEF LedgerStep, Owes, Available
    <3> QED
      BY <3>1, <3>2
  <2> QED
    BY <2>3, <2>4, <2>5
<1> QED
  BY <1>1, <1>2

LEMMA RowWriters ==
    ASSUME [Next]_vars
    PROVE  (\E r \in Reqs : SaveRow(r)) \/ (\E m \in Msgs : CommitRoleChange(m)) \/ UNCHANGED driver
<1>1. ASSUME NEW r \in Reqs, RequestStep(r), ~SaveRow(r) PROVE UNCHANGED driver
  BY <1>1 DEF RequestStep, ReadForToggle, ReadForPatch, Begins, PublishToggle
<1>2. ASSUME NEW m \in Msgs, MessageStep(m), ~CommitRoleChange(m) PROVE UNCHANGED driver
  BY <1>2 DEF MessageStep, StartRoleChange, AbortRoleChange, PublishRoleChange, AckRoleChange
<1>3. CloseChannel \/ Restart \/ AtRest \/ UNCHANGED vars => UNCHANGED driver
  BY DEF CloseChannel, Restart, AtRest, vars
<1> QED
  BY <1>1, <1>2, <1>3 DEF Next

LEMMA StepOfSerial ==
    ASSUME SerialInv, [Next]_vars, NEW u \in Serial
    PROVE  LedgerStep(u) /\ Owes(u)
<1>1. UNCHANGED driver => LedgerStep(u) /\ Owes(u)
  BY DEF LedgerStep, Owes
<1> QED
  BY <1>1, RowWriters, SaveOfSerial, CommitOfSerial

\* No step changes the availability of a serial user without owing the event.
THEOREM ChangesOweEvents == Spec => EveryChangeOwesAnEvent
<1>1. SerialInv /\ [Next]_vars => [\A u \in Serial : Owes(u)]_vars
  BY StepOfSerial
<1>2. Spec => [][\A u \in Serial : Owes(u)]_vars
  BY <1>1, InitSerial, NextSerial, PTL DEF Spec
<1> QED
  BY <1>2 DEF EveryChangeOwesAnEvent, Owes

-----------------------------------------------------------------------------
(* The subscribers.  In a reliable process an event is published, is pending *)
(* or is not owed, so what they heard of a serial user is the table's word.  *)

HeardOK(u) == ~Pending(u) => announced[u] = Available(driver[u])

HeardInv == \A u \in Serial : HeardOK(u)

ReliableInv == SerialInv /\ OwedIsPending /\ HeardInv

Publishing(o) == IF o \in Reqs THEN request[o].phase = "publish" ELSE message[o].phase = "publish"

LEMMA PendingIsPublishing ==
    ASSUME NEW u PROVE Pending(u) <=> \E o \in Ops : Publishing(o) /\ UserOf(o) = u
BY ReqsAreNotMsgs DEF Pending, Publishing, UserOf, Ops

LEMMA PublishingIsActive == \A o \in Ops : Publishing(o) => Active(o)
BY DEF Publishing, Active, InFlight, Handling

\* The users an operation does not move on hear nothing new.
LEMMA ElsewhereHeard ==
    ASSUME NEW o \in Ops, NEW v \in Users, Moves(o, v), NEW u \in Users, u # v, HeardOK(u)
    PROVE  HeardOK(u)'
<1>1. \A p \in Ops \ {o} : (Publishing(p)' <=> Publishing(p)) /\ UserOf(p)' = UserOf(p)
  BY DEF Moves, Publishing, UserOf, Ops
<1>2. ~(Publishing(o) /\ UserOf(o) = u) /\ UserOf(o)' # u
  BY PublishingIsActive DEF Moves
<1>3. Pending(u) => Pending(u)'
  <2> SUFFICES ASSUME Pending(u) PROVE Pending(u)'
    OBVIOUS
  <2>1. PICK p \in Ops : Publishing(p) /\ UserOf(p) = u
    BY PendingIsPublishing
  <2>2. (p \in Reqs => request'[p] = request[p]) /\ (p \in Msgs => message'[p] = message[p])
    BY <1>2, <2>1 DEF Moves
  <2> QED
    BY <2>1, <2>2, ReqsAreNotMsgs DEF Pending, Publishing, UserOf, Ops
<1>4. driver'[u] = driver[u] /\ announced'[u] = announced[u]
  BY DEF Moves
<1> QED
  BY <1>3, <1>4 DEF HeardOK

\* An operation that had no event to publish leaves the subscribers right when
\* it keeps the availability or owes an event now.
LEMMA QuietHeard ==
    ASSUME SerialInv, NEW o \in Ops, NEW v \in Serial, Moves(o, v), ~Publishing(o), HeardOK(v),
           announced'[v] = announced[v],
           Available(driver'[v]) = Available(driver[v]) \/ Pending(v)'
    PROVE  HeardOK(v)'
<1>1. v \in Users /\ OneAtATime
  BY DEF Serial, SerialInv
<1>2. ~Pending(v)
  <2> SUFFICES ASSUME NEW p \in Ops, Publishing(p), UserOf(p) = v PROVE FALSE
    BY PendingIsPublishing
  <2> QED
    BY <1>1, PublishingIsActive, OthersElsewhere
<1> QED
  BY <1>2 DEF HeardOK

LEMMA RequestHeard ==
    ASSUME ReliableInv, NEW r \in Reqs, RequestStep(r)
    PROVE  HeardInv'
<1>0. TypeOK /\ SerialInv /\ HeardInv /\ r \in Ops /\ channelOpen
  BY DEF ReliableInv, SerialInv, RowInv, Ops, OwedIsPending
<1>1. PICK v \in Users : Moves(r, v)
  BY <1>0, RequestMoves
<1> SUFFICES ASSUME v \in Serial PROVE HeardOK(v)'
  BY <1>0, <1>1, ElsewhereHeard DEF HeardInv, Serial
<1>2. HeardOK(v)
  BY <1>0 DEF HeardInv
<1>3. ASSUME NEW u \in Users, Begins(r, u) PROVE HeardOK(v)'
  BY <1>0, <1>1, <1>2, <1>3, QuietHeard DEF Begins, Idle, Publishing
<1>4. CASE SaveRow(r)
  <2>1. ~Publishing(r) /\ announced'[v] = announced[v]
    BY <1>4 DEF SaveRow, Publishing
  <2>2. CASE committed' = committed
    BY <1>0, <1>1, <1>2, <1>4, <2>1, <2>2, QuietHeard, SaveOfSerial DEF Owes
  <2>3. CASE request' = [request EXCEPT ![r].phase = "publish"]
    <3>1. request[r] \in [phase : {"save", "publish"}, kind : {"toggle", "patch"},
                          user : Users, entity : DriverProfiles]
      BY <1>0, <1>4, InFlightShape DEF SaveRow, TypeOK
    <3>2. request'[r].phase = "publish" /\ request'[r].user = v
      BY <1>0, <1>1, <2>3, <3>1 DEF TypeOK, Moves, UserOf
    <3>3. Pending(v)'
      BY <3>2 DEF Pending
    <3> QED
      BY <1>0, <1>1, <1>2, <2>1, <3>3, QuietHeard
  <2> QED
    BY <1>4, <2>2, <2>3 DEF SaveRow
<1>5. CASE PublishToggle(r)
  <2>1. request[r] \in [phase : {"save", "publish"}, kind : {"toggle", "patch"},
                        user : Users, entity : DriverProfiles] /\ request[r].phase = "publish"
    BY <1>0, <1>5, InFlightShape DEF PublishToggle, TypeOK
  <2>2. request[r].user = v
    BY <1>1, <2>1 DEF Moves, Active, InFlight, UserOf
  <2>3. driver[v] # NoRow /\ driver[v].isAvailable = request[r].entity.isAvailable
    BY <1>0, <2>1, <2>2 DEF SerialInv, SerialKnow, Active, InFlight, UserOf, Knows, RequestKnows
  <2>4. announced'[v] = request[r].entity.isAvailable /\ UNCHANGED driver
    BY <1>0, <1>5, <2>2 DEF PublishToggle, Announce, TypeOK
  <2>5. Available(driver[v]) = driver[v].isAvailable
    BY <2>1, <2>3 DEF Available, DriverProfiles
  <2> QED
    BY <2>3, <2>4, <2>5 DEF HeardOK
<1> QED
  BY <1>3, <1>4, <1>5 DEF RequestStep, ReadForToggle, ReadForPatch

LEMMA MessageHeard ==
    ASSUME ReliableInv, NEW m \in Msgs, MessageStep(m)
    PROVE  HeardInv'
<1>0. /\ TypeOK /\ SerialInv /\ HeardInv /\ m \in Ops /\ m \notin Reqs
      /\ message[m] \in Messages
  BY ReqsAreNotMsgs DEF ReliableInv, SerialInv, RowInv, Ops, TypeOK
<1>1. PICK v \in Users : v = message[m].user /\ Moves(m, v)
  BY <1>0, MessageMoves
<1> SUFFICES ASSUME v \in Serial PROVE HeardOK(v)'
  BY <1>0, <1>1, ElsewhereHeard DEF HeardInv, Serial
<1>2. HeardOK(v)
  BY <1>0 DEF HeardInv
<1>3. CASE StartRoleChange(m) \/ AbortRoleChange(m) \/ AckRoleChange(m)
  <2>1. ~Publishing(m) /\ UNCHANGED <<driver, announced>>
    BY <1>0, <1>3 DEF StartRoleChange, AbortRoleChange, TxFails, AckRoleChange, Publishing
  <2> QED
    BY <1>0, <1>1, <1>2, <2>1, QuietHeard
<1>4. CASE CommitRoleChange(m)
  <2>1. ~Publishing(m) /\ UNCHANGED announced
    BY <1>0, <1>4 DEF CommitRoleChange, Publishing
  <2>2. CASE committed' = committed
    BY <1>0, <1>1, <1>2, <1>4, <2>1, <2>2, QuietHeard, CommitOfSerial DEF Owes
  <2>3. CASE MoveMessage(m, "publish")
    <3>1. message'[m].phase = "publish" /\ message'[m].user = v
      BY <1>0, <1>1, <2>3 DEF MoveMessage, TypeOK, Messages
    <3>2. Pending(v)'
      BY <3>1 DEF Pending
    <3> QED
      BY <1>0, <1>1, <1>2, <2>1, <3>2, QuietHeard
  <2> QED
    BY <1>4, <2>2, <2>3 DEF CommitRoleChange
<1>5. CASE PublishRoleChange(m)
  <2>1. driver[v] = NoRow /\ UNCHANGED driver /\ announced'[v] = FALSE
    BY <1>0, <1>1, <1>5 DEF PublishRoleChange, Announce, TypeOK, SerialInv, SerialKnow, Active,
                            Handling, UserOf, Knows, MessageKnows
  <2> QED
    BY <2>1 DEF HeardOK, Available
<1> QED
  BY <1>3, <1>4, <1>5 DEF MessageStep

LEMMA InitReliable == Init => ReliableInv
<1> SUFFICES ASSUME Init PROVE ReliableInv
  OBVIOUS
<1>1. HeardInv
  BY DEF Init, HeardInv, HeardOK, Serial
<1> QED
  BY <1>1, InitSerial, InitOwed DEF ReliableInv

LEMMA NextReliable ==
    ASSUME Reliable, ReliableInv, [Next]_vars PROVE ReliableInv'
<1>0. SerialInv' /\ OwedIsPending'
  BY NextSerial, NextOwed DEF ReliableInv, SerialInv, RowInv
<1>1. ASSUME NEW r \in Reqs, RequestStep(r) PROVE ReliableInv'
  BY <1>0, <1>1, RequestHeard DEF ReliableInv
<1>2. ASSUME NEW m \in Msgs, MessageStep(m) PROVE ReliableInv'
  BY <1>0, <1>2, MessageHeard DEF ReliableInv
<1>3. ~CloseChannel /\ ~Restart
  BY DEF Reliable, CloseChannel, Restart, HandlerRejects, OwedIsPending, ReliableInv
<1>4. CASE UNCHANGED vars
  BY <1>0, <1>4 DEF vars, ReliableInv, HeardInv, HeardOK, Pending
<1> QED
  BY <1>1, <1>2, <1>3, <1>4 DEF Next, AtRest

\* Whenever nothing is in flight, the last event of a serial user is true.
THEOREM ReliableProcessAgrees == ASSUME Reliable PROVE Spec => []SettledAgreement
<1>1. ReliableInv => SettledAgreement
  BY DEF ReliableInv, HeardInv, HeardOK, SettledAgreement, Quiescent, Pending, InFlight, Handling
<1>2. ReliableInv /\ [Next]_vars => ReliableInv'
  BY NextReliable
<1> QED
  BY <1>1, <1>2, InitReliable, PTL DEF Spec

-----------------------------------------------------------------------------
(* Refinement of AvailabilityLedger *)

\* What the refinement mapping says the subscribers heard is the table's word.
LEMMA HeardIsRow ==
    ASSUME ReliableInv
    PROVE  [u \in Serial |-> IF Pending(u) THEN Available(driver[u]) ELSE announced[u]]
               = [u \in Serial |-> Available(driver[u])]
BY DEF ReliableInv, HeardInv, HeardOK

LEMMA SameProfiles ==
    /\ Ledger!DriverProfiles = DriverProfiles
    /\ Ledger!CreateIncomplete = CreateIncomplete
    /\ \A p : Ledger!WellFormed(p) <=> WellFormed(p)
    /\ \A p, value : /\ Ledger!MaySetAvailable(p, value) <=> MaySetAvailable(p, value)
                     /\ Ledger!SetAvailable(p, value) = SetAvailable(p, value)
    /\ \A p, v, l : Ledger!UpdateAttributes(p, v, l) = UpdateAttributes(p, v, l)
BY DEF Ledger!DriverProfiles, DriverProfiles, Ledger!CreateIncomplete, CreateIncomplete,
       Ledger!WellFormed, WellFormed, Ledger!HasBothAttributes, HasBothAttributes,
       Ledger!MaySetAvailable, MaySetAvailable, Ledger!SetAvailable, SetAvailable,
       Ledger!UpdateAttributes, UpdateAttributes, Ledger!Given, Given

LEMMA LedgerInit == Init => Ledger!Init
<1> SUFFICES ASSUME Init PROVE Ledger!Init
  OBVIOUS
<1>1. Serial \subseteq Users
  BY DEF Serial
<1>2. \A u \in Serial : ~Pending(u) /\ announced[u] = Available(driver[u])
  BY <1>1 DEF Init, Pending, Idle, Messages
<1> QED
  BY <1>1, <1>2, SameProfiles DEF Init, Ledger!Init, Available

\* An atomic operation on user u takes the rows and what was heard to row1, heard1.
Operation(u, row, heard, row1, heard1) ==
    \/ /\ row[u] # NoRow
       /\ \/ \E value \in BOOLEAN :
                 /\ MaySetAvailable(row[u], value)
                 /\ row1 = [row EXCEPT ![u] = SetAvailable(row[u], value)]
                 /\ heard1 = [heard EXCEPT ![u] = value]
          \/ \E v \in Vehicles \cup {None}, l \in Plates \cup {None} :
                 /\ row1 = [row EXCEPT ![u] = UpdateAttributes(row[u], v, l)]
                 /\ heard1 = heard
          \/ row1 = [row EXCEPT ![u] = NoRow] /\ heard1 = [heard EXCEPT ![u] = FALSE]
    \/ row[u] = NoRow /\ row1 = [row EXCEPT ![u] = CreateIncomplete] /\ heard1 = heard
    \/ row1 = row /\ heard1 = heard

LEMMA LedgerOperation ==
    ASSUME TypeOK, RowsWellFormed, NEW u \in Serial, LedgerStep(u),
           \A w \in Users \ {u} : driver'[w] = driver[w]
    PROVE  Operation(u, [w \in Serial |-> driver[w]], [w \in Serial |-> Available(driver[w])],
                        [w \in Serial |-> driver'[w]], [w \in Serial |-> Available(driver'[w])])
<1> DEFINE row    == [w \in Serial |-> driver[w]]
           heard  == [w \in Serial |-> Available(driver[w])]
           row1   == [w \in Serial |-> driver'[w]]
           heard1 == [w \in Serial |-> Available(driver'[w])]
<1> SUFFICES Operation(u, row, heard, row1, heard1)
  OBVIOUS
<1>0. /\ u \in Users /\ row[u] = driver[u] /\ heard[u] = Available(driver[u])
      /\ row1 = [row EXCEPT ![u] = driver'[u]]
      /\ heard1 = [heard EXCEPT ![u] = Available(driver'[u])]
      /\ row = [row EXCEPT ![u] = row[u]] /\ heard = [heard EXCEPT ![u] = heard[u]]
  BY DEF Serial
<1> HIDE DEF row, heard, row1, heard1
<1>1. Available(driver'[u]) = Available(driver[u]) => heard1 = heard
  BY <1>0
<1>2. CASE UNCHANGED driver[u]
  BY <1>0, <1>1, <1>2 DEF Operation
<1>3. ASSUME NEW value \in BOOLEAN, driver[u] # NoRow, driver'[u] # NoRow,
             MaySetAvailable(driver[u], value), driver'[u] = SetAvailable(driver[u], value)
      PROVE  /\ row[u] # NoRow /\ MaySetAvailable(row[u], value)
             /\ row1 = [row EXCEPT ![u] = SetAvailable(row[u], value)]
             /\ heard1 = [heard EXCEPT ![u] = value]
  <2>1. driver[u] \in DriverProfiles
    BY <1>0, <1>3 DEF TypeOK, Rows
  <2>2. driver'[u].isAvailable = value
    BY <1>3, <2>1 DEF SetAvailable, DriverProfiles
  <2>3. Available(driver'[u]) = value
    BY <1>3, <2>2 DEF Available
  <2> QED
    BY <1>0, <1>3, <2>3
<1>4. ASSUME NEW v \in Vehicles \cup {None}, NEW l \in Plates \cup {None},
             driver[u] # NoRow, driver'[u] # NoRow,
             driver'[u] = UpdateAttributes(driver[u], v, l)
      PROVE  /\ row[u] # NoRow /\ row1 = [row EXCEPT ![u] = UpdateAttributes(row[u], v, l)]
             /\ heard1 = heard
  <2>1. driver[u] \in DriverProfiles /\ WellFormed(driver[u])
    BY <1>0, <1>4 DEF TypeOK, Rows, RowsWellFormed
  <2>2. UpdateAttributes(driver[u], v, l).isAvailable = driver[u].isAvailable
    BY <2>1, PatchKeepsAvailability
  <2>3. Available(driver'[u]) = Available(driver[u])
    BY <1>4, <2>2 DEF Available
  <2> QED
    BY <1>0, <1>1, <1>4, <2>3
<1>5. CASE driver[u] = NoRow /\ driver'[u] = CreateIncomplete
  <2>1. Available(driver'[u]) = FALSE /\ Available(driver[u]) = FALSE
    BY <1>5 DEF Available, CreateIncomplete
  <2> QED
    BY <1>0, <1>1, <1>5, <2>1 DEF Operation
<1>6. CASE driver[u] # NoRow /\ driver'[u] = NoRow
  <2>1. Available(driver'[u]) = FALSE
    BY <1>6 DEF Available
  <2> QED
    BY <1>0, <1>6, <2>1 DEF Operation
<1> QED
  BY <1>2, <1>3, <1>4, <1>5, <1>6 DEF LedgerStep, Operation

LEMMA LedgerNext ==
    ASSUME ReliableInv, ReliableInv', [Next]_vars
    PROVE  Ledger!Next \/ UNCHANGED Ledger!ledger
<1> DEFINE row == [u \in Serial |-> driver[u]]
           heard == [u \in Serial |-> IF Pending(u) THEN Available(driver[u]) ELSE announced[u]]
<1>0. SerialInv /\ TypeOK /\ RowsWellFormed
  BY DEF ReliableInv, SerialInv, RowInv
<1>1. heard = [u \in Serial |-> Available(driver[u])]
  BY HeardIsRow
<1>2. heard' = [u \in Serial |-> Available(driver'[u])]
  <2>1. \A u \in Serial : HeardOK(u)'
    BY DEF ReliableInv, HeardInv
  <2> QED
    BY <2>1 DEF HeardOK
<1>3. \/ UNCHANGED driver
      \/ \E v \in Users : \A w \in Users \ {v} : driver'[w] = driver[w]
  <2>1. ASSUME NEW r \in Reqs, SaveRow(r) PROVE \E v \in Users : Moves(r, v)
    BY <1>0, <2>1, RequestMoves DEF RequestStep
  <2>2. ASSUME NEW m \in Msgs, CommitRoleChange(m) PROVE \E v \in Users : Moves(m, v)
    BY <1>0, <2>2, MessageMoves DEF MessageStep
  <2> QED
    BY <2>1, <2>2, RowWriters DEF Moves
<1>4. CASE \A u \in Serial : driver'[u] = driver[u]
  <2>1. row' = row /\ heard' = heard
    BY <1>1, <1>2, <1>4
  <2> QED
    BY <2>1 DEF Ledger!ledger
<1>5. CASE \E u \in Serial : driver'[u] # driver[u]
  <2>1. PICK u \in Serial : driver'[u] # driver[u]
    BY <1>5
  <2>2. \A w \in Users \ {u} : driver'[w] = driver[w]
    BY <1>3, <2>1 DEF Serial
  <2>3. LedgerStep(u)
    BY <1>0, StepOfSerial
  <2>4. /\ row = [w \in Serial |-> driver[w]] /\ row' = [w \in Serial |-> driver'[w]]
        /\ heard = [w \in Serial |-> Available(driver[w])]
        /\ heard' = [w \in Serial |-> Available(driver'[w])]
    BY <1>1, <1>2
  <2> HIDE DEF row, heard
  <2>5. Operation(u, row, heard, row', heard')
    BY <1>0, <2>2, <2>3, <2>4, LedgerOperation
  <2>6. \/ \E value \in BOOLEAN : Ledger!Toggle(u, value)
        \/ \E v \in Vehicles \cup {None}, l \in Plates \cup {None} : Ledger!Patch(u, v, l)
        \/ Ledger!Promote(u)
        \/ Ledger!Demote(u)
        \/ UNCHANGED Ledger!ledger
    BY <2>5, SameProfiles DEF Ledger!Toggle, Ledger!Patch, Ledger!Promote, Ledger!Demote,
                              Ledger!ledger, row, heard, Operation
  <2> QED
    BY <2>6 DEF Ledger!Next
<1> QED
  BY <1>4, <1>5

\* In a reliable process the reads, saves, commits and publications on the serial
\* users implement the atomic ledger.
THEOREM ReliableProcessImplementsLedger == ASSUME Reliable PROVE Spec => LedgerSpec
<1>1. Init => Ledger!Init
  BY LedgerInit
<1>2. ReliableInv /\ [Next]_vars => ReliableInv'
  BY NextReliable
<1>3. ReliableInv /\ ReliableInv' /\ [Next]_vars => [Ledger!Next]_(Ledger!ledger)
  BY LedgerNext
<1> QED
  BY <1>1, <1>2, <1>3, InitReliable, PTL DEF Spec, LedgerSpec, Ledger!Spec
=============================================================================
