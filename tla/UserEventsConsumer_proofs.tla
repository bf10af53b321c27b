---------------------- MODULE UserEventsConsumer_proofs ----------------------
(***************************************************************************)
(* The consumer implements the abstract inbox, delivers messages out of    *)
(* order only so far, and starves the queue behind too many messages that  *)
(* always fail, for any queue, prefetch limit and bound on faults.         *)
(*                                                                         *)
(* RecordedOnceWithEffects is not inductive alone: a transaction that has  *)
(* inserted its record must still be the only one for the event, and the   *)
(* record must not have been committed meanwhile; a handled message must   *)
(* find its event recorded when it is acknowledged.                        *)
(***************************************************************************)
EXTENDS UserEventsConsumer, FiniteSetTheorems, TLAPS

\* Two transactions never hold the dedup record of one event at a time.
OneTransactionPerEvent ==
    \A m, n \in Msgs :
        msg[m] = "inserted" /\ msg[n] = "inserted" /\ EventOf[m] = EventOf[n] => m = n

OpenIsUnrecorded ==
    \A m \in Msgs : msg[m] = "inserted" => HasHandler(m) /\ EventOf[m] \notin processed

HandledIsRecorded ==
    \A m \in Msgs : HasHandler(m) /\ msg[m] \in {"handled", "acked"} => EventOf[m] \in processed

OthersAreClosed ==
    \A m \in Msgs :
        /\ Kind[m] = "malformed" => msg[m] \in {"ready", "delivered", "dead"}
        /\ Kind[m] = "unknown" => msg[m] \in {"ready", "delivered", "handled", "acked"}
        /\ Kind[m] = "null" => msg[m] \in {"absent", "ready", "delivered"}

Inv == TypeOK /\ RecordedOnceWithEffects /\ OneTransactionPerEvent
              /\ OpenIsUnrecorded /\ HandledIsRecorded /\ OthersAreClosed

LEMMA InitInv == Init => Inv
<1> SUFFICES ASSUME Init PROVE Inv
  OBVIOUS
<1>1. TypeOK
  BY ConsumerConstantsOK DEF Init, TypeOK, Places
<1> QED
  BY <1>1 DEF Init, Inv, RecordedOnceWithEffects, OneTransactionPerEvent,
              OpenIsUnrecorded, HandledIsRecorded, OthersAreClosed

\* Moving one message changes nothing of the others.
LEMMA MoveOne ==
    ASSUME TypeOK, NEW m \in Msgs, NEW p \in Places, Move(m, p)
    PROVE  /\ msg' \in [Msgs -> Places]
           /\ msg'[m] = p
           /\ \A n \in Msgs \ {m} : msg'[n] = msg[n]
BY DEF Move, TypeOK

\* A message that changes place without touching the tables, and not into a
\* transaction, keeps the invariant if it is handled only with its event recorded.
LEMMA QuietMove ==
    ASSUME Inv, NEW m \in Msgs, NEW p \in Places \ {"inserted"}, Move(m, p),
           UNCHANGED <<processed, effects, crashes>>, failures' \in [Msgs -> Nat],
           HasHandler(m) /\ p \in {"handled", "acked"} => EventOf[m] \in processed,
           Kind[m] = "malformed" => p \in {"ready", "delivered", "dead"},
           Kind[m] = "unknown" => p \in {"ready", "delivered", "handled", "acked"},
           Kind[m] = "null" => p \in {"ready", "delivered"}
    PROVE  Inv'
<1>1. /\ msg' \in [Msgs -> Places] /\ msg'[m] = p
      /\ \A n \in Msgs \ {m} : msg'[n] = msg[n]
  BY MoveOne DEF Inv
<1>2. TypeOK'
  BY <1>1 DEF Inv, TypeOK
<1>3. RecordedOnceWithEffects'
  BY DEF Inv, RecordedOnceWithEffects
<1>4. OneTransactionPerEvent'
  BY <1>1 DEF Inv, OneTransactionPerEvent
<1>5. OpenIsUnrecorded' /\ HandledIsRecorded' /\ OthersAreClosed'
  BY <1>1 DEF Inv, OpenIsUnrecorded, HandledIsRecorded, OthersAreClosed, HasHandler
<1> QED
  BY <1>2, <1>3, <1>4, <1>5 DEF Inv

LEMMA CommitInv ==
    ASSUME Inv, NEW m \in Msgs, Commit(m)
    PROVE  Inv'
<1> DEFINE e == EventOf[m]
<1>1. /\ e \in Events /\ e \notin processed /\ HasHandler(m) /\ effects[e] = 0
  BY ConsumerConstantsOK DEF Commit, Inv, OpenIsUnrecorded, RecordedOnceWithEffects
<1>2. /\ msg' \in [Msgs -> Places] /\ msg'[m] = "handled"
      /\ \A n \in Msgs \ {m} : msg'[n] = msg[n]
  BY MoveOne DEF Commit, Inv, Places
<1>3. /\ processed' = processed \cup {e} /\ effects'[e] = 1
      /\ \A x \in Events \ {e} : effects'[x] = effects[x]
  BY <1>1 DEF Commit, DedupKey, Inv, TypeOK
<1>4. TypeOK'
  BY <1>1, <1>2, <1>3 DEF Commit, Inv, TypeOK
<1>5. RecordedOnceWithEffects'
  BY <1>3 DEF Inv, RecordedOnceWithEffects
<1>6. OneTransactionPerEvent'
  BY <1>2 DEF Inv, OneTransactionPerEvent
<1>7. OpenIsUnrecorded'
  <2>1. \A n \in Msgs \ {m} : msg[n] = "inserted" => EventOf[n] # e
    BY DEF Commit, Inv, OneTransactionPerEvent
  <2> QED
    BY <1>2, <1>3, <2>1 DEF Inv, OpenIsUnrecorded
<1>8. HandledIsRecorded'
  BY <1>2, <1>3 DEF Inv, HandledIsRecorded
<1>9. OthersAreClosed'
  BY <1>1, <1>2 DEF Inv, OthersAreClosed, HasHandler
<1> QED
  BY <1>4, <1>5, <1>6, <1>7, <1>8, <1>9 DEF Inv

LEMMA InsertInv ==
    ASSUME Inv, NEW m \in Msgs, RecordIfNew(m), EventOf[m] \notin processed
    PROVE  Inv'
<1>1. /\ msg' \in [Msgs -> Places] /\ msg'[m] = "inserted"
      /\ \A n \in Msgs \ {m} : msg'[n] = msg[n]
  BY MoveOne DEF RecordIfNew, AlreadyRecorded, DedupKey, Inv, Places
<1>2. UNCHANGED <<processed, effects, failures, crashes>> /\ HasHandler(m)
  BY DEF RecordIfNew
<1>3. TypeOK' /\ RecordedOnceWithEffects'
  BY <1>1, <1>2 DEF Inv, TypeOK, RecordedOnceWithEffects
<1>4. OneTransactionPerEvent'
  BY <1>1 DEF RecordIfNew, KeyIsFree, DedupKey, Inv, OneTransactionPerEvent
<1>5. OpenIsUnrecorded' /\ HandledIsRecorded' /\ OthersAreClosed'
  BY <1>1, <1>2 DEF Inv, OpenIsUnrecorded, HandledIsRecorded, OthersAreClosed, HasHandler
<1> QED
  BY <1>3, <1>4, <1>5 DEF Inv

LEMMA FailureInv ==
    ASSUME Inv, NEW m \in Msgs, HandlerFails(m)
    PROVE  Inv'
<1>1. failures' \in [Msgs -> Nat] /\ UNCHANGED <<processed, effects, crashes>>
  BY DEF HandlerFails, Inv, TypeOK
<1>2. HasHandler(m) /\ \E p \in {"dead", "ready"} : Move(m, p)
  BY DEF HandlerFails, AfterFailure, Discarded
<1> QED
  BY <1>1, <1>2, QuietMove DEF Places, HasHandler

LEMMA MessageInv ==
    ASSUME Inv, NEW m \in Msgs, Deliver(m) \/ Progress(m) \/ HandlerFails(m)
    PROVE  Inv'
<1>0. failures \in [Msgs -> Nat]
  BY DEF Inv, TypeOK
<1>1. CASE Deliver(m)
  BY <1>0, <1>1, QuietMove DEF Deliver, Places
<1>2. CASE Dispatch(m)
  BY <1>0, <1>2, QuietMove DEF Dispatch, Discarded, Places, HasHandler
<1>3. CASE RecordIfNew(m)
  <2>1. CASE EventOf[m] \notin processed
    BY <1>3, <2>1, InsertInv
  <2>2. CASE EventOf[m] \in processed
    BY <1>0, <1>3, <2>2, QuietMove DEF RecordIfNew, AlreadyRecorded, DedupKey, Places, HasHandler
  <2> QED
    BY <2>1, <2>2
<1>4. CASE Commit(m)
  BY <1>4, CommitInv
<1>5. CASE Ack(m)
  <2>1. HasHandler(m) => EventOf[m] \in processed
    BY <1>5 DEF Ack, Inv, HandledIsRecorded
  <2>2. Kind[m] \notin {"malformed", "null"}
    BY <1>5 DEF Ack, Inv, OthersAreClosed
  <2> QED
    BY <1>0, <1>5, <2>1, <2>2, QuietMove DEF Ack, Places
<1>6. CASE HandlerFails(m)
  BY <1>6, FailureInv
<1> QED
  BY <1>1, <1>2, <1>3, <1>4, <1>5, <1>6 DEF Progress

LEMMA NextInv == Inv /\ [Next]_vars => Inv'
<1> SUFFICES ASSUME Inv, [Next]_vars PROVE Inv'
  OBVIOUS
<1>1. CASE \E m \in Msgs : Deliver(m) \/ Progress(m) \/ HandlerFails(m)
  BY <1>1, MessageInv
<1>2. CASE Crash \/ \E m \in Msgs : DieOnNull(m)
  <2>1. TypeOK'
    BY <1>2, ConsumerConstantsOK DEF Crash, DieOnNull, Restart, Inv, TypeOK, Places
  <2>2. \A m \in Msgs :
          \/ msg'[m] = msg[m] /\ msg[m] \notin {"inserted", "handled"}
          \/ msg'[m] = "ready"
    BY <1>2 DEF Crash, DieOnNull, Restart, Unacked
  <2>3. UNCHANGED <<processed, effects>>
    BY <1>2 DEF Crash, DieOnNull
  <2> QED
    BY <2>1, <2>2, <2>3
       DEF Inv, RecordedOnceWithEffects, OneTransactionPerEvent, OpenIsUnrecorded,
           HandledIsRecorded, OthersAreClosed, HasHandler
<1>3. CASE UNCHANGED vars
  BY <1>3 DEF vars, Inv, TypeOK, RecordedOnceWithEffects, OneTransactionPerEvent,
              OpenIsUnrecorded, HandledIsRecorded, OthersAreClosed
<1> QED
  BY <1>1, <1>2, <1>3 DEF Next

LEMMA InvHolds == Spec => []Inv
BY InitInv, NextInv, PTL DEF Spec

\* However often a message arrives, its effects and its record are committed
\* once, and together.
THEOREM EffectsOnce == Spec => []RecordedOnceWithEffects
<1>1. Inv => RecordedOnceWithEffects
  BY DEF Inv
<1> QED
  BY <1>1, InvHolds, PTL

\* An acknowledged message has its effects in the database.
THEOREM AckedAlwaysApplied == Spec => []AckedIsApplied
<1>1. Inv => AckedIsApplied
  BY ConsumerConstantsOK DEF Inv, HandledIsRecorded, RecordedOnceWithEffects, AckedIsApplied
<1> QED
  BY <1>1, InvHolds, PTL

-----------------------------------------------------------------------------
(* Refinement: only Commit, Ack and the ways into the dead-letter queue are *)
(* visible in the inbox.                                                    *)

Outcomes == [m \in Msgs |-> IF msg[m] \in {"acked", "dead"} THEN msg[m] ELSE "pending"]

\* A move between two places inside the consumer is a stutter of the inbox.
LEMMA InnerMove ==
    ASSUME TypeOK, NEW m \in Msgs, NEW p \in Places \ {"acked", "dead"}, Move(m, p),
           msg[m] \notin {"acked", "dead"}
    PROVE  Outcomes' = Outcomes
BY MoveOne DEF Outcomes

\* A move out of the consumer sets one outcome.
LEMMA OuterMove ==
    ASSUME TypeOK, NEW m \in Msgs, NEW p \in {"acked", "dead"}, Move(m, p),
           msg[m] \notin {"acked", "dead"}
    PROVE  Outcomes[m] = "pending" /\ Outcomes' = [Outcomes EXCEPT ![m] = p]
<1>1. msg'[m] = p /\ \A n \in Msgs \ {m} : msg'[n] = msg[n]
  BY MoveOne DEF Places
<1> QED
  BY <1>1 DEF Outcomes

LEMMA StepRefines ==
    ASSUME Inv, Inv', Next
    PROVE  Inbox!Next \/ UNCHANGED <<effects, Outcomes>>
<1>a. TypeOK
  BY DEF Inv
<1>1. ASSUME NEW m \in Msgs, Deliver(m)
      PROVE  UNCHANGED <<effects, Outcomes>>
  BY <1>1, <1>a, InnerMove DEF Deliver, Places
<1>2. ASSUME NEW m \in Msgs, Dispatch(m)
      PROVE  Inbox!Next \/ UNCHANGED <<effects, Outcomes>>
  <2>1. CASE Kind[m] = "malformed" /\ Move(m, "dead")
    <3>1. Outcomes[m] = "pending" /\ Outcomes' = [Outcomes EXCEPT ![m] = "dead"]
      BY <1>2, <1>a, <2>1, OuterMove DEF Dispatch
    <3>2. Inbox!DeadLetter(m)
      BY <1>2, <2>1, <3>1 DEF Dispatch, Inbox!DeadLetter, Outcomes
    <3> QED
      BY <3>2 DEF Inbox!Next
  <2>2. CASE Move(m, "handled")
    BY <1>2, <1>a, <2>2, InnerMove DEF Dispatch, Places
  <2> QED
    BY <1>2, <2>1, <2>2 DEF Dispatch, Discarded
<1>3. ASSUME NEW m \in Msgs, RecordIfNew(m)
      PROVE  UNCHANGED <<effects, Outcomes>>
  BY <1>3, <1>a, InnerMove DEF RecordIfNew, Places
<1>4. ASSUME NEW m \in Msgs, Commit(m)
      PROVE  Inbox!Next
  <2> DEFINE e == EventOf[m]
  <2>1. e \in Events /\ effects[e] = 0
    BY <1>4, ConsumerConstantsOK DEF Commit, Inv, OpenIsUnrecorded, RecordedOnceWithEffects
  <2>2. effects' = [effects EXCEPT ![e] = 1]
    BY <1>4, <2>1 DEF Commit
  <2>3. Outcomes' = Outcomes
    BY <1>4, <1>a, InnerMove DEF Commit, Places
  <2>4. Inbox!Apply(e)
    BY <2>1, <2>2, <2>3 DEF Inbox!Apply, Outcomes
  <2> QED
    BY <2>1, <2>4 DEF Inbox!Next
<1>5. ASSUME NEW m \in Msgs, Ack(m)
      PROVE  Inbox!Next
  <2>1. Outcomes[m] = "pending" /\ Outcomes' = [Outcomes EXCEPT ![m] = "acked"]
    BY <1>5, <1>a, OuterMove DEF Ack
  <2>2. \/ Kind[m] = "unknown"
        \/ Kind[m] \in {"valid", "poison"} /\ effects[EventOf[m]] = 1
    BY <1>5, ConsumerConstantsOK
       DEF Ack, Inv, HandledIsRecorded, OthersAreClosed, RecordedOnceWithEffects, HasHandler, Kinds
  <2>3. Inbox!Acknowledge(m)
    BY <1>5, <2>1, <2>2 DEF Ack, Inbox!Acknowledge, Outcomes
  <2> QED
    BY <2>3 DEF Inbox!Next
<1>6. ASSUME NEW m \in Msgs, HandlerFails(m)
      PROVE  Inbox!Next \/ UNCHANGED <<effects, Outcomes>>
  <2>1. CASE Move(m, "dead")
    <3>1. Outcomes[m] = "pending" /\ Outcomes' = [Outcomes EXCEPT ![m] = "dead"]
      BY <1>6, <1>a, <2>1, OuterMove DEF HandlerFails
    <3>2. Inbox!DeadLetter(m)
      BY <1>6, <3>1 DEF HandlerFails, HasHandler, Inbox!DeadLetter, Outcomes
    <3> QED
      BY <3>2 DEF Inbox!Next
  <2>2. CASE Move(m, "ready")
    BY <1>6, <1>a, <2>2, InnerMove DEF HandlerFails, Places
  <2> QED
    BY <1>6, <2>1, <2>2 DEF HandlerFails, AfterFailure, Discarded
<1>7. CASE Crash \/ \E m \in Msgs : DieOnNull(m)
  BY <1>7 DEF Crash, DieOnNull, Restart, Unacked, Outcomes
<1> QED
  BY <1>1, <1>2, <1>3, <1>4, <1>5, <1>6, <1>7 DEF Next, Progress

\* The consumer does what auth-service may rely on.
THEOREM ConsumerImplementsInbox == Spec => InboxSpec
<1>1. Init => Inbox!Init
  BY DEF Init, Inbox!Init
<1>2. Inv /\ Inv' /\ [Next]_vars => [Inbox!Next]_(Inbox!inbox)
  <2>1. Next /\ Inv /\ Inv' => Inbox!Next \/ UNCHANGED <<effects, Outcomes>>
    BY StepRefines
  <2>2. UNCHANGED vars => UNCHANGED <<effects, Outcomes>>
    BY DEF vars, Outcomes
  <2>3. UNCHANGED <<effects, Outcomes>> => UNCHANGED Inbox!inbox
    BY DEF Inbox!inbox, Outcomes
  <2> QED
    BY <2>1, <2>2, <2>3
<1> QED
  BY <1>1, <1>2, InvHolds, PTL DEF Spec, InboxSpec, Inbox!Spec

-----------------------------------------------------------------------------
(* Order: the broker pushes the oldest ready message, so whatever is older  *)
(* than it and not settled holds a slot.  Starvation: an endless message    *)
(* never settles, so those older than a starved one leave no slot for it.   *)

OlderUnsettled(m) == {n \in Msgs : n < m /\ Unsettled(n)}

RecordedAreValid ==
    \A e \in processed : \E m \in Msgs : Kind[m] = "valid" /\ EventOf[m] = e

EndlessStay ==
    \A m \in Msgs : Endless(m) => msg[m] \in {"ready", "delivered", "inserted"}

QueueInv == RecordedAreValid /\ EndlessStay /\ OvertakingIsBounded

LEMMA MsgsFinite == IsFiniteSet(Msgs) /\ \A S \in SUBSET Msgs : IsFiniteSet(S) /\ Cardinality(S) \in Nat
<1>1. IsFiniteSet(Msgs)
  BY ConsumerConstantsOK, FS_Interval DEF Msgs
<1> QED
  BY <1>1, FS_Subset, FS_CardinalityType

\* A subset of a set of messages has no more than the whole.
LEMMA FewerMsgs ==
    ASSUME NEW S \in SUBSET Msgs, NEW T \in SUBSET S
    PROVE  Cardinality(T) <= Cardinality(S)
BY MsgsFinite, FS_Subset

\* The message that is pushed overtakes only messages that hold a slot.
LEMMA DeliveredOvertakesFew ==
    ASSUME TypeOK, NEW m \in Msgs, Deliver(m)
    PROVE  Cardinality(OlderUnsettled(m)) < Prefetch
<1>1. OlderUnsettled(m) \subseteq Unacked
  BY ConsumerConstantsOK DEF OlderUnsettled, Unsettled, Unacked, Deliver, TypeOK, Places, Msgs
<1>2. Unacked \subseteq Msgs
  BY DEF Unacked
<1>3. Cardinality(OlderUnsettled(m)) <= Cardinality(Unacked)
  BY <1>1, <1>2, FewerMsgs
<1>4. Cardinality(OlderUnsettled(m)) \in Nat /\ Cardinality(Unacked) \in Nat
  BY <1>1, <1>2, MsgsFinite
<1> QED
  BY <1>3, <1>4, ConsumerConstantsOK DEF Deliver, HasRoom

\* Nothing that is settled becomes unsettled, and only a delivery takes a
\* message out of the queue: the bound is kept.
LEMMA BoundKept ==
    ASSUME OvertakingIsBounded,
           \A n \in Msgs : Unsettled(n)' => Unsettled(n),
           \A n \in Msgs : Served(n)' => Served(n) \/ Cardinality(OlderUnsettled(n)) < Prefetch
    PROVE  OvertakingIsBounded'
<1> SUFFICES ASSUME NEW m \in Msgs, Served(m)'
             PROVE  Cardinality(OlderUnsettled(m)') < Prefetch
  BY DEF OvertakingIsBounded, OlderUnsettled
<1>1. Cardinality(OlderUnsettled(m)) < Prefetch
  BY DEF OvertakingIsBounded, OlderUnsettled
<1>2. OlderUnsettled(m) \in SUBSET Msgs /\ OlderUnsettled(m)' \in SUBSET OlderUnsettled(m)
  BY DEF OlderUnsettled
<1>3. Cardinality(OlderUnsettled(m)') <= Cardinality(OlderUnsettled(m))
  BY <1>2, FewerMsgs
<1>4. Cardinality(OlderUnsettled(m)') \in Nat /\ Cardinality(OlderUnsettled(m)) \in Nat
  BY <1>2, MsgsFinite
<1> QED
  BY <1>1, <1>3, <1>4, ConsumerConstantsOK

\* One message moves: the queue keeps its invariant if the message is not
\* settled, is not pushed past too many, and, when it is endless, moves within
\* the loop of its deliveries.
LEMMA QueueMove ==
    ASSUME TypeOK, QueueInv, NEW m \in Msgs, NEW p \in Places, Move(m, p),
           RecordedAreValid', Unsettled(m),
           Served(m) \/ Cardinality(OlderUnsettled(m)) < Prefetch,
           Endless(m) => p \in {"ready", "delivered", "inserted"}
    PROVE  QueueInv'
<1>1. msg'[m] = p /\ \A n \in Msgs \ {m} : msg'[n] = msg[n]
  BY MoveOne
<1>2. EndlessStay'
  BY <1>1 DEF QueueInv, EndlessStay, Endless
<1>3. \A n \in Msgs : Unsettled(n)' => Unsettled(n)
  BY <1>1 DEF Unsettled
<1>4. \A n \in Msgs \ {m} : Served(n)' => Served(n)
  BY <1>1 DEF Served
<1>5. OvertakingIsBounded'
  BY <1>3, <1>4, BoundKept DEF QueueInv
<1> QED
  BY <1>2, <1>5 DEF QueueInv

LEMMA MessageQueueInv ==
    ASSUME Inv, QueueInv, NEW m \in Msgs, Deliver(m) \/ Progress(m) \/ HandlerFails(m)
    PROVE  QueueInv'
<1> USE DEF Unsettled, Served
<1>a. TypeOK
  BY DEF Inv
<1>b. UNCHANGED processed => RecordedAreValid'
  BY DEF QueueInv, RecordedAreValid
<1>1. CASE Deliver(m)
  BY <1>1, <1>a, <1>b, DeliveredOvertakesFew, QueueMove DEF Deliver, Places
<1>2. CASE Dispatch(m)
  BY <1>2, <1>a, <1>b, QueueMove DEF Dispatch, Discarded, Places, Endless
<1>3. CASE RecordIfNew(m)
  <2>1. Endless(m) => ~AlreadyRecorded(m)
    BY DEF Endless, AlreadyRecorded, DedupKey, QueueInv, RecordedAreValid
  <2> QED
    BY <1>3, <1>a, <1>b, <2>1, QueueMove DEF RecordIfNew, Places
<1>4. CASE Commit(m)
  <2>1. RecordedAreValid'
    BY <1>4 DEF Commit, DedupKey, QueueInv, RecordedAreValid
  <2> QED
    BY <1>4, <1>a, <2>1, QueueMove DEF Commit, Places, Endless
<1>5. CASE Ack(m)
  <2>1. ~Endless(m)
    BY <1>5 DEF Ack, QueueInv, EndlessStay
  <2> QED
    BY <1>5, <1>a, <1>b, <2>1, QueueMove DEF Ack, Places
<1>6. CASE HandlerFails(m)
  <2>1. Endless(m) => AfterFailure(m) = "ready"
    BY ConsumerConstantsOK DEF Endless, AfterFailure, MaxAttempts
  <2> QED
    BY <1>6, <1>a, <1>b, <2>1, QueueMove DEF HandlerFails, AfterFailure, Discarded, Places
<1> QED
  BY <1>1, <1>2, <1>3, <1>4, <1>5, <1>6 DEF Progress

LEMMA QueueInvHolds == Spec => []QueueInv
<1>1. Init => QueueInv
  BY DEF Init, QueueInv, RecordedAreValid, EndlessStay, Endless, OvertakingIsBounded, Served
<1>2. Inv /\ QueueInv /\ [Next]_vars => QueueInv'
  <2> SUFFICES ASSUME Inv, QueueInv, [Next]_vars PROVE QueueInv'
    OBVIOUS
  <2>1. CASE \E m \in Msgs : Deliver(m) \/ Progress(m) \/ HandlerFails(m)
    BY <2>1, MessageQueueInv
  <2>2. CASE Crash \/ (\E m \in Msgs : DieOnNull(m)) \/ UNCHANGED vars
    <3>1. /\ processed' = processed
          /\ \A m \in Msgs : msg'[m] = msg[m] \/ (m \in Unacked /\ msg'[m] = "ready")
      BY <2>2 DEF Crash, DieOnNull, Restart, vars
    <3>2. RecordedAreValid' /\ EndlessStay'
      BY <3>1 DEF QueueInv, RecordedAreValid, EndlessStay, Endless
    <3>3. OvertakingIsBounded'
      BY <3>1, BoundKept DEF QueueInv, Unsettled, Served, Unacked
    <3> QED
      BY <3>2, <3>3 DEF QueueInv
  <2> QED
    BY <2>1, <2>2 DEF Next
<1> QED
  BY <1>1, <1>2, InvHolds, PTL DEF Spec

\* How far messages get out of order, for any prefetch limit, through requeues
\* and crashes: what is out or settled has fewer than Prefetch unsettled ones
\* before it.
THEOREM OvertakingBounded == Spec => []OvertakingIsBounded
<1>1. QueueInv => OvertakingIsBounded
  BY DEF QueueInv
<1> QED
  BY <1>1, QueueInvHolds, PTL

\* Endless messages, as many as the prefetch limit, starve the queue behind them:
\* neither crashes nor anybody's progress frees a slot for it.
THEOREM StarvedStayQueued == Spec => []StarvedAreNeverServed
<1>1. QueueInv => StarvedAreNeverServed
  <2> SUFFICES ASSUME QueueInv, NEW m \in Msgs, Starved(m), Served(m)
               PROVE  FALSE
    BY DEF StarvedAreNeverServed
  <2> DEFINE Ahead == {n \in Msgs : n < m /\ Endless(n)}
  <2>1. OlderUnsettled(m) \in SUBSET Msgs /\ Ahead \in SUBSET OlderUnsettled(m)
    BY DEF OlderUnsettled, Unsettled, QueueInv, EndlessStay
  <2>2. Cardinality(Ahead) <= Cardinality(OlderUnsettled(m))
    BY <2>1, FewerMsgs
  <2>3. Cardinality(Ahead) \in Nat /\ Cardinality(OlderUnsettled(m)) \in Nat
    BY <2>1, MsgsFinite
  <2>4. Cardinality(OlderUnsettled(m)) < Prefetch /\ Prefetch <= Cardinality(Ahead)
    BY DEF QueueInv, OvertakingIsBounded, OlderUnsettled, Starved
  <2> HIDE DEF Ahead
  <2> QED
    BY <2>2, <2>3, <2>4, ConsumerConstantsOK
<1> QED
  BY <1>1, QueueInvHolds, PTL

\* Type correctness, for any queue.
THEOREM TypeCorrect == Spec => []TypeOK
<1>1. Inv => TypeOK
  BY DEF Inv
<1> QED
  BY <1>1, InvHolds, PTL
=============================================================================
