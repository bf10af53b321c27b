----------------------- MODULE ServiceLifecycle_proofs -----------------------
(***************************************************************************)
(* The safety properties of one process and the end of its shutdown, for   *)
(* any number of requests, probes, deliveries and overlapping signals.     *)
(*                                                                         *)
(* Nothing is served, and no shutdown runs, before main() is up; a         *)
(* shutdown that got past consumer.stop left the channel closed, and it    *)
(* stays closed; from the start of the consumer on, activeChannel is not   *)
(* null only while the channel is open.                                    *)
(***************************************************************************)
EXTENDS ServiceLifecycle, TLAPS

ServesOnlyWhenUp ==
    stage # "up" =>
        /\ ~listening
        /\ \A r \in Reqs : request[r] = "idle"
        /\ \A p \in Probes : probe[p] = "idle"
        /\ \A s \in Signals : shutdown[s] = "none"

PastStopIsClosed == \A s \in Signals : shutdown[s] \in {"close", "http"} => channel = "closed"

\* From the step "wire" on there is a channel.
ChannelExists == stage \in {"wire", "consumer", "listen", "up"} => channel # "none"

ActiveIsOpen == activeChannel /\ stage \in {"listen", "up"} => channel = "open"

Inv == TypeOK /\ ServesOnlyWhenUp /\ PastStopIsClosed /\ ChannelExists /\ ActiveIsOpen
             /\ CleanExit /\ KilledBeforeServing

LEMMA InitInv == Init => Inv
<1> SUFFICES ASSUME Init PROVE Inv
  OBVIOUS
<1>1. TypeOK
  BY DEF Init, TypeOK, Stages, Shutdowns
<1>2. ServesOnlyWhenUp /\ PastStopIsClosed /\ ChannelExists /\ ActiveIsOpen
  BY DEF Init, ServesOnlyWhenUp, PastStopIsClosed, ChannelExists, ActiveIsOpen
<1>3. CleanExit /\ KilledBeforeServing
  BY DEF Init, CleanExit, KilledBeforeServing
<1> QED
  BY <1>1, <1>2, <1>3 DEF Inv

\* The boot steps: nothing is in progress yet.
LEMMA BootInv ==
    ASSUME Inv, Running, Boot
    PROVE  Inv'
<1> USE DEF Inv, TypeOK, Stages, Shutdowns, ServesOnlyWhenUp, PastStopIsClosed, ChannelExists, ActiveIsOpen,
            CleanExit, KilledBeforeServing, Running, wiring, work, ending
<1>1. CASE BootFails
  BY <1>1 DEF BootFails, BootErrorExit, Exit
<1>2. CASE ConnectDb
  BY <1>2 DEF ConnectDb
<1>3. CASE CreateChannel
  BY <1>3 DEF CreateChannel
<1>4. CASE WireChannel
  BY <1>4 DEF WireChannel
<1>5. CASE StartConsumer
  BY <1>5 DEF StartConsumer
<1>6. CASE Listen
  BY <1>6 DEF Listen
<1> QED
  BY <1>1, <1>2, <1>3, <1>4, <1>5, <1>6 DEF Boot

\* Requests, probes and deliveries leave boot and shutdown alone, but for the
\* delivery that ends the process.
LEMMA WorkInv ==
    ASSUME Inv, Running, Work
    PROVE  Inv'
<1> USE DEF Inv, TypeOK, Stages, Shutdowns, ServesOnlyWhenUp, PastStopIsClosed, ChannelExists, ActiveIsOpen,
            CleanExit, KilledBeforeServing, Running, wiring, work, ending
<1>1. CASE \E r \in Reqs : Accept(r) \/ Answer(r)
  BY <1>1 DEF Accept, Answer
<1>2. CASE \E p \in Probes : StartProbe(p) \/ AnswerProbe(p)
  BY <1>2 DEF StartProbe, AnswerProbe
<1>3. CASE \E m \in Msgs : Deliver(m) \/ FinishDelivery(m)
  BY <1>3 DEF Deliver, FinishDelivery, Exit
<1> QED
  BY <1>1, <1>2, <1>3 DEF Work

\* The shutdowns, the end of the process, and the broker.
LEMMA EndInv ==
    ASSUME Inv, Running,
           \/ BrokerClosesChannel
           \/ \E s \in Signals : Signal(s) \/ ShutdownStep(s)
           \/ ServerClosed
           \/ ForcedExit
    PROVE  Inv'
<1> USE DEF Inv, TypeOK, Stages, Shutdowns, ServesOnlyWhenUp, PastStopIsClosed, ChannelExists, ActiveIsOpen,
            CleanExit, KilledBeforeServing, Running, wiring, work, ending
<1>1. CASE BrokerClosesChannel
  BY <1>1 DEF BrokerClosesChannel, AfterChannelClose
<1>2. ASSUME NEW s \in Signals, Signal(s)
      PROVE  Inv'
  <2>1. CASE ~HandlesSignals
    BY <1>2, <2>1 DEF Signal, HandlesSignals, Exit
  <2>2. CASE HandlesSignals /\ channel = "open"
    BY <1>2, <2>2 DEF Signal, HandlesSignals, StopsConsumer
  <2>3. CASE HandlesSignals /\ channel # "open"
    <3>1. channel = "closed"
      BY <2>3 DEF HandlesSignals
    <3> QED
      BY <1>2, <2>3, <3>1 DEF Signal, HandlesSignals, CloseServer
  <2> QED
    BY <2>1, <2>2, <2>3
<1>3. ASSUME NEW s \in Signals, ConsumerStopped(s)
      PROVE  Inv'
  <2>1. stage = "up" /\ stage' = "up" /\ UNCHANGED <<shuttingDown, exit, request, probe, delivery>>
    BY <1>3 DEF ConsumerStopped
  <2>2. channel' = "closed" /\ consuming' \in BOOLEAN /\ listening' \in BOOLEAN
    BY <1>3 DEF ConsumerStopped, CancelRejected, CloseServer
  <2>3. activeChannel' = FALSE
    BY <1>3, <2>1 DEF ConsumerStopped, CancelRejected
  <2>4. shutdown' \in [Signals -> Shutdowns]
    BY <1>3 DEF ConsumerStopped, CloseServer
  <2> QED
    BY <2>1, <2>2, <2>3, <2>4
<1>4. ASSUME NEW s \in Signals, AmqpClosed(s)
      PROVE  Inv'
  BY <1>4 DEF AmqpClosed, CloseServer
<1>5. CASE ServerClosed
  BY <1>5 DEF ServerClosed, Exit, Drained
<1>6. CASE ForcedExit
  BY <1>6 DEF ForcedExit, Exit
<1> QED
  BY <1>1, <1>2, <1>3, <1>4, <1>5, <1>6 DEF ShutdownStep

LEMMA NextInv == Inv /\ [Next]_vars => Inv'
<1> SUFFICES ASSUME Inv, [Next]_vars PROVE Inv'
  OBVIOUS
<1>1. CASE Running /\ Boot
  BY <1>1, BootInv
<1>2. CASE Running /\ Work
  BY <1>2, WorkInv
<1>3. CASE /\ Running
           /\ \/ BrokerClosesChannel
              \/ \E s \in Signals : Signal(s) \/ ShutdownStep(s)
              \/ ServerClosed
              \/ ForcedExit
  BY <1>3, EndInv
<1>4. CASE UNCHANGED vars
  BY <1>4 DEF vars, wiring, work, ending, Inv, TypeOK, ServesOnlyWhenUp, PastStopIsClosed,
              ChannelExists, ActiveIsOpen, CleanExit, KilledBeforeServing, Drained
<1> QED
  BY <1>1, <1>2, <1>3, <1>4 DEF Next, Gone

LEMMA InvHolds == Spec => []Inv
  BY InitInv, NextInv, PTL DEF Spec

\* A process that exits with 0 has answered every accepted request and closed
\* its channel, whatever signals overlapped (shutdown() in server.ts).
THEOREM ExitsClean == Spec => []CleanExit
<1>1. Inv => CleanExit
  BY DEF Inv
<1> QED
  BY <1>1, InvHolds, PTL

\* A signal that finds no handler yet cuts no request (the order in main()).
THEOREM SignalsCutNoRequest == Spec => []KilledBeforeServing
<1>1. Inv => KilledBeforeServing
  BY DEF Inv
<1> QED
  BY <1>1, InvHolds, PTL

\* /readyz answers 200 only over an open channel: the close event and shutdown()
\* null activeChannel in time for the probes that began before.
THEOREM ReadyMeansOpen == Spec => ReadyOverOpenChannel
<1> DEFINE Became(p) == probe[p] # "ready" /\ probe'[p] = "ready"
<1>1. ASSUME Inv, [Next]_vars, NEW p \in Probes, Became(p)
      PROVE  channel = "open"
  <2>1. probe'[p] # probe[p]
    BY <1>1
  <2>2. UNCHANGED probe \/ \E q \in Probes : StartProbe(q) \/ AnswerProbe(q)
    BY <1>1 DEF Next, Gone, Boot, Work, BootFails, ConnectDb, CreateChannel, WireChannel,
                StartConsumer, Listen, Accept, Answer, Deliver, FinishDelivery,
                BrokerClosesChannel, Signal, ShutdownStep, ConsumerStopped, AmqpClosed,
                ServerClosed, ForcedExit, work, vars
  <2>3. PICK q \in Probes : StartProbe(q) \/ AnswerProbe(q)
    BY <2>1, <2>2
  <2>4. activeChannel /\ probe[q] = "db"
    BY <1>1, <2>1, <2>3 DEF StartProbe, AnswerProbe, Inv, TypeOK
  <2> QED
    BY <1>1, <2>4 DEF Inv, ServesOnlyWhenUp, ActiveIsOpen
<1>2. Inv /\ [Next]_vars =>
          [\A p \in Probes : probe[p] # "ready" /\ probe'[p] = "ready" => channel = "open"]_vars
  BY <1>1
<1> QED
  BY <1>2, InvHolds, PTL DEF Spec, ReadyOverOpenChannel

\* Type correctness, for any number of requests, probes, deliveries and signals.
THEOREM TypeCorrect == Spec => []TypeOK
<1>1. Inv => TypeOK
  BY DEF Inv
<1> QED
  BY <1>1, InvHolds, PTL

-----------------------------------------------------------------------------
(* The shutdown ends *)

\* Past an accepted signal some shutdown() has begun.
SomeoneShutsDown == shuttingDown => \E s \in Signals : shutdown[s] # "none"

LEMMA ShutsDownNext == TypeOK /\ SomeoneShutsDown /\ [Next]_vars => SomeoneShutsDown'
<1> SUFFICES ASSUME TypeOK, SomeoneShutsDown, [Next]_vars
             PROVE  SomeoneShutsDown'
  OBVIOUS
<1> USE DEF TypeOK, SomeoneShutsDown
<1>1. CASE UNCHANGED <<shuttingDown, shutdown>>
  BY <1>1
<1>2. ASSUME NEW s \in Signals, Signal(s) \/ ShutdownStep(s)
      PROVE  SomeoneShutsDown'
  <2>1. UNCHANGED <<shuttingDown, shutdown>> \/ shutdown'[s] # "none"
    BY <1>2 DEF Signal, Exit, StopsConsumer, CloseServer, ShutdownStep, ConsumerStopped, AmqpClosed
  <2> QED
    BY <1>1, <2>1
<1> QED
  BY <1>1, <1>2 DEF Next, Gone, Boot, Work, BootFails, ConnectDb, CreateChannel, WireChannel,
     StartConsumer, Listen, Accept, Answer, StartProbe, AnswerProbe, Deliver, FinishDelivery,
     BrokerClosesChannel, ServerClosed, ForcedExit, Exit, ending, vars

LEMMA ShutsDownHolds == Spec => []SomeoneShutsDown
<1>1. Init => SomeoneShutsDown
  BY DEF Init, SomeoneShutsDown
<1>2. Inv => TypeOK
  BY DEF Inv
<1> QED
  BY <1>1, <1>2, ShutsDownNext, InvHolds, PTL DEF Spec

\* How a step moves the shutdowns: one by one, and never back.
LEMMA ShutdownsAdvance ==
    ASSUME Inv, [Next]_vars, NEW s \in Signals, shutdown[s] # "none"
    PROVE  \/ ~Running'
           \/ shutdown'[s] = shutdown[s]
           \/ channel = "closed" /\ shutdown'[s] = "http"
           \/ shutdown[s] = "cancel" /\ channel' = "closed" /\ shutdown'[s] = "close"
<1> USE DEF Inv, TypeOK
<1>1. CASE shutdown' = shutdown
  BY <1>1
<1>2. ASSUME NEW t \in Signals, Signal(t) \/ ConsumerStopped(t) \/ AmqpClosed(t)
      PROVE  \/ shutdown'[s] = shutdown[s]
             \/ channel = "closed" /\ shutdown'[s] = "http"
             \/ shutdown[s] = "cancel" /\ channel' = "closed" /\ shutdown'[s] = "close"
  BY <1>2 DEF Signal, Exit, StopsConsumer, CloseServer, ConsumerStopped, CancelRejected, AmqpClosed,
              PastStopIsClosed
<1> QED
  BY <1>1, <1>2 DEF Next, Gone, Boot, Work, BootFails, ConnectDb, CreateChannel, WireChannel,
     StartConsumer, Listen, Accept, Answer, StartProbe, AnswerProbe, Deliver, FinishDelivery,
     BrokerClosesChannel, ShutdownStep, ServerClosed, ForcedExit, Exit, ending, vars

\* The guards of AmqpStep and of ForcedExit.
BrokerCanAnswer ==
    /\ Running
    /\ \E s \in Signals : \/ shutdown[s] = "cancel" /\ (channel = "open" \/ CancelRejected)
                         \/ shutdown[s] = "close"

CanForce == Running /\ \E s \in Signals : TimerArmed(s)

\* The weak fairness of FairSpec, with ENABLED written out as those guards.
FairByGuards ==
    /\ []<>~BrokerCanAnswer \/ []<><<Running /\ AmqpStep>>_vars
    /\ []<>~CanForce \/ []<><<Running /\ ForcedExit>>_vars

AwaitsAmqp == Running /\ \E s \in Signals : shutdown[s] \in {"cancel", "close"}

\* The three places of a shutdown before the end: an await over an open
\* channel, an await over a closed one, and the armed timer.
AwaitsOpen   == AwaitsAmqp /\ channel = "open"
AwaitsClosed == AwaitsAmqp /\ channel = "closed"

LEMMA ShutdownIsSomewhere ==
    ASSUME Inv, SomeoneShutsDown, Running, shuttingDown
    PROVE  AwaitsOpen \/ AwaitsClosed \/ CanForce
<1>1. PICK s \in Signals : shutdown[s] # "none"
  BY DEF SomeoneShutsDown
<1>2. shutdown[s] \in {"cancel", "close", "http"}
  BY <1>1 DEF Inv, TypeOK, Shutdowns
<1>3. channel \in {"open", "closed"}
  BY <1>1 DEF Inv, TypeOK, ServesOnlyWhenUp, ChannelExists
<1> QED
  BY <1>2, <1>3 DEF AwaitsOpen, AwaitsClosed, AwaitsAmqp, CanForce, TimerArmed

LEMMA ClosedStaysClosed ==
    ASSUME Inv, [Next]_vars, NEW s \in Signals, shutdown[s] # "none", channel = "closed"
    PROVE  channel' = "closed"
<1>1. stage = "up"
  BY DEF Inv, ServesOnlyWhenUp
<1> QED
  BY <1>1 DEF Next, Gone, Boot, Work, BootFails, ConnectDb, CreateChannel, WireChannel,
     StartConsumer, Listen, Accept, Answer, StartProbe, AnswerProbe, Deliver, FinishDelivery,
     BrokerClosesChannel, Signal, ShutdownStep, ConsumerStopped, AmqpClosed, ServerClosed,
     ForcedExit, wiring, vars

\* An armed timer stays armed until the process ends.
LEMMA ForcePersists == Inv /\ CanForce /\ [Next]_vars => CanForce' \/ ~Running'
<1> SUFFICES ASSUME Inv, CanForce, [Next]_vars PROVE CanForce' \/ ~Running'
  OBVIOUS
<1>1. PICK s \in Signals : shutdown[s] = "http"
  BY DEF CanForce, TimerArmed
<1>2. ~Running' \/ shutdown'[s] = "http"
  BY <1>1, ShutdownsAdvance
<1> QED
  BY <1>2 DEF CanForce, TimerArmed

LEMMA ClosedPersists ==
    Inv /\ AwaitsClosed /\ [Next]_vars => AwaitsClosed' \/ CanForce' \/ ~Running'
<1> SUFFICES ASSUME Inv, AwaitsClosed, [Next]_vars
             PROVE  AwaitsClosed' \/ CanForce' \/ ~Running'
  OBVIOUS
<1>1. PICK s \in Signals : shutdown[s] \in {"cancel", "close"}
  BY DEF AwaitsClosed, AwaitsAmqp
<1>2. channel' = "closed"
  BY <1>1, ClosedStaysClosed DEF AwaitsClosed
<1>3. ~Running' \/ shutdown'[s] \in {"cancel", "close", "http"}
  BY <1>1, ShutdownsAdvance
<1> QED
  BY <1>2, <1>3 DEF AwaitsClosed, AwaitsAmqp, CanForce, TimerArmed

LEMMA OpenPersists ==
    Inv /\ AwaitsOpen /\ [Next]_vars => AwaitsOpen' \/ AwaitsClosed' \/ ~Running'
<1> SUFFICES ASSUME Inv, AwaitsOpen, [Next]_vars, Running'
             PROVE  AwaitsOpen' \/ AwaitsClosed'
  OBVIOUS
<1>1. PICK s \in Signals : shutdown[s] \in {"cancel", "close"}
  BY DEF AwaitsOpen, AwaitsAmqp
<1>2. shutdown'[s] \in {"cancel", "close"}
  BY <1>1, ShutdownsAdvance DEF AwaitsOpen
<1>3. stage' = "up" /\ Inv'
  BY <1>2, NextInv DEF Inv, ServesOnlyWhenUp
<1>4. channel' \in {"open", "closed"}
  BY <1>3 DEF Inv, TypeOK, ChannelExists
<1> QED
  BY <1>2, <1>4 DEF AwaitsOpen, AwaitsClosed, AwaitsAmqp

\* What the awaited answer does: it closes the channel, and when that is
\* closed already, it arms the timer.
LEMMA AnswerCloses ==
    Inv /\ AwaitsOpen /\ <<Running /\ AmqpStep>>_vars => AwaitsClosed' \/ ~Running'
<1> SUFFICES ASSUME Inv, AwaitsOpen, NEW s \in Signals, ShutdownStep(s)
             PROVE  AwaitsClosed'
  BY DEF AmqpStep
<1>1. ~AmqpClosed(s)
  BY DEF AmqpClosed, AwaitsOpen, Inv, PastStopIsClosed
<1>2. ConsumerStopped(s) /\ channel = "open"
  BY <1>1 DEF ShutdownStep, AwaitsOpen
<1> QED
  BY <1>2 DEF ConsumerStopped, CancelRejected, AwaitsClosed, AwaitsOpen, AwaitsAmqp, Running, Inv, TypeOK

LEMMA AnswerArms ==
    Inv /\ AwaitsClosed /\ <<Running /\ AmqpStep>>_vars => CanForce' \/ ~Running'
<1> SUFFICES ASSUME Inv, AwaitsClosed, NEW s \in Signals, ShutdownStep(s)
             PROVE  CanForce'
  BY DEF AmqpStep
<1> QED
  BY DEF ShutdownStep, ConsumerStopped, AmqpClosed, CloseServer, CancelRejected, CanForce, TimerArmed,
         AwaitsClosed, AwaitsAmqp, Running, Inv, TypeOK

LEMMA TimerEnds == CanForce /\ <<Running /\ ForcedExit>>_vars => ~Running'
  BY DEF ForcedExit, Exit, Running

\* Neither await of shutdown() can hang: over an open channel the broker may
\* answer, and a channel that closed meanwhile has rejected the call.
LEMMA AwaitsCanEnd == AwaitsOpen \/ AwaitsClosed => BrokerCanAnswer
  BY DEF AwaitsOpen, AwaitsClosed, AwaitsAmqp, BrokerCanAnswer, CancelRejected

\* A shutdown that has begun ends the process, for any number of overlapping
\* signals and whatever hangs: an await over an open channel ends with the
\* channel closed, one over a closed channel with the timer armed, and the
\* timer with the process.
THEOREM ShutdownsEnd == Spec /\ FairByGuards => ShutdownEnds
<1>1. Inv /\ SomeoneShutsDown => (shuttingDown => AwaitsOpen \/ AwaitsClosed \/ CanForce \/ ~Running)
  BY ShutdownIsSomewhere
<1>2. Spec /\ FairByGuards => (CanForce ~> ~Running)
  BY ForcePersists, TimerEnds, InvHolds, PTL DEF Spec, FairByGuards
<1>3. Spec /\ FairByGuards => (AwaitsClosed ~> CanForce \/ ~Running)
  BY AwaitsCanEnd, ClosedPersists, AnswerArms, InvHolds, PTL DEF Spec, FairByGuards
<1>4. Spec /\ FairByGuards => (AwaitsOpen ~> AwaitsClosed \/ ~Running)
  BY AwaitsCanEnd, OpenPersists, AnswerCloses, InvHolds, PTL DEF Spec, FairByGuards
<1> QED
  BY <1>1, <1>2, <1>3, <1>4, InvHolds, ShutsDownHolds, PTL DEF ShutdownEnds
=============================================================================
