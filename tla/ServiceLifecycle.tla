-------------------------- MODULE ServiceLifecycle --------------------------
(***************************************************************************)
(* One process of the service from main() to its exit: the boot steps, the *)
(* readiness probe, and the shutdown that each signal starts on its own,   *)
(* interleaved with HTTP requests and event deliveries in progress.        *)
(*                                                                         *)
(* Node keeps a signal's default action, to end the process, until main    *)
(* has installed its handlers.  server.close stops accepting, and calls    *)
(* back when the last request has been answered, for every caller.         *)
(* channel.close makes every later use of the channel throw.               *)
(***************************************************************************)
CONSTANTS
    Reqs,      \* HTTP requests (bounds the run)
    Probes,    \* GET /readyz requests (bounds the run)
    Msgs,      \* event deliveries (bounds the run)
    Signals    \* SIGTERMs and SIGINTs (bounds the run)

VARIABLES
    stage,         \* the boot step main() is at
    channel,       \* the AMQP channel
    activeChannel, \* is the variable of that name not null?
    consuming,     \* does the broker push deliveries?
    listening,     \* does the HTTP server accept requests?
    shuttingDown,  \* the variable of that name
    shutdown,      \* how far each signal's shutdown() has come
    request,
    probe,
    delivery,
    exit           \* "no", or how the process ended

wiring == <<stage, channel, activeChannel, consuming, listening>>
work   == <<request, probe, delivery>>
ending == <<shuttingDown, shutdown, exit>>
vars   == <<wiring, work, ending>>

-----------------------------------------------------------------------------
\* wire: the channel exists, main() still waits for the delay exchange.
Stages == {"db", "amqp", "wire", "consumer", "listen", "up"}

\* cancel: awaits consumer.stop; close: awaits the close of channel and
\* connection; http: has called server.close and armed the timer.
Shutdowns == {"none", "cancel", "close", "http"}

TypeOK ==
    /\ stage \in Stages
    /\ channel \in {"none", "open", "closed"}
    /\ activeChannel \in BOOLEAN
    /\ consuming \in BOOLEAN
    /\ listening \in BOOLEAN
    /\ shuttingDown \in BOOLEAN
    /\ shutdown \in [Signals -> Shutdowns]
    /\ request \in [Reqs -> {"idle", "open", "answered"}]
    /\ probe \in [Probes -> {"idle", "db", "ready", "not_ready"}]
    /\ delivery \in [Msgs -> {"queued", "busy", "acked"}]
    /\ exit \in {"no", "0", "1", "signal"}

Init ==
    /\ stage = "db"
    /\ channel = "none"
    /\ activeChannel = FALSE
    /\ consuming = FALSE
    /\ listening = FALSE
    /\ shuttingDown = FALSE
    /\ shutdown = [s \in Signals |-> "none"]
    /\ request = [r \in Reqs |-> "idle"]
    /\ probe = [p \in Probes |-> "idle"]
    /\ delivery = [m \in Msgs |-> "queued"]
    /\ exit = "no"

Running == exit = "no"

Exit(code) == exit' = code /\ UNCHANGED <<shuttingDown, shutdown>>

-----------------------------------------------------------------------------
(* Boot *)

\* main() without its catch (mutant), and with it: a BootError exits with 1.
UncaughtBootError == "rejected"

BootErrorExit == "1"

BootFails ==
    /\ stage # "up"
    /\ Exit(BootErrorExit)
    /\ UNCHANGED <<wiring, work>>

ConnectDb ==
    /\ stage = "db"
    /\ stage' = "amqp"
    /\ UNCHANGED <<channel, activeChannel, consuming, listening, work, ending>>

\* connect() creates the channel and then tries the delay exchange on another.
CreateChannel ==
    /\ stage = "amqp"
    /\ stage' = "wire"
    /\ channel' = "open"
    /\ UNCHANGED <<activeChannel, consuming, listening, work, ending>>

\* The composition root takes the channel and listens to its close event,
\* which may have been emitted before.
WireChannel ==
    /\ stage = "wire"
    /\ stage' = "consumer"
    /\ activeChannel' = TRUE
    /\ UNCHANGED <<channel, consuming, listening, work, ending>>

\* assertQueue, bindQueue, prefetch and consume throw on a closed channel.
StartConsumer ==
    /\ stage = "consumer"
    /\ channel = "open"
    /\ stage' = "listen"
    /\ consuming' = TRUE
    /\ UNCHANGED <<channel, activeChannel, listening, work, ending>>

\* The signal handlers are installed in the turn in which listen resolves,
\* before any request can be accepted.
Listen ==
    /\ stage = "listen"
    /\ stage' = "up"
    /\ listening' = TRUE
    /\ UNCHANGED <<channel, activeChannel, consuming, work, ending>>

-----------------------------------------------------------------------------
(* Work *)

Accept(r) ==
    /\ listening
    /\ request[r] = "idle"
    /\ request' = [request EXCEPT ![r] = "open"]
    /\ UNCHANGED <<wiring, probe, delivery, ending>>

\* An open request need not be answered: the publisher may wait for 'drain'.
Answer(r) ==
    /\ request[r] = "open"
    /\ request' = [request EXCEPT ![r] = "answered"]
    /\ UNCHANGED <<wiring, probe, delivery, ending>>

StartProbe(p) ==
    /\ listening
    /\ probe[p] = "idle"
    /\ probe' = [probe EXCEPT ![p] = IF shuttingDown THEN "not_ready" ELSE "db"]
    /\ UNCHANGED <<wiring, request, delivery, ending>>

\* The query answers, fails or takes longer than 250 ms; the channel is read after it.
AnswerProbe(p) ==
    /\ probe[p] = "db"
    /\ \/ activeChannel /\ probe' = [probe EXCEPT ![p] = "ready"]
       \/ probe' = [probe EXCEPT ![p] = "not_ready"]
    /\ UNCHANGED <<wiring, request, delivery, ending>>

Deliver(m) ==
    /\ consuming
    /\ channel = "open"
    /\ delivery[m] = "queued"
    /\ delivery' = [delivery EXCEPT ![m] = "busy"]
    /\ UNCHANGED <<wiring, request, probe, ending>>

\* The handler is done.  On a closed channel ack throws, and then the nack of
\* the catch block: nobody handles the rejection and the process dies.
FinishDelivery(m) ==
    /\ delivery[m] = "busy"
    /\ \/ /\ channel = "open"
          /\ delivery' = [delivery EXCEPT ![m] = "acked"]
          /\ UNCHANGED <<request, probe, ending>>
       \/ /\ channel = "closed"
          /\ Exit("1")
          /\ UNCHANGED work
    /\ UNCHANGED wiring

\* A composition root that does not listen to the event (mutant).
DeafToClose == activeChannel

\* What the close event leaves in activeChannel; main() listens from "wire" on.
AfterChannelClose == activeChannel /\ stage = "wire"

BrokerClosesChannel ==
    /\ channel = "open"
    /\ channel' = "closed"
    /\ activeChannel' = AfterChannelClose
    /\ UNCHANGED <<stage, consuming, listening, work, ending>>

-----------------------------------------------------------------------------
(* Shutdown *)

\* A timer never armed, and the consumer and its channel left open (mutants).
NoTimer(s) == FALSE
SkipsAmqp(s) == shutdown' = [shutdown EXCEPT ![s] = "http"] /\ listening' = FALSE

HandlesSignals == stage = "up"

\* server.close: no more requests; its callback and the timer end the process.
CloseServer(s) ==
    /\ shutdown' = [shutdown EXCEPT ![s] = "http"]
    /\ listening' = FALSE

\* shutdown() up to the await of consumer.stop.
StopsConsumer(s) ==
    /\ shutdown' = [shutdown EXCEPT ![s] = "cancel"]
    /\ UNCHANGED listening

\* channel.cancel throws at once on a closed channel; the error is logged.
Signal(s) ==
    /\ shutdown[s] = "none"
    /\ \/ /\ ~HandlesSignals
          /\ Exit("signal")
          /\ UNCHANGED listening
       \/ /\ HandlesSignals
          /\ shuttingDown' = TRUE
          /\ IF channel = "open" THEN StopsConsumer(s) ELSE CloseServer(s)
          /\ UNCHANGED exit
    /\ UNCHANGED <<stage, channel, activeChannel, consuming, work>>

\* A channel that closes rejects the pending cancel (amqplib).
CancelRejected == channel = "closed"

\* The broker confirms the cancel and the channel is closed; or the channel
\* closed meanwhile.
ConsumerStopped(s) ==
    /\ shutdown[s] = "cancel"
    /\ \/ /\ channel = "open"
          /\ consuming' = FALSE
          /\ activeChannel' = FALSE
          /\ channel' = "closed"
          /\ shutdown' = [shutdown EXCEPT ![s] = "close"]
          /\ UNCHANGED listening
       \/ /\ CancelRejected
          /\ CloseServer(s)
          /\ UNCHANGED <<consuming, activeChannel, channel>>
    /\ UNCHANGED <<stage, shuttingDown, exit, work>>

\* The closes of channel and connection have ended, well or not.
AmqpClosed(s) ==
    /\ shutdown[s] = "close"
    /\ CloseServer(s)
    /\ UNCHANGED <<stage, channel, activeChannel, consuming, shuttingDown, exit, work>>

\* No request is in progress, a probe being one.
Drained ==
    /\ \A r \in Reqs : request[r] # "open"
    /\ \A p \in Probes : probe[p] # "db"

ServerClosed ==
    /\ \E s \in Signals : shutdown[s] = "http"
    /\ Drained
    /\ Exit("0")
    /\ UNCHANGED <<wiring, work>>

\* The timer of 10 s is armed after server.close only.
TimerArmed(s) == shutdown[s] = "http"

ForcedExit ==
    /\ \E s \in Signals : TimerArmed(s)
    /\ Exit("1")
    /\ UNCHANGED <<wiring, work>>

-----------------------------------------------------------------------------
Boot == BootFails \/ ConnectDb \/ CreateChannel \/ WireChannel \/ StartConsumer \/ Listen

Work ==
    \/ \E r \in Reqs : Accept(r) \/ Answer(r)
    \/ \E p \in Probes : StartProbe(p) \/ AnswerProbe(p)
    \/ \E m \in Msgs : Deliver(m) \/ FinishDelivery(m)

ShutdownStep(s) == ConsumerStopped(s) \/ AmqpClosed(s)

Gone == ~Running /\ UNCHANGED vars

Next ==
    \/ /\ Running
       /\ \/ Boot
          \/ Work
          \/ BrokerClosesChannel
          \/ \E s \in Signals : Signal(s) \/ ShutdownStep(s)
          \/ ServerClosed
          \/ ForcedExit
    \/ Gone

Spec == Init /\ [][Next]_vars

AmqpStep == \E s \in Signals : ShutdownStep(s)

\* The broker answers or its heartbeat fails, and the timer fires.  Nothing
\* says that a request is ever answered or a delivery ever done, nor which of
\* two overlapping shutdowns goes on.
FairSpec ==
    /\ Spec
    /\ WF_vars(Running /\ AmqpStep)
    /\ WF_vars(Running /\ ForcedExit)

-----------------------------------------------------------------------------
(* Properties *)

\* The exit code 0 of a shutdown means that every accepted request has been
\* answered, and that the broker can give this process no more deliveries,
\* however many signals overlap.
CleanExit == exit = "0" => Drained /\ channel = "closed"

\* A signal that ends the process by default cuts no HTTP request.
KilledBeforeServing == exit = "signal" => \A r \in Reqs : request[r] = "idle"

\* README "/readyz checks DB + RabbitMQ": a probe answers 200 only over an open
\* channel, also when it began before the channel closed or the shutdown started.
ReadyOverOpenChannel ==
    [][\A p \in Probes : probe[p] # "ready" /\ probe'[p] = "ready" => channel = "open"]_vars

\* Once shutting down the process ends, whatever requests and deliveries hang.
ShutdownEnds == shuttingDown ~> ~Running
=============================================================================
