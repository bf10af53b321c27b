------------------------- MODULE UserEventsConsumer -------------------------
(***************************************************************************)
(* The user-events consumer between RabbitMQ and Postgres: deliveries up   *)
(* to the prefetch limit, dispatch on the message, the dedup record and    *)
(* the effects of the event in one transaction, ack, nack with requeue,    *)
(* and the dead-letter queue.  What the effects are is left to the modules *)
(* of the handlers: here they are counted.                                 *)
(*                                                                         *)
(* RabbitMQ gives an unacknowledged message back to its old place in the   *)
(* queue, so the queue is the set of ready messages in publishing order.   *)
(* Postgres makes an insert of an event id wait while another transaction  *)
(* holds an uncommitted insert of it.                                      *)
(***************************************************************************)
EXTENDS Naturals, FiniteSets

CONSTANTS
    NumMsgs,      \* messages are numbered in publishing order
    Events,       \* event ids
    Kind,         \* what each message turns out to be
    EventOf,      \* the event id of each message; duplicates share it
    Header,       \* x-attempt as the publisher set it; 0 when absent
    Prefetch,     \* channel.prefetch
    MaxFailures,  \* transient database failures per message (bound)
    MaxCrashes    \* crashes of the process (bound)

Msgs == 1..NumMsgs

\* valid: a known type the handler can apply.  poison: a known type whose data
\* makes the handler throw every time.  unknown: another type.  malformed: no JSON.
\* null: the JSON text null, which has no fields to read.
Kinds == {"valid", "poison", "unknown", "malformed", "null"}

MaxAttempts == 3

ASSUME ConsumerConstantsOK ==
    /\ NumMsgs \in Nat
    /\ Kind \in [Msgs -> Kinds]
    /\ EventOf \in [Msgs -> Events]
    /\ Header \in [Msgs -> Nat]
    /\ Prefetch \in Nat \ {0}
    /\ MaxFailures \in Nat
    /\ MaxCrashes \in Nat

VARIABLES
    msg,        \* where each message is
    processed,  \* processed_events: the ids recorded by committed transactions
    effects,    \* history: how often the effects of each event were committed
    failures,   \* history: failed deliveries of each message, up to the bound
    crashes     \* crashes so far

vars == <<msg, processed, effects, failures, crashes>>

-----------------------------------------------------------------------------
\* ready: in the queue; delivered: handed to the callback; inserted: its
\* transaction holds the dedup record; handled: the handler has returned.
\* absent: a null message that nobody has published.
Places == {"ready", "delivered", "inserted", "handled", "acked", "dead", "absent"}

Unacked == {m \in Msgs : msg[m] \in {"delivered", "inserted", "handled"}}

HasHandler(m) == Kind[m] \in {"valid", "poison"}

TypeOK ==
    /\ msg \in [Msgs -> Places]
    /\ processed \subseteq Events
    /\ effects \in [Events -> Nat]
    /\ failures \in [Msgs -> Nat]
    /\ crashes \in 0..MaxCrashes

Init ==
    /\ msg \in [Msgs -> {"ready", "absent"}]
    /\ \A m \in Msgs : msg[m] = "absent" => Kind[m] = "null"
    /\ processed = {}
    /\ effects = [e \in Events |-> 0]
    /\ failures = [m \in Msgs |-> 0]
    /\ crashes = 0

-----------------------------------------------------------------------------
Move(m, place) == msg' = [msg EXCEPT ![m] = place]

\* A channel without prefetch limit (mutant).
NoLimit == TRUE

HasRoom == Cardinality(Unacked) < Prefetch

\* The broker pushes the oldest ready message while fewer than Prefetch are unacked.
Deliver(m) ==
    /\ msg[m] = "ready"
    /\ \A n \in Msgs : msg[n] = "ready" => m <= n
    /\ HasRoom
    /\ Move(m, "delivered")
    /\ UNCHANGED <<processed, effects, failures, crashes>>

\* A malformed message left without nack, a queue without dead-letter routing, no
\* dedup check (mutants).
Undisposed == "delivered"
Dropped == "dropped"
NeverSeen(m) == FALSE

\* Where a nack without requeue takes a message.
Discarded == "dead"

\* The key recorded in processed_events.
DedupKey(m) == EventOf[m]

\* The insert of the key hits a committed record: P2002, recordIfNew returns false.
AlreadyRecorded(m) == DedupKey(m) \in processed

\* No open transaction holds an insert of the same key.
KeyIsFree(m) == \A n \in Msgs : msg[n] = "inserted" => DedupKey(n) # DedupKey(m)

\* The catch block reads the attempts from the header of the message, which a
\* requeue leaves as it is.
AfterFailure(m) == IF Header[m] >= MaxAttempts THEN Discarded ELSE "ready"

\* Malformed JSON is nacked without requeue, an unknown type is ignored.
Dispatch(m) ==
    /\ msg[m] = "delivered"
    /\ \/ Kind[m] = "malformed" /\ Move(m, Discarded)
       \/ Kind[m] = "unknown" /\ Move(m, "handled")
    /\ UNCHANGED <<processed, effects, failures, crashes>>

\* recordIfNew.  The insert of an id in use by an open transaction waits; an
\* id already recorded makes the handler return at once.
RecordIfNew(m) ==
    /\ msg[m] = "delivered"
    /\ HasHandler(m)
    /\ KeyIsFree(m)
    /\ \/ AlreadyRecorded(m) /\ Move(m, "handled")
       \/ ~AlreadyRecorded(m) /\ Move(m, "inserted")
    /\ UNCHANGED <<processed, effects, failures, crashes>>

\* The side effects and the dedup record become visible together.
Commit(m) ==
    /\ msg[m] = "inserted"
    /\ Kind[m] = "valid"
    /\ processed' = processed \cup {DedupKey(m)}
    /\ effects' = [effects EXCEPT ![EventOf[m]] = @ + 1]
    /\ Move(m, "handled")
    /\ UNCHANGED <<failures, crashes>>

Ack(m) ==
    /\ msg[m] = "handled"
    /\ Move(m, "acked")
    /\ UNCHANGED <<processed, effects, failures, crashes>>

\* The handler throws, its transaction rolls back, and the catch block nacks.
HandlerFails(m) ==
    /\ msg[m] \in {"delivered", "inserted"}
    /\ HasHandler(m)
    /\ \/ Kind[m] = "poison" /\ msg[m] = "inserted"
       \/ failures[m] < MaxFailures
    /\ Move(m, AfterFailure(m))
    /\ failures' = [failures EXCEPT ![m] = IF @ <= MaxAttempts + 1 THEN @ + 1 ELSE @]
    /\ UNCHANGED <<processed, effects, crashes>>

\* The process dies and is restarted: open transactions roll back, the broker
\* requeues what was not acknowledged.
Restart == msg' = [m \in Msgs |-> IF m \in Unacked THEN "ready" ELSE msg[m]]

Crash ==
    /\ crashes < MaxCrashes
    /\ Unacked # {}
    /\ crashes' = crashes + 1
    /\ Restart
    /\ UNCHANGED <<processed, effects, failures>>

\* The dispatch of null throws, and so does the catch block, which reads the
\* eventId of null: nobody handles the rejection and the process dies, at every
\* delivery of it.
DieOnNull(m) ==
    /\ msg[m] = "delivered"
    /\ Kind[m] = "null"
    /\ Restart
    /\ UNCHANGED <<processed, effects, failures, crashes>>

Progress(m) == Dispatch(m) \/ RecordIfNew(m) \/ Commit(m) \/ Ack(m)

Next ==
    \/ \E m \in Msgs : Deliver(m) \/ Progress(m) \/ HandlerFails(m) \/ DieOnNull(m)
    \/ Crash

Spec == Init /\ [][Next]_vars

\* The event loop and the database get on with what was delivered.  The
\* broker pushes as soon as a slot is free, well before the transaction that
\* freed the way has ended: strong fairness, because a message behind one that
\* keeps failing is deliverable only while that one is out.  A poison handler
\* throws in the end.  All this assumes a channel that stays open and a broker
\* that does not cancel the consumer: the service reopens neither, and goes on
\* answering /healthz with 200.
Fairness ==
    \A m \in Msgs :
        /\ WF_vars(Progress(m))
        /\ SF_vars(Deliver(m))
        /\ WF_vars(Kind[m] = "poison" /\ HandlerFails(m))

FairSpec == Spec /\ Fairness

-----------------------------------------------------------------------------
(* Properties *)

\* README "idempotent": redeliveries, duplicates and crashes between commit
\* and ack apply an event at most once, and never after only its record.
RecordedOnceWithEffects ==
    \A e \in Events : effects[e] = (IF e \in processed THEN 1 ELSE 0)

\* No acknowledged message leaves its event unapplied.
AckedIsApplied ==
    \A m \in Msgs : HasHandler(m) /\ msg[m] = "acked" => effects[EventOf[m]] = 1

Unsettled(m) == msg[m] \notin {"acked", "dead", "absent"}

Served(m) == msg[m] \notin {"ready", "absent"}

\* A message that has been delivered and not requeued since has overtaken fewer
\* older ones than the prefetch limit: requeues, which return to the head of the
\* queue, and crashes let nobody pass in between.
OvertakingIsBounded ==
    \A m \in Msgs :
        Served(m) => Cardinality({n \in Msgs : n < m /\ Unsettled(n)}) < Prefetch

\* A poison message below the limit, whose event no other message can apply:
\* every delivery of it fails and is requeued.
Endless(m) ==
    /\ Kind[m] = "poison"
    /\ Header[m] < MaxAttempts
    /\ \A n \in Msgs : Kind[n] = "valid" => EventOf[n] # EventOf[m]

\* The endless messages older than m can fill every slot.
Starved(m) == Cardinality({n \in Msgs : n < m /\ Endless(n)}) >= Prefetch

\* Nobody is served from behind as many endless messages as the prefetch limit,
\* however often they are requeued and whatever crashes.
StarvedAreNeverServed == \A m \in Msgs : Starved(m) => ~Served(m)

\* With fewer, every message that is not poison leaves a queue that holds no null.
HealthySettle ==
    (\A n \in Msgs : Kind[n] = "null" => msg[n] = "absent") =>
        \A m \in Msgs :
            Kind[m] \notin {"poison", "null"} /\ ~Starved(m) => <>[](msg[m] \in {"acked", "dead"})

\* README "3-retry policy via Rabbit nack": a first try and three retries.
RetriesAreLimited == \A m \in Msgs : failures[m] <= MaxAttempts + 1

\* The abstract inbox, with the position of a message reduced to its outcome.
Inbox == INSTANCE EventInbox WITH
    outcome <- [m \in Msgs |-> IF msg[m] \in {"acked", "dead"} THEN msg[m] ELSE "pending"]

InboxSpec == Inbox!Spec
=============================================================================
