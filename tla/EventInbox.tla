----------------------------- MODULE EventInbox -----------------------------
(***************************************************************************)
(* What the consumer promises auth-service: the effects of an event are    *)
(* applied at most once however often its message arrives, and a message   *)
(* that carries an event is acknowledged only after its effects are there. *)
(***************************************************************************)
EXTENDS Naturals

CONSTANTS Msgs, Events, Kind, EventOf

VARIABLES effects, outcome

inbox == <<effects, outcome>>

Init ==
    /\ effects = [e \in Events |-> 0]
    /\ outcome = [m \in Msgs |-> "pending"]

Apply(e) ==
    /\ effects[e] = 0
    /\ effects' = [effects EXCEPT ![e] = 1]
    /\ UNCHANGED outcome

\* An unknown event type is acknowledged and ignored; a message of a known one
\* only when its event has been applied, by this delivery or an earlier one.
Acknowledge(m) ==
    /\ outcome[m] = "pending"
    /\ Kind[m] = "unknown" \/ (Kind[m] \in {"valid", "poison"} /\ effects[EventOf[m]] = 1)
    /\ outcome' = [outcome EXCEPT ![m] = "acked"]
    /\ UNCHANGED effects

DeadLetter(m) ==
    /\ outcome[m] = "pending"
    /\ Kind[m] # "unknown"
    /\ outcome' = [outcome EXCEPT ![m] = "dead"]
    /\ UNCHANGED effects

Next ==
    \/ \E e \in Events : Apply(e)
    \/ \E m \in Msgs : Acknowledge(m) \/ DeadLetter(m)

Spec == Init /\ [][Next]_inbox
=============================================================================
