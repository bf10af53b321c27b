------------------------ MODULE MCUserEventsConsumer ------------------------
(* Queues of the consumer runs. *)
EXTENDS UserEventsConsumer

\* An event and its duplicate; a null message that may stand between them; a
\* poison message without the header, which nothing in the service sets; an
\* unknown type; malformed JSON; an event whose publisher set x-attempt to the
\* limit, so that a failure dead-letters it; a second poison message, which
\* together with the first fills the prefetch limit; and an event behind the two.
MixedKinds ==
    <<"valid", "null", "valid", "poison", "unknown", "malformed", "valid", "poison", "valid">>
MixedEvents  == <<"e1", "e1", "e1", "e2", "e3", "e3", "e3", "e4", "e5">>
MixedHeaders == <<0, 0, 0, 0, 0, 0, 3, 2, 0>>

\* A message that fails every time, and one behind it.
OnlyPoison       == <<"poison", "valid">>
OnlyPoisonEvents == <<"e1", "e2">>
OnlyPoisonHeader == <<0, 0>>
=============================================================================
