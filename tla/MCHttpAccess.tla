---------------------------- MODULE MCHttpAccess ----------------------------
(* The calls of the access run. *)
EXTENDS HttpAccess

UserToken(sub, role) ==
    [key |-> "user", expired |-> FALSE, sub |-> sub, aud |-> "other", role |-> role]

ServiceToken(sub, aud) ==
    [key |-> "service", expired |-> FALSE, sub |-> sub, aud |-> aud, role |-> "none"]

\* Every header may hold any of these, also the one meant for the other.
SampleHeaders ==
    {NoToken, [UserToken("uuid", "driver") EXCEPT !.expired = TRUE],
     [ServiceToken("svc", "user-service") EXCEPT !.key = "other"]}
    \cup {UserToken("uuid", a) : a \in {"customer", "driver", "admin", "none"}}
    \cup {UserToken(s, a) : s \in {"hexdash", "text"}, a \in {"driver", "admin"}}
    \cup {ServiceToken(s, a) : s \in {"svc", "uuid"}, a \in {"user-service", "other"}}

Text(n) == [length |-> n, trimmed |-> n, letters |-> TRUE, storable |-> TRUE]

\* An ordinary value, and the values at and beyond every limit of the field.
Ordinary(f) == IF f \in AngleFields THEN [angle |-> 0] ELSE Text(IF f = "country" THEN 2 ELSE 10)

AtLimits(f) ==
    IF f \in AngleFields
    THEN {[angle |-> n] : n \in {-AngleLimit[f] - 1, -AngleLimit[f], AngleLimit[f] - 4,
                               AngleLimit[f], AngleLimit[f] + 1}}
    ELSE {Text(n) : n \in {SchemaMin[f] - 1, SchemaMin[f], SchemaMax[f], SchemaMax[f] + 1}}
         \cup {[Text(SchemaMin[f]) EXCEPT !.trimmed = 0],
               [Text(SchemaMax[f]) EXCEPT !.letters = FALSE],
               [Text(SchemaMax[f]) EXCEPT !.storable = FALSE]}

Deviations(f) == {Absent, Ordinary(f)} \cup AtLimits(f) \cup (IF f \in AngleFields THEN {} ELSE {Null})

\* Bodies of each schema, complete or empty but for one field.
SampleBodies ==
    LET empty == [f \in Fields |-> Absent]
        full(fs) == [f \in Fields |-> IF f \in fs THEN Ordinary(f) ELSE Absent]
    IN  {empty} \cup
        UNION {UNION {{[g EXCEPT ![f] = v] : g \in {empty, full(FieldsOf(route))}, v \in Deviations(f)} :
                         f \in FieldsOf(route)} : route \in PublicRoutes}
=============================================================================
