-------------------------- MODULE RequestValidation --------------------------
(***************************************************************************)
(* The limits a value of a request body meets on its way into a row: the   *)
(* zod schema of the endpoint, the value object or assert of the entity,   *)
(* the column, and the value object again when the row is read.            *)
(*                                                                         *)
(* A text is what these checks see of it: its length, its length without   *)
(* the white space around it, whether it is ASCII letters only, and whether*)
(* Postgres can store it (it refuses U+0000).  A coordinate is a number of *)
(* ten-millionths of a degree; the columns keep six decimals.              *)
(***************************************************************************)
EXTENDS Integers

CONSTANTS
    Absent,     \* the body does not carry the field
    Null        \* JSON null

Texts ==
    {t \in [length : Nat, trimmed : Nat, letters : BOOLEAN, storable : BOOLEAN] : t.trimmed <= t.length}

Angles == [angle : Int]

Degree == 10000000

\* Schema limits that admit names of 120 characters, and phone numbers of any
\* length up to 20 (mutants).
WideSchemaMax ==
    [displayName |-> 120, phone |-> 20, label |-> 40, street |-> 200, city |-> 80,
     country |-> 2, licensePlate |-> 20]
RawPhone(v) == v.length \in 7 .. 20

SchemaMin ==
    [displayName |-> 1, phone |-> 7, label |-> 1, street |-> 1, city |-> 1,
     country |-> 2, licensePlate |-> 1]

SchemaMax ==
    [displayName |-> 80, phone |-> 20, label |-> 40, street |-> 200, city |-> 80,
     country |-> 2, licensePlate |-> 20]

\* assertDisplayName, assertLabel, assertStreet, assertCity, assertLicensePlate.
EntityMax ==
    [displayName |-> 80, label |-> 40, street |-> 200, city |-> 80, licensePlate |-> 20]

\* @db.VarChar(n)
ColumnMax ==
    [displayName |-> 80, phone |-> 20, label |-> 40, street |-> 200, city |-> 80,
     country |-> 2, licensePlate |-> 20]

TextFields == DOMAIN SchemaMax

AngleLimit == [lat |-> 90 * Degree, lng |-> 180 * Degree]

AngleFields == DOMAIN AngleLimit

Fields == TextFields \cup AngleFields

Bodies ==
    {b \in [Fields -> Texts \cup Angles \cup {Absent, Null}] :
        /\ \A f \in TextFields : b[f] \in Texts \cup {Absent, Null}
        /\ \A f \in AngleFields : b[f] \in Angles \cup {Absent}}

Given(v) == v \notin {Absent, Null}

InRange(f, v) == -AngleLimit[f] <= v.angle /\ v.angle <= AngleLimit[f]

\* The schema admits the field's value.
Admitted(f, v) ==
    IF f \in AngleFields THEN InRange(f, v) ELSE v.length \in SchemaMin[f] .. SchemaMax[f]

PhoneOf(v) == v.trimmed \in 7 .. 20

CountryOf(v) == v.length = 2 /\ v.letters

\* Neither the value object nor the entity throws.
Accepted(f, v) ==
    CASE f = "phone"   -> PhoneOf(v)
      [] f = "country" -> CountryOf(v)
      [] f \in AngleFields  -> InRange(f, v)
      [] OTHER         -> v.length \in 1 .. EntityMax[f]

\* Phone.of keeps the text without its white space; Postgres rounds a decimal.
Stored(f, v) ==
    CASE f = "phone"  -> [v EXCEPT !.length = v.trimmed]
      [] f \in AngleFields -> [angle |-> 10 * ((v.angle + 5) \div 10)]
      [] OTHER        -> v

ColumnHolds(f, v) == f \in TextFields => v.storable /\ v.length <= ColumnMax[f]

\* The mappers' toDomain does not throw on the stored value.
Reloads(f, v) == f \in {"phone", "country"} \cup AngleFields => Accepted(f, v)

\* Where the schema admits more than the value objects and the columns take.
BeyondSchema(f, v) ==
    \/ f = "phone" /\ v.trimmed < 7
    \/ f = "country" /\ ~v.letters
    \/ f \in TextFields /\ ~v.storable
=============================================================================
