---------------------------- MODULE DriverProfile ----------------------------
(***************************************************************************)
(* The DriverProfile entity (domain/driver/driver-profile.ts): its fields, *)
(* its constructor and its two mutators, as operators on records.          *)
(* createdAt and updatedAt are left out: no decision of the service reads  *)
(* them.  A vehicle type and a plate are opaque values; None stands both   *)
(* for a null column and for an attribute the PATCH body does not carry.   *)
(***************************************************************************)
CONSTANTS
    Vehicles,   \* the vehicle types of domain/driver/vehicle-type.ts
    Plates,     \* the licence plates of length 1..20
    None        \* null in a row, undefined in a request body

ASSUME NoneIsNoAttribute == None \notin Vehicles \cup Plates

DriverProfiles ==
    [vehicleType     : Vehicles \cup {None},
     licensePlate    : Plates \cup {None},
     isAvailable     : BOOLEAN,
     profileComplete : BOOLEAN]

CreateIncomplete ==
    [vehicleType     |-> None,
     licensePlate    |-> None,
     isAvailable     |-> FALSE,
     profileComplete |-> FALSE]

\* An attribute of the body replaces the entity's only when it is present.
Given(arg, current) == IF arg = None THEN current ELSE arg

HasBothAttributes(vehicle, plate) == vehicle # None /\ plate # None

\* A PATCH that takes the driver offline (mutant).
UpdateTakesOffline(p, vehicle, plate) ==
    [vehicleType     |-> Given(vehicle, p.vehicleType),
     licensePlate    |-> Given(plate, p.licensePlate),
     isAvailable     |-> FALSE,
     profileComplete |-> HasBothAttributes(Given(vehicle, p.vehicleType), Given(plate, p.licensePlate))]

\* updateAttributes: completeness is recomputed from the two attributes, and
\* an entity that is not complete is not left available.
UpdateAttributes(p, vehicle, plate) ==
    LET v == Given(vehicle, p.vehicleType)
        l == Given(plate, p.licensePlate)
        c == HasBothAttributes(v, l)
    IN  [vehicleType     |-> v,
         licensePlate    |-> l,
         isAvailable     |-> p.isAvailable /\ c,
         profileComplete |-> c]

\* setAvailable throws DriverProfileIncompleteError exactly when this is false.
MaySetAvailable(p, value) == value => p.profileComplete

SetAvailable(p, value) == [p EXCEPT !.isAvailable = value]

\* What the class promises of every instance it hands out.
WellFormed(p) ==
    /\ p.profileComplete = HasBothAttributes(p.vehicleType, p.licensePlate)
    /\ p.isAvailable => p.profileComplete
=============================================================================
