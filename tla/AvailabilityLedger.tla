------------------------- MODULE AvailabilityLedger -------------------------
(***************************************************************************)
(* What the service promises dispatch about drivers, as if each operation  *)
(* were one atomic step: the driver row and the last availability the      *)
(* subscribers heard change together, and only a toggle or the demotion of *)
(* an available driver changes what they heard.                            *)
(***************************************************************************)
EXTENDS DriverProfile

CONSTANTS Users, NoRow

VARIABLES row, heard

ledger == <<row, heard>>

Init ==
    /\ row \in [Users -> {NoRow} \cup {p \in DriverProfiles : WellFormed(p)}]
    /\ heard = [u \in Users |-> row[u] # NoRow /\ row[u].isAvailable]

Toggle(u, value) ==
    /\ row[u] # NoRow
    /\ MaySetAvailable(row[u], value)
    /\ row' = [row EXCEPT ![u] = SetAvailable(@, value)]
    /\ heard' = [heard EXCEPT ![u] = value]

Patch(u, vehicle, plate) ==
    /\ row[u] # NoRow
    /\ row' = [row EXCEPT ![u] = UpdateAttributes(@, vehicle, plate)]
    /\ UNCHANGED heard

Promote(u) ==
    /\ row[u] = NoRow
    /\ row' = [row EXCEPT ![u] = CreateIncomplete]
    /\ UNCHANGED heard

Demote(u) ==
    /\ row[u] # NoRow
    /\ row' = [row EXCEPT ![u] = NoRow]
    /\ heard' = [heard EXCEPT ![u] = FALSE]

Next ==
    \E u \in Users :
        \/ \E value \in BOOLEAN : Toggle(u, value)
        \/ \E v \in Vehicles \cup {None}, l \in Plates \cup {None} : Patch(u, v, l)
        \/ Promote(u)
        \/ Demote(u)

Spec == Init /\ [][Next]_ledger
=============================================================================
