--------------------------- MODULE ProfileRegistry ---------------------------
(***************************************************************************)
(* What the service promises about its two profile tables, as if every     *)
(* message of the auth service were applied once, at once and in order:    *)
(* user.registered first, then each user.role_changed.  In between the     *)
(* user may edit the rows there are.                                       *)
(***************************************************************************)
EXTENDS Naturals

CONSTANTS Users, Changes

VARIABLES
    rows,       \* the state of the customer and of the driver row of every user
    role,       \* the role each message of a user gives
    applied     \* how many of a user's messages have had their effect

registry == <<rows, role, applied>>

\* A message creates what is missing; a change to another role than driver
\* deletes the driver row; nothing resets what the user has edited.
Provisioned(row, n, newRole) ==
    [customer |-> IF row.customer = "none" THEN "new" ELSE row.customer,
     driver   |-> IF newRole = "driver" THEN IF row.driver = "none" THEN "new" ELSE row.driver
                  ELSE IF n = 1 THEN row.driver ELSE "none"]

Init ==
    /\ rows = [u \in Users |-> [customer |-> "none", driver |-> "none"]]
    /\ role \in [Users -> [1 .. Changes -> {"driver", "other"}]]
    /\ applied = [u \in Users |-> 0]

Apply(u) ==
    LET n == applied[u] + 1 IN
    /\ n \in 1 .. Changes
    /\ rows' = [rows EXCEPT ![u] = Provisioned(@, n, role[u][n])]
    /\ applied' = [applied EXCEPT ![u] = n]
    /\ UNCHANGED role

Edit(u, t) ==
    /\ rows[u][t] # "none"
    /\ rows' = [rows EXCEPT ![u][t] = "edited"]
    /\ UNCHANGED <<role, applied>>

Next == \E u \in Users : Apply(u) \/ \E t \in {"customer", "driver"} : Edit(u, t)

Spec == Init /\ [][Next]_registry
=============================================================================
