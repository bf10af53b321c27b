----------------------------- MODULE OrderlyBook -----------------------------
(***************************************************************************)
(* What the service promises about the address book of users who do one    *)
(* thing at a time, as if every operation read and wrote the two tables in *)
(* one step.  An id whose row was deleted is never used again.             *)
(***************************************************************************)
CONSTANTS Users, AddrIds, Contents, None, NoRow

VARIABLES
    customer,   \* the customer_profiles row of every user
    address,    \* the addresses row under every id
    deleted     \* the ids whose row was deleted

book == <<customer, address, deleted>>

HasRow(u) == customer[u] # NoRow

Owns(u, id) == address[id] # NoRow /\ address[id].owner = u

Init ==
    /\ customer \in [Users -> {NoRow} \cup [content : Contents, default : {None}]]
    /\ address = [id \in AddrIds |-> NoRow]
    /\ deleted = {}

\* The handlers of the auth events.
Provision(u, c) ==
    /\ ~HasRow(u)
    /\ customer' = [customer EXCEPT ![u] = [content |-> c, default |-> None]]
    /\ UNCHANGED <<address, deleted>>

\* PATCH /me
EditProfile(u, c) ==
    /\ HasRow(u)
    /\ customer' = [customer EXCEPT ![u] = [@ EXCEPT !.content = c]]
    /\ UNCHANGED <<address, deleted>>

\* POST /me/addresses
Create(u, id, c) ==
    /\ HasRow(u)
    /\ address[id] = NoRow /\ id \notin deleted
    /\ address' = [address EXCEPT ![id] = [owner |-> u, content |-> c]]
    /\ UNCHANGED <<customer, deleted>>

\* PATCH /me/addresses/:id
Edit(u, id, c) ==
    /\ Owns(u, id)
    /\ address' = [address EXCEPT ![id] = [@ EXCEPT !.content = c]]
    /\ UNCHANGED <<customer, deleted>>

\* DELETE /me/addresses/:id
Delete(u, id) ==
    /\ Owns(u, id)
    /\ customer[u].default # id
    /\ address' = [address EXCEPT ![id] = NoRow]
    /\ deleted' = deleted \cup {id}
    /\ UNCHANGED customer

\* PUT /me/default-address
SetDefault(u, id) ==
    /\ Owns(u, id)
    /\ customer' = [customer EXCEPT ![u] = [@ EXCEPT !.default = id]]
    /\ UNCHANGED <<address, deleted>>

Next ==
    \E u \in Users :
        \/ \E c \in Contents : Provision(u, c) \/ EditProfile(u, c)
        \/ \E id \in AddrIds : \/ Delete(u, id) \/ SetDefault(u, id)
                               \/ \E c \in Contents : Create(u, id, c) \/ Edit(u, id, c)

Spec == Init /\ [][Next]_book
=============================================================================
