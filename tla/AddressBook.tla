----------------------------- MODULE AddressBook -----------------------------
(***************************************************************************)
(* customer_profiles and addresses, and every operation that writes them:  *)
(* POST, PATCH and DELETE of /me/addresses, PUT /me/default-address,       *)
(* PATCH /me, and the insert of a customer row by the event handlers.      *)
(* None of the HTTP operations runs in a transaction: each awaited query   *)
(* is an action, and what a request read may be stale when it writes.      *)
(*                                                                         *)
(* Postgres enforces two foreign keys (prisma/schema.prisma):              *)
(*   customer_profiles.default_address_id -> addresses, ON DELETE SET NULL *)
(*   addresses.user_id -> customer_profiles, whose rows nobody deletes     *)
(* Labels, streets, names, phones and timestamps are one opaque value.     *)
(***************************************************************************)
CONSTANTS
    Users,      \* user ids
    AddrIds,    \* the uuids CreateAddressUseCase may generate (bounds creations)
    Contents,   \* what an address or a profile says besides its keys
    Reqs,       \* operations; each runs once (bounds the run)
    None,       \* default_address_id is null; an id nobody generated
    NoRow,      \* no row under this key
    Overlap,    \* the users whose operations may be in flight together
    Respelling, \* the users whose clients may write an id in capital letters
    Faults      \* may queries fail and the process crash?

Addresses == [owner : Users, content : Contents]
Customers == [content : Contents, default : AddrIds \cup {None}]

ASSUME SentinelsOK ==
    None \notin AddrIds \cup Users /\ NoRow \notin Addresses \cup Customers
ASSUME SwitchesOK == Overlap \cup Respelling \subseteq Users /\ Faults \in BOOLEAN

VARIABLES
    customer,   \* the customer_profiles row of every user
    address,    \* the addresses row under every id
    request,    \* the state of every operation
    idOwner,    \* history: the user for whom each id was generated
    deleted     \* history: the ids whose row a DELETE has removed

vars == <<customer, address, request, idOwner, deleted>>

-----------------------------------------------------------------------------
Idle == [phase |-> "idle"]

\* The phase names the query that comes next; the fields are what it needs.
InFlightRequests ==
    [phase : {"readCustomer"}, kind : {"delete", "deleteRespelled", "setDefault"}, user : Users, id : AddrIds]
    \cup [phase : {"saveAddress"}, user : Users, id : AddrIds, entity : Addresses]
    \cup [phase : {"deleteAddress"}, user : Users, id : AddrIds]
    \cup [phase : {"saveCustomer"}, kind : {"setDefault", "profile"}, user : Users, entity : Customers]
    \cup [phase : {"upsertCustomer"}, user : Users, entity : Customers]

Statuses == {"ok", "not_found", "in_use", "internal", "lost"}

Requests == {Idle} \cup InFlightRequests \cup [phase : {"done"}, user : Users, status : Statuses]

InFlight(r) == request[r].phase \notin {"idle", "done"}

Busy(u) == \E r \in Reqs : InFlight(r) /\ request[r].user = u

\* The callers serialise the operations of the other users, and send an id as
\* the service told it.
Orderly == Users \ (Overlap \cup Respelling)

TypeOK ==
    /\ customer \in [Users -> Customers \cup {NoRow}]
    /\ address \in [AddrIds -> Addresses \cup {NoRow}]
    /\ request \in [Reqs -> Requests]
    /\ idOwner \in [AddrIds -> Users \cup {None}]
    /\ deleted \subseteq AddrIds

\* Some users are not provisioned yet; nobody has an address.
Init ==
    /\ customer \in [Users -> {NoRow} \cup {c \in Customers : c.default = None}]
    /\ address = [id \in AddrIds |-> NoRow]
    /\ request = [r \in Reqs |-> Idle]
    /\ idOwner = [id \in AddrIds |-> None]
    /\ deleted = {}

-----------------------------------------------------------------------------
Become(r, q) == request' = [request EXCEPT ![r] = q]

Respond(r, u, s) == Become(r, [phase |-> "done", user |-> u, status |-> s])

Begins(r, u) ==
    /\ request[r] = Idle
    /\ u \in Overlap \/ ~Busy(u)
    /\ UNCHANGED <<customer, address, deleted>>

\* Lookups without one of their checks (mutants).
AnyId(id) == TRUE
DefaultUnchecked(u, id) == FALSE

\* What CreateAddressUseCase asks before it writes a row that refers to the customer.
HasProfile(u) == customer[u] # NoRow

\* The id generator never repeats itself.
IsFresh(id) == idOwner[id] = None

IsDefault(u, id) == customer[u].default = id

\* byId followed by the comparison of userId: another user's address is a 404.
Owns(u, id) == address[id] # NoRow /\ address[id].owner = u

-----------------------------------------------------------------------------
(* The entities: constructors and mutators *)

NewAddress(u, content) == [owner |-> u, content |-> content]

Edited(a, content) == [a EXCEPT !.content = content]

NewCustomer(content) == [content |-> content, default |-> None]

WithDefault(c, id) == [c EXCEPT !.default = id]

\* A profile PATCH that forgets the default address (mutant).
PatchedFromScratch(c, content) == [content |-> content, default |-> None]

Patched(c, content) == [c EXCEPT !.content = content]

-----------------------------------------------------------------------------
(* CreateAddressUseCase and UpdateAddressUseCase *)

BeginCreate(r, u, id, content) ==
    /\ Begins(r, u)
    /\ \/ /\ ~HasProfile(u)
          /\ Respond(r, u, "not_found")
          /\ UNCHANGED idOwner
       \/ /\ HasProfile(u)
          /\ IsFresh(id)
          /\ idOwner' = [idOwner EXCEPT ![id] = u]
          /\ Become(r, [phase |-> "saveAddress", user |-> u, id |-> id,
                        entity |-> NewAddress(u, content)])

BeginUpdate(r, u, id, content) ==
    /\ Begins(r, u)
    /\ \/ ~Owns(u, id) /\ Respond(r, u, "not_found")
       \/ Owns(u, id)
          /\ Become(r, [phase |-> "saveAddress", user |-> u, id |-> id,
                        entity |-> Edited(address[id], content)])
    /\ UNCHANGED idOwner

\* The repository's save is an upsert for both: it inserts the whole row when
\* none is there, and leaves the owner alone when one is.
SaveAddress(r) ==
    LET q == request[r] IN
    /\ q.phase = "saveAddress"
    /\ address' = [address EXCEPT ![q.id] =
           IF @ = NoRow THEN q.entity ELSE Edited(@, q.entity.content)]
    /\ Respond(r, q.user, "ok")
    /\ UNCHANGED <<customer, idOwner, deleted>>

-----------------------------------------------------------------------------
(* DeleteAddressUseCase and SetDefaultAddressUseCase start alike *)

ReadAddress(r, u, id, kind) ==
    /\ Begins(r, u)
    /\ kind = "deleteRespelled" => u \in Respelling
    /\ \/ ~Owns(u, id) /\ Respond(r, u, "not_found")
       \/ Owns(u, id)
          /\ Become(r, [phase |-> "readCustomer", kind |-> kind, user |-> u, id |-> id])
    /\ UNCHANGED idOwner

\* The use-case compares the two ids as strings, while Postgres finds an id in
\* capital letters and returns it in small ones.
RecognisesDefault(q) == q.kind = "delete" /\ IsDefault(q.user, q.id)

\* The owner of an address has a customer row, so the use-cases' second 404
\* has no state to happen in.
ReadCustomer(r) ==
    LET q == request[r] IN
    /\ q.phase = "readCustomer"
    /\ \/ RecognisesDefault(q) /\ Respond(r, q.user, "in_use")
       \/ q.kind # "setDefault" /\ ~RecognisesDefault(q)
          /\ Become(r, [phase |-> "deleteAddress", user |-> q.user, id |-> q.id])
       \/ q.kind = "setDefault"
          /\ Become(r, [phase |-> "saveCustomer", kind |-> "setDefault", user |-> q.user,
                        entity |-> WithDefault(customer[q.user], q.id)])
    /\ UNCHANGED <<customer, address, idOwner, deleted>>

\* A foreign key that nulls nothing or with a wrong value (mutants).
Untouched(c) == c
MisNulled(c) == [c EXCEPT !.default = NoRow]

\* ON DELETE SET NULL.
Nulled(c) == [c EXCEPT !.default = None]

\* Prisma's delete throws P2025, answered 500, when the row is gone.  Postgres
\* nulls every default that refers to the deleted row.
DeleteAddress(r) ==
    LET q == request[r] IN
    /\ q.phase = "deleteAddress"
    /\ \/ /\ address[q.id] = NoRow
          /\ Respond(r, q.user, "internal")
          /\ UNCHANGED <<customer, address, deleted>>
       \/ /\ address[q.id] # NoRow
          /\ address' = [address EXCEPT ![q.id] = NoRow]
          /\ customer' = [u \in Users |->
                 IF customer[u] # NoRow /\ customer[u].default = q.id
                 THEN Nulled(customer[u]) ELSE customer[u]]
          /\ deleted' = deleted \cup {q.id}
          /\ Respond(r, q.user, "ok")
    /\ UNCHANGED idOwner

-----------------------------------------------------------------------------
(* UpdateMyProfileUseCase, and the writes of a customer row *)

BeginProfile(r, u, content) ==
    /\ Begins(r, u)
    /\ \/ customer[u] = NoRow /\ Respond(r, u, "not_found")
       \/ customer[u] # NoRow
          /\ Become(r, [phase |-> "saveCustomer", kind |-> "profile", user |-> u,
                        entity |-> Patched(customer[u], content)])
    /\ UNCHANGED idOwner

\* save writes every column, the default address included; the foreign key
\* refuses a default whose row is gone.
SaveCustomer(r) ==
    LET q == request[r]
        dangling == q.entity.default # None /\ address[q.entity.default] = NoRow
    IN
    /\ q.phase = "saveCustomer"
    /\ \/ dangling /\ Respond(r, q.user, "internal") /\ UNCHANGED customer
       \/ /\ ~dangling
          /\ customer' = [customer EXCEPT ![q.user] = q.entity]
          /\ Respond(r, q.user, "ok")
    /\ UNCHANGED <<address, idOwner, deleted>>

\* The event handlers: a customer row without default when none was read.
BeginProvision(r, u, content) ==
    /\ Begins(r, u)
    /\ \/ customer[u] # NoRow /\ Respond(r, u, "ok")
       \/ customer[u] = NoRow
          /\ Become(r, [phase |-> "upsertCustomer", user |-> u,
                        entity |-> NewCustomer(content)])
    /\ UNCHANGED idOwner

\* The upsert overwrites a row that appeared since the read.
UpsertCustomer(r) ==
    LET q == request[r] IN
    /\ q.phase = "upsertCustomer"
    /\ customer' = [customer EXCEPT ![q.user] = q.entity]
    /\ Respond(r, q.user, "ok")
    /\ UNCHANGED <<address, idOwner, deleted>>

-----------------------------------------------------------------------------
\* The awaited query fails: 500, or a rollback in an event handler.
QueryFails(r) ==
    /\ Faults
    /\ InFlight(r)
    /\ Respond(r, request[r].user, "internal")
    /\ UNCHANGED <<customer, address, idOwner, deleted>>

Crash ==
    /\ Faults
    /\ \E r \in Reqs : InFlight(r)
    /\ request' = [r \in Reqs |->
           IF InFlight(r) THEN [phase |-> "done", user |-> request[r].user, status |-> "lost"]
                          ELSE request[r]]
    /\ UNCHANGED <<customer, address, idOwner, deleted>>

AllDone == (\A r \in Reqs : request[r].phase = "done") /\ UNCHANGED vars

Begin(r) ==
    \E u \in Users :
        \/ \E id \in AddrIds, c \in Contents : BeginCreate(r, u, id, c) \/ BeginUpdate(r, u, id, c)
        \/ \E id \in AddrIds, k \in {"delete", "deleteRespelled", "setDefault"} : ReadAddress(r, u, id, k)
        \/ \E c \in Contents : BeginProfile(r, u, c) \/ BeginProvision(r, u, c)

Continue(r) ==
    \/ SaveAddress(r)
    \/ ReadCustomer(r)
    \/ DeleteAddress(r)
    \/ SaveCustomer(r)
    \/ UpsertCustomer(r)
    \/ QueryFails(r)

Next ==
    \/ \E r \in Reqs : Begin(r) \/ Continue(r)
    \/ Crash
    \/ AllDone

Spec == Init /\ [][Next]_vars

-----------------------------------------------------------------------------
(* Properties *)

\* "No cross-user reads": an address belongs to the user for whom its id was
\* generated, however often it is deleted and written back.
OwnerIsCreator == \A id \in AddrIds : address[id] # NoRow => address[id].owner = idOwner[id]

\* A default address exists and belongs to the customer who has it as default.
DefaultIsOwned ==
    \A u \in Users :
        LET id == customer[u].default IN
        customer[u] # NoRow /\ id # None => address[id] # NoRow /\ address[id].owner = u

\* Whoever owns an address has a customer row: the foreign key never has to
\* refuse an insert, and no use-case meets an orphan.
OwnersAreProvisioned ==
    \A id \in AddrIds : address[id] # NoRow => customer[address[id].owner] # NoRow

\* The step deletes no default address of the users us.
KeepsDefaults(us) ==
    \A u \in us, id \in AddrIds :
        customer[u] # NoRow /\ customer[u].default = id /\ address[id] # NoRow =>
            address'[id] # NoRow

\* README "DELETE rejects with 409 if address is the current default", for an
\* orderly user, whatever the others do meanwhile.
DefaultIsNeverDeleted == [][KeepsDefaults(Orderly)]_vars

\* The README's sentence as it stands: for every user, however the id is spelled.
DeleteRefusesDefault == [][KeepsDefaults(Users)]_vars

\* An orderly user's row that DELETE removed is not written back.
DeletedStaysDeleted == \A id \in deleted : idOwner[id] \in Orderly => address[id] = NoRow

\* Only the user's own PUT /me/default-address moves an orderly user's default: a
\* profile PATCH, a redelivered event or the delete of an address leaves it alone.
OnlySetDefaultMovesDefault ==
    [][\A u \in Orderly :
          customer[u] # NoRow /\ customer'[u].default # customer[u].default =>
              \E r \in Reqs : /\ request[r].phase = "saveCustomer"
                              /\ request[r].kind = "setDefault"
                              /\ request[r].user = u
                              /\ request'[r].phase = "done"]_vars

\* The ids that were generated for orderly users.
OrderlyIds == {id \in AddrIds : idOwner[id] \in Orderly}

\* To the orderly users the address book looks as if each of their operations
\* were one step, although it takes up to three queries that may fail anywhere
\* between, while the others' operations race.
Book == INSTANCE OrderlyBook WITH
    Users    <- Orderly,
    customer <- [u \in Orderly |-> customer[u]],
    address  <- [id \in AddrIds |-> IF id \in OrderlyIds THEN address[id] ELSE NoRow],
    deleted  <- deleted \cap OrderlyIds

BookSpec == Book!Spec
=============================================================================
