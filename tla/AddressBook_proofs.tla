------------------------- MODULE AddressBook_proofs -------------------------
(***************************************************************************)
(* Ownership and referential integrity of the address book, proved for any *)
(* set of users, address ids and operations, with overlap and faults; and, *)
(* for orderly users, that deleted addresses stay deleted, that defaults   *)
(* are neither deleted nor moved unasked, and the orderly book.            *)
(*                                                                         *)
(* DefaultIsOwned is not inductive: SaveCustomer writes a default that was *)
(* read or chosen some steps ago, and the foreign key only says that the   *)
(* row is there, not whose it is.  Inv adds that every copy of an id held  *)
(* by a request of a user was generated for that user.                     *)
(***************************************************************************)
EXTENDS AddressBook, TLAPS

HoldsOwnId(u, id) == id \in AddrIds /\ idOwner[id] = u

RequestsHoldOwnIds ==
    \A r \in Reqs :
        /\ request[r].phase = "readCustomer" => HoldsOwnId(request[r].user, request[r].id)
        /\ request[r].phase = "saveAddress" =>
               /\ HoldsOwnId(request[r].user, request[r].id)
               /\ request[r].entity.owner = request[r].user
        /\ request[r].phase = "saveCustomer" =>
               \/ request[r].entity.default = None
               \/ HoldsOwnId(request[r].user, request[r].entity.default)
        /\ request[r].phase = "upsertCustomer" => request[r].entity.default = None

OwnersNamed == \A r \in Reqs : InFlight(r) => customer[request[r].user] # NoRow
                                   \/ request[r].phase = "upsertCustomer"

Inv == TypeOK /\ OwnerIsCreator /\ DefaultIsOwned /\ OwnersAreProvisioned
              /\ RequestsHoldOwnIds /\ OwnersNamed

\* What the fields of an in-flight request are, phase by phase.
LEMMA RequestFields ==
    ASSUME TypeOK, NEW r \in Reqs
    PROVE  /\ InFlight(r) => request[r].user \in Users
           /\ request[r].phase = "readCustomer" =>
                  request[r].id \in AddrIds /\ request[r].kind \in {"delete", "deleteRespelled", "setDefault"}
           /\ request[r].phase = "saveAddress" =>
                  request[r].id \in AddrIds /\ request[r].entity \in Addresses
           /\ request[r].phase = "deleteAddress" => request[r].id \in AddrIds
           /\ request[r].phase \in {"saveCustomer", "upsertCustomer"} =>
                  request[r].entity \in Customers
<1>1. request[r] \in Requests
  BY DEF TypeOK
<1> QED
  BY <1>1 DEF Requests, Idle, InFlightRequests, InFlight

LEMMA InitInv == Init => Inv
<1> SUFFICES ASSUME Init PROVE Inv
  OBVIOUS
<1>1. TypeOK
  BY DEF Init, TypeOK, Requests, Customers
<1>2. OwnerIsCreator /\ OwnersAreProvisioned
  BY DEF Init, OwnerIsCreator, OwnersAreProvisioned
<1>3. DefaultIsOwned
  BY DEF Init, DefaultIsOwned
<1>4. RequestsHoldOwnIds /\ OwnersNamed
  BY DEF Init, RequestsHoldOwnIds, OwnersNamed, InFlight, Idle
<1> QED
  BY <1>1, <1>2, <1>3, <1>4 DEF Inv

-----------------------------------------------------------------------------
(* Type correctness *)

LEMMA BecomeOK ==
    ASSUME TypeOK, NEW r \in Reqs, NEW q, Become(r, q)
    PROVE  /\ request'[r] = q
           /\ \A x \in Reqs \ {r} : request'[x] = request[x]
           /\ q \in Requests => request' \in [Reqs -> Requests]
BY DEF Become, TypeOK

LEMMA AnswersAreRequests ==
    \A u \in Users, s \in Statuses : [phase |-> "done", user |-> u, status |-> s] \in Requests
BY DEF Requests

LEMMA BeginTypeOK ==
    ASSUME TypeOK, NEW r \in Reqs, Begin(r)
    PROVE  TypeOK'
<1>0. ASSUME NEW u \in Users, NEW s \in Statuses, Respond(r, u, s)
      PROVE  request' \in [Reqs -> Requests]
  BY <1>0, AnswersAreRequests DEF Respond, Become, TypeOK
<1>1. ASSUME NEW q \in InFlightRequests, Become(r, q)
      PROVE  request' \in [Reqs -> Requests]
  BY <1>1, BecomeOK DEF Requests
<1>2. UNCHANGED <<customer, address, deleted>>
  BY DEF Begin, BeginCreate, NewAddress, BeginUpdate, Edited, ReadAddress, BeginProfile, BeginProvision, NewCustomer, Begins
<1> SUFFICES request' \in [Reqs -> Requests] /\ idOwner' \in [AddrIds -> Users \cup {None}]
  BY <1>2 DEF TypeOK
<1>3. ASSUME NEW u \in Users, NEW id \in AddrIds, NEW c \in Contents, BeginCreate(r, u, id, c)
      PROVE  request' \in [Reqs -> Requests] /\ idOwner' \in [AddrIds -> Users \cup {None}]
  <2>1. [phase |-> "saveAddress", user |-> u, id |-> id, entity |-> [owner |-> u, content |-> c]]
            \in InFlightRequests
    BY DEF InFlightRequests, Addresses
  <2> QED
    BY <1>0, <1>1, <1>3, <2>1 DEF BeginCreate, NewAddress, Statuses, TypeOK
<1>4. ASSUME NEW u \in Users, NEW id \in AddrIds, NEW c \in Contents, BeginUpdate(r, u, id, c)
      PROVE  request' \in [Reqs -> Requests] /\ UNCHANGED idOwner
  <2>1. CASE Respond(r, u, "not_found")
    BY <1>0, <1>4, <2>1 DEF BeginUpdate, Edited, Statuses
  <2>2. CASE ~Respond(r, u, "not_found")
    <3>1. [address[id] EXCEPT !.content = c] \in Addresses
      BY <1>4, <2>2 DEF BeginUpdate, Edited, Owns, TypeOK, Addresses
    <3>2. [phase |-> "saveAddress", user |-> u, id |-> id,
           entity |-> [address[id] EXCEPT !.content = c]] \in InFlightRequests
      BY <3>1 DEF InFlightRequests
    <3> QED
      BY <1>1, <1>4, <2>2, <3>2 DEF BeginUpdate, Edited
  <2> QED
    BY <2>1, <2>2
<1>5. ASSUME NEW u \in Users, NEW id \in AddrIds, NEW k \in {"delete", "deleteRespelled", "setDefault"},
             ReadAddress(r, u, id, k)
      PROVE  request' \in [Reqs -> Requests] /\ UNCHANGED idOwner
  <2>1. [phase |-> "readCustomer", kind |-> k, user |-> u, id |-> id] \in InFlightRequests
    BY DEF InFlightRequests
  <2> QED
    BY <1>0, <1>1, <1>5, <2>1 DEF ReadAddress, Statuses
<1>6. ASSUME NEW u \in Users, NEW c \in Contents, BeginProfile(r, u, c)
      PROVE  request' \in [Reqs -> Requests] /\ UNCHANGED idOwner
  <2>1. CASE Respond(r, u, "not_found")
    BY <1>0, <1>6, <2>1 DEF BeginProfile, Statuses
  <2>2. CASE ~Respond(r, u, "not_found")
    <3>1. Patched(customer[u], c) \in Customers
      BY <1>6, <2>2 DEF BeginProfile, Patched, TypeOK, Customers
    <3>2. [phase |-> "saveCustomer", kind |-> "profile", user |-> u,
           entity |-> Patched(customer[u], c)] \in InFlightRequests
      BY <3>1 DEF InFlightRequests
    <3> QED
      BY <1>1, <1>6, <2>2, <3>2 DEF BeginProfile
  <2> QED
    BY <2>1, <2>2
<1>7. ASSUME NEW u \in Users, NEW c \in Contents, BeginProvision(r, u, c)
      PROVE  request' \in [Reqs -> Requests] /\ UNCHANGED idOwner
  <2>1. [phase |-> "upsertCustomer", user |-> u, entity |-> [content |-> c, default |-> None]]
            \in InFlightRequests
    BY DEF InFlightRequests, Customers
  <2> QED
    BY <1>0, <1>1, <1>7, <2>1 DEF BeginProvision, NewCustomer, Statuses
<1> QED
  BY <1>3, <1>4, <1>5, <1>6, <1>7 DEF Begin, TypeOK

LEMMA ContinueTypeOK ==
    ASSUME TypeOK, OwnersNamed, NEW r \in Reqs, Continue(r)
    PROVE  TypeOK'
<1> DEFINE u == request[r].user
<1>0. u \in Users
  BY RequestFields DEF Continue, SaveAddress, Edited, ReadCustomer, WithDefault, DeleteAddress, SaveCustomer,
                       UpsertCustomer, QueryFails, InFlight
<1>1. ASSUME NEW s \in Statuses, Respond(r, u, s)
      PROVE  request' \in [Reqs -> Requests]
  BY <1>0, <1>1, AnswersAreRequests DEF Respond, Become, TypeOK
<1>2. CASE SaveAddress(r)
  <2>1. address' \in [AddrIds -> Addresses \cup {NoRow}]
    BY <1>2, RequestFields DEF SaveAddress, Edited, TypeOK, Addresses
  <2> QED
    BY <1>1, <1>2, <2>1 DEF SaveAddress, Edited, TypeOK, Statuses
<1>3. CASE ReadCustomer(r)
  <2> DEFINE id == request[r].id
  <2>1. id \in AddrIds /\ customer[u] \in Customers
    BY <1>0, <1>3, RequestFields DEF ReadCustomer, WithDefault, OwnersNamed, InFlight, TypeOK
  <2>2. [phase |-> "deleteAddress", user |-> u, id |-> id] \in InFlightRequests
    BY <1>0, <2>1 DEF InFlightRequests
  <2>3. [phase |-> "saveCustomer", kind |-> "setDefault", user |-> u,
         entity |-> [customer[u] EXCEPT !.default = id]] \in InFlightRequests
    <3>1. [customer[u] EXCEPT !.default = id] \in Customers
      BY <2>1 DEF Customers
    <3> QED
      BY <1>0, <3>1 DEF InFlightRequests
  <2>4. request' \in [Reqs -> Requests]
    BY <1>1, <1>3, <2>2, <2>3 DEF ReadCustomer, WithDefault, Become, TypeOK, Requests, Statuses
  <2> QED
    BY <1>3, <2>4 DEF ReadCustomer, WithDefault, TypeOK
<1>4. CASE DeleteAddress(r)
  <2>1. request[r].id \in AddrIds
    BY <1>4, RequestFields DEF DeleteAddress
  <2>2. customer' \in [Users -> Customers \cup {NoRow}]
    BY <1>4 DEF DeleteAddress, Nulled, TypeOK, Customers
  <2>3. address' \in [AddrIds -> Addresses \cup {NoRow}] /\ deleted' \subseteq AddrIds
    BY <1>4, <2>1 DEF DeleteAddress, TypeOK
  <2>4. request' \in [Reqs -> Requests]
    BY <1>1, <1>4 DEF DeleteAddress, Statuses
  <2> QED
    BY <1>4, <2>2, <2>3, <2>4 DEF DeleteAddress, TypeOK
<1>5. CASE SaveCustomer(r)
  <2>1. customer' \in [Users -> Customers \cup {NoRow}]
    BY <1>5, RequestFields DEF SaveCustomer, TypeOK
  <2> QED
    BY <1>1, <1>5, <2>1 DEF SaveCustomer, TypeOK, Statuses
<1>6. CASE UpsertCustomer(r)
  <2>1. customer' \in [Users -> Customers \cup {NoRow}]
    BY <1>6, RequestFields DEF UpsertCustomer, TypeOK
  <2> QED
    BY <1>1, <1>6, <2>1 DEF UpsertCustomer, TypeOK, Statuses
<1>7. CASE QueryFails(r)
  BY <1>1, <1>7 DEF QueryFails, TypeOK, Statuses
<1> QED
  BY <1>2, <1>3, <1>4, <1>5, <1>6, <1>7 DEF Continue

LEMMA CrashTypeOK ==
    ASSUME TypeOK, Crash
    PROVE  TypeOK'
<1>1. request' \in [Reqs -> Requests]
  BY RequestFields, AnswersAreRequests DEF Crash, TypeOK, Statuses
<1> QED
  BY <1>1 DEF Crash, TypeOK

-----------------------------------------------------------------------------
(* The inductive step *)

\* One request of Inv, so that a step need only look at the request it moves.
HoldsOwn(q) ==
    /\ q.phase = "readCustomer" => HoldsOwnId(q.user, q.id)
    /\ q.phase = "saveAddress" => HoldsOwnId(q.user, q.id) /\ q.entity.owner = q.user
    /\ q.phase = "saveCustomer" =>
           q.entity.default = None \/ HoldsOwnId(q.user, q.entity.default)
    /\ q.phase = "upsertCustomer" => q.entity.default = None

HasCustomer(q) ==
    q.phase \in {"idle", "done", "upsertCustomer"} \/ customer[q.user] # NoRow

\* No step renames the owner of a generated id or removes a customer row.
Grows ==
    /\ \A id \in AddrIds : idOwner[id] # None => idOwner'[id] = idOwner[id]
    /\ \A u \in Users : customer[u] # NoRow => customer'[u] # NoRow

LEMMA RequestsStable ==
    ASSUME Inv, Grows, NEW r \in Reqs,
           \A x \in Reqs \ {r} : request'[x] = request[x],
           HoldsOwn(request[r])', HasCustomer(request[r])'
    PROVE  RequestsHoldOwnIds' /\ OwnersNamed'
<1>1. \A x \in Reqs \ {r} : InFlight(x) => request[x].user \in Users
  BY RequestFields DEF Inv
<1>2. RequestsHoldOwnIds'
  <2> SUFFICES ASSUME NEW x \in Reqs PROVE HoldsOwn(request[x])'
    BY DEF RequestsHoldOwnIds, HoldsOwn
  <2>1. CASE x = r
    BY <2>1
  <2>2. CASE x # r
    <3>1. HoldsOwn(request[x])
      BY DEF Inv, RequestsHoldOwnIds, HoldsOwn
    <3>2. InFlight(x) => request[x].user # None
      BY <1>1, <2>2, SentinelsOK
    <3>3. request'[x] = request[x]
      BY <2>2
    <3> QED
      BY <3>1, <3>2, <3>3 DEF HoldsOwn, HoldsOwnId, Grows, InFlight
  <2> QED
    BY <2>1, <2>2
<1>3. OwnersNamed'
  <2> SUFFICES ASSUME NEW x \in Reqs, InFlight(x)'
               PROVE  customer'[request'[x].user] # NoRow \/ request'[x].phase = "upsertCustomer"
    BY DEF OwnersNamed
  <2>1. CASE x = r
    BY <2>1 DEF HasCustomer, InFlight
  <2>2. CASE x # r
    BY <1>1, <2>2 DEF Grows, Inv, OwnersNamed, InFlight
  <2> QED
    BY <2>1, <2>2
<1> QED
  BY <1>2, <1>3

RowsOK == OwnerIsCreator /\ DefaultIsOwned /\ OwnersAreProvisioned

LEMMA RowsStable ==
    ASSUME Inv, Grows, UNCHANGED <<customer, address>>
    PROVE  RowsOK'
<1>1. \A id \in AddrIds : address[id] # NoRow => address[id].owner \in Users
  BY DEF Inv, TypeOK, Addresses
<1>2. OwnerIsCreator'
  BY <1>1, SentinelsOK DEF Inv, OwnerIsCreator, Grows
<1>3. DefaultIsOwned' /\ OwnersAreProvisioned'
  BY DEF Inv, DefaultIsOwned, OwnersAreProvisioned, Owns
<1> QED
  BY <1>2, <1>3 DEF RowsOK

LEMMA BeginInv ==
    ASSUME Inv, NEW r \in Reqs, Begin(r)
    PROVE  RowsOK' /\ RequestsHoldOwnIds' /\ OwnersNamed'
<1>1. UNCHANGED <<customer, address>> /\ \A x \in Reqs \ {r} : request'[x] = request[x]
  BY DEF Begin, BeginCreate, NewAddress, BeginUpdate, Edited, ReadAddress, BeginProfile, BeginProvision, NewCustomer, Begins,
         Respond, Become, Inv, TypeOK
<1>2. Grows
  BY <1>1 DEF Begin, BeginCreate, NewAddress, IsFresh, BeginUpdate, Edited, ReadAddress, BeginProfile, BeginProvision, NewCustomer,
              Grows, Inv, TypeOK
<1>3. HoldsOwn(request[r])' /\ HasCustomer(request[r])'
  <2> USE DEF Become, Respond, HoldsOwn, HoldsOwnId, HasCustomer, Begins
  <2>0. TypeOK
    BY DEF Inv
  <2>1. ASSUME NEW u \in Users, NEW id \in AddrIds, NEW c \in Contents, BeginCreate(r, u, id, c)
        PROVE  HoldsOwn(request[r])' /\ HasCustomer(request[r])'
    BY <2>0, <2>1 DEF BeginCreate, NewAddress, HasProfile, TypeOK
  <2>2. ASSUME NEW u \in Users, NEW id \in AddrIds, NEW c \in Contents, BeginUpdate(r, u, id, c)
        PROVE  HoldsOwn(request[r])' /\ HasCustomer(request[r])'
    <3>1. CASE Respond(r, u, "not_found")
      BY <2>0, <3>1 DEF TypeOK
    <3>2. CASE /\ Owns(u, id)
               /\ Become(r, [phase |-> "saveAddress", user |-> u, id |-> id,
                             entity |-> [address[id] EXCEPT !.content = c]])
      <4>1. idOwner[id] = u /\ customer[u] # NoRow
        BY <3>2 DEF Inv, Owns, OwnerIsCreator, OwnersAreProvisioned
      <4>2. [address[id] EXCEPT !.content = c].owner = u
        BY <2>0, <3>2 DEF TypeOK, Owns, Addresses
      <4> QED
        BY <1>1, <2>0, <2>2, <3>2, <4>1, <4>2 DEF BeginUpdate, Edited, TypeOK
    <3> QED
      BY <2>2, <3>1, <3>2 DEF BeginUpdate, Edited
  <2>3. ASSUME NEW u \in Users, NEW id \in AddrIds, NEW k \in {"delete", "deleteRespelled", "setDefault"},
               ReadAddress(r, u, id, k)
        PROVE  HoldsOwn(request[r])' /\ HasCustomer(request[r])'
    <3>1. Owns(u, id) => idOwner[id] = u /\ customer[u] # NoRow
      BY DEF Inv, Owns, OwnerIsCreator, OwnersAreProvisioned
    <3> QED
      BY <2>0, <2>3, <3>1 DEF ReadAddress, TypeOK
  <2>4. ASSUME NEW u \in Users, NEW c \in Contents, BeginProfile(r, u, c)
        PROVE  HoldsOwn(request[r])' /\ HasCustomer(request[r])'
    <3>1. CASE Respond(r, u, "not_found")
      BY <2>0, <3>1 DEF TypeOK
    <3>2. CASE /\ customer[u] # NoRow
               /\ Become(r, [phase |-> "saveCustomer", kind |-> "profile", user |-> u,
                             entity |-> Patched(customer[u], c)])
      <4>1. Patched(customer[u], c).default = customer[u].default
        BY <2>0, <3>2 DEF TypeOK, Customers, Patched
      <4>2. \/ customer[u].default = None
            \/ customer[u].default \in AddrIds /\ idOwner[customer[u].default] = u
        BY <2>0, <3>2 DEF Inv, DefaultIsOwned, OwnerIsCreator, Owns, TypeOK, Customers
      <4> QED
        BY <1>1, <2>0, <2>4, <3>2, <4>1, <4>2 DEF BeginProfile, TypeOK
    <3> QED
      BY <2>4, <3>1, <3>2 DEF BeginProfile
  <2>5. ASSUME NEW u \in Users, NEW c \in Contents, BeginProvision(r, u, c)
        PROVE  HoldsOwn(request[r])' /\ HasCustomer(request[r])'
    BY <2>0, <2>5 DEF BeginProvision, NewCustomer, TypeOK
  <2> QED
    BY <2>1, <2>2, <2>3, <2>4, <2>5 DEF Begin
<1> QED
  BY <1>1, <1>2, <1>3, RowsStable, RequestsStable

LEMMA ContinueInv ==
    ASSUME Inv, NEW r \in Reqs, Continue(r)
    PROVE  RowsOK' /\ RequestsHoldOwnIds' /\ OwnersNamed'
<1> DEFINE q == request[r]
<1> DEFINE u == q.user
<1>a. TypeOK
  BY DEF Inv
<1>b. InFlight(r) /\ u \in Users /\ HoldsOwn(q) /\ HasCustomer(q)
  BY <1>a, RequestFields
     DEF Inv, Continue, SaveAddress, Edited, ReadCustomer, WithDefault, DeleteAddress, SaveCustomer, UpsertCustomer,
         QueryFails, InFlight, RequestsHoldOwnIds, OwnersNamed, HoldsOwn, HasCustomer
<1>c. UNCHANGED idOwner /\ \A x \in Reqs \ {r} : request'[x] = request[x]
  BY <1>a DEF Continue, SaveAddress, Edited, ReadCustomer, WithDefault, DeleteAddress, SaveCustomer, UpsertCustomer,
              QueryFails, Respond, Become, TypeOK
\* An answered request holds nothing.
<1>d. ASSUME Grows, NEW s, Respond(r, u, s)
      PROVE  RequestsHoldOwnIds' /\ OwnersNamed'
  <2>1. request'[r].phase = "done"
    BY <1>a, <1>d DEF Respond, Become, TypeOK
  <2> QED
    BY <1>c, <1>d, <2>1, RequestsStable DEF HoldsOwn, HasCustomer
<1>1. CASE SaveAddress(r)
  <2>1. Grows
    BY <1>1, <1>c DEF SaveAddress, Edited, Grows
  <2>2. /\ q.id \in AddrIds /\ q.entity \in Addresses
        /\ idOwner[q.id] = u /\ q.entity.owner = u /\ customer[u] # NoRow
    BY <1>1, <1>a, <1>b, RequestFields DEF SaveAddress, Edited, HoldsOwn, HoldsOwnId, HasCustomer
  <2>3. /\ address'[q.id] # NoRow /\ address'[q.id].owner = u
        /\ \A id \in AddrIds \ {q.id} : address'[id] = address[id]
    BY <1>1, <1>a, <2>2, SentinelsOK DEF SaveAddress, Edited, TypeOK, Addresses, Inv, OwnerIsCreator
  <2>4. UNCHANGED customer
    BY <1>1 DEF SaveAddress, Edited
  <2>5. OwnerIsCreator' /\ OwnersAreProvisioned'
    BY <1>c, <2>2, <2>3, <2>4 DEF Inv, OwnerIsCreator, OwnersAreProvisioned
  <2>6. DefaultIsOwned'
    <3> SUFFICES ASSUME NEW w \in Users, customer[w] # NoRow, customer[w].default # None
                 PROVE  Owns(w, customer[w].default)'
      BY <2>4 DEF DefaultIsOwned, Owns
    <3>1. customer[w].default \in AddrIds
      BY <1>a DEF TypeOK, Customers
    <3>2. Owns(w, customer[w].default)
      BY DEF Inv, DefaultIsOwned, Owns
    <3>3. idOwner[customer[w].default] = w
      BY <3>1, <3>2 DEF Inv, OwnerIsCreator, Owns
    <3> QED
      BY <2>2, <2>3, <2>4, <3>1, <3>2, <3>3 DEF Owns
  <2> QED
    BY <1>1, <1>d, <2>1, <2>5, <2>6 DEF SaveAddress, Edited, RowsOK
<1>2. CASE ReadCustomer(r)
  <2>1. Grows /\ UNCHANGED <<customer, address>>
    BY <1>2 DEF ReadCustomer, WithDefault, Grows
  <2>2. q.id \in AddrIds /\ idOwner[q.id] = u /\ customer[u] \in Customers /\ customer[u] # NoRow
    BY <1>2, <1>a, <1>b, RequestFields DEF ReadCustomer, WithDefault, HoldsOwn, HoldsOwnId, HasCustomer, TypeOK
  <2>3. HoldsOwn(request[r])' /\ HasCustomer(request[r])'
    <3>1. CASE Respond(r, u, "in_use")
      BY <1>a, <3>1 DEF Respond, Become, HoldsOwn, HasCustomer, TypeOK
    <3>2. CASE Become(r, [phase |-> "deleteAddress", user |-> u, id |-> q.id])
      BY <1>a, <2>1, <2>2, <3>2 DEF Become, HoldsOwn, HasCustomer, TypeOK
    <3>3. CASE Become(r, [phase |-> "saveCustomer", kind |-> "setDefault", user |-> u,
                          entity |-> [customer[u] EXCEPT !.default = q.id]])
      <4>1. [customer[u] EXCEPT !.default = q.id].default = q.id
        BY <2>2 DEF Customers
      <4> QED
        BY <1>a, <1>c, <2>1, <2>2, <3>3, <4>1 DEF Become, HoldsOwn, HoldsOwnId, HasCustomer, TypeOK
    <3> QED
      BY <1>2, <3>1, <3>2, <3>3 DEF ReadCustomer, WithDefault
  <2> QED
    BY <1>c, <2>1, <2>3, RowsStable, RequestsStable
<1>3. CASE DeleteAddress(r)
  <2>1. Grows
    <3>1. ASSUME NEW w \in Users, customer[w] # NoRow
          PROVE  customer'[w] # NoRow
      <4>1. Nulled(customer[w]) \in Customers
        BY <1>a, <3>1 DEF TypeOK, Customers, Nulled
      <4> QED
        BY <1>3, <3>1, <4>1, SentinelsOK DEF DeleteAddress
    <3> QED
      BY <1>c, <3>1 DEF Grows
  <2>2. CASE UNCHANGED <<customer, address>> /\ Respond(r, u, "internal")
    BY <1>d, <2>1, <2>2, RowsStable
  <2>3. CASE /\ address' = [address EXCEPT ![q.id] = NoRow]
             /\ customer' = [w \in Users |->
                    IF customer[w] # NoRow /\ customer[w].default = q.id
                    THEN Nulled(customer[w]) ELSE customer[w]]
             /\ Respond(r, u, "ok")
    <3>1. q.id \in AddrIds
      BY <1>3, <1>a, RequestFields DEF DeleteAddress
    <3>2. /\ address'[q.id] = NoRow
          /\ \A id \in AddrIds \ {q.id} : address'[id] = address[id]
      BY <1>a, <2>3, <3>1 DEF TypeOK
    <3>3. OwnerIsCreator' /\ OwnersAreProvisioned'
      <4>1. \A id \in AddrIds : address[id] # NoRow => address[id].owner \in Users
        BY <1>a DEF TypeOK, Addresses
      <4> QED
        BY <1>c, <2>1, <3>2, <4>1 DEF Inv, OwnerIsCreator, OwnersAreProvisioned, Grows
    <3>4. DefaultIsOwned'
      <4> SUFFICES ASSUME NEW w \in Users, customer'[w] # NoRow, customer'[w].default # None
                   PROVE  LET d == customer'[w].default IN address'[d] # NoRow /\ address'[d].owner = w
        BY DEF DefaultIsOwned, Owns
      <4>1. customer[w] # NoRow => customer[w] \in Customers
        BY <1>a DEF TypeOK
      <4>2. customer[w] # NoRow /\ customer'[w] = customer[w] /\ customer[w].default # q.id
        BY <2>3, <4>1 DEF Customers, Nulled
      <4>3. customer[w].default \in AddrIds /\ Owns(w, customer[w].default)
        BY <4>1, <4>2 DEF Inv, DefaultIsOwned, Owns, Customers
      <4> QED
        BY <3>2, <4>2, <4>3 DEF Owns
    <3> QED
      BY <1>d, <2>1, <2>3, <3>3, <3>4 DEF RowsOK
  <2> QED
    BY <1>3, <2>2, <2>3 DEF DeleteAddress
<1>4. CASE SaveCustomer(r)
  <2>1. q.entity \in Customers
    BY <1>4, <1>a, RequestFields DEF SaveCustomer
  <2>2. Grows
    BY <1>4, <1>a, <1>c, <2>1, SentinelsOK DEF SaveCustomer, Grows, TypeOK
  <2>3. CASE UNCHANGED customer /\ Respond(r, u, "internal")
    BY <1>4, <1>d, <2>2, <2>3, RowsStable DEF SaveCustomer
  <2>4. CASE /\ q.entity.default = None \/ address[q.entity.default] # NoRow
             /\ customer' = [customer EXCEPT ![u] = q.entity]
             /\ Respond(r, u, "ok")
    <3>1. UNCHANGED address
      BY <1>4 DEF SaveCustomer
    <3>2. OwnerIsCreator' /\ OwnersAreProvisioned'
      <4>1. \A id \in AddrIds : address[id] # NoRow => address[id].owner \in Users
        BY <1>a DEF TypeOK, Addresses
      <4> QED
        BY <1>c, <2>2, <3>1, <4>1 DEF Inv, OwnerIsCreator, OwnersAreProvisioned, Grows
    <3>3. q.entity.default = None \/ Owns(u, q.entity.default)
      BY <1>4, <1>b, <2>4 DEF SaveCustomer, HoldsOwn, HoldsOwnId, Inv, OwnerIsCreator, Owns
    <3>4. DefaultIsOwned'
      BY <1>a, <1>b, <2>4, <3>1, <3>3 DEF Inv, DefaultIsOwned, Owns, TypeOK
    <3> QED
      BY <1>d, <2>2, <2>4, <3>2, <3>4 DEF RowsOK
  <2> QED
    BY <1>4, <2>3, <2>4 DEF SaveCustomer
<1>5. CASE UpsertCustomer(r)
  <2>1. q.entity \in Customers /\ q.entity.default = None
    BY <1>5, <1>a, <1>b, RequestFields DEF UpsertCustomer, HoldsOwn
  <2>2. Grows
    BY <1>5, <1>a, <1>c, <2>1, SentinelsOK DEF UpsertCustomer, Grows, TypeOK
  <2>3. UNCHANGED address
    BY <1>5 DEF UpsertCustomer
  <2>4. OwnerIsCreator' /\ OwnersAreProvisioned'
    <3>1. \A id \in AddrIds : address[id] # NoRow => address[id].owner \in Users
      BY <1>a DEF TypeOK, Addresses
    <3> QED
      BY <1>c, <2>2, <2>3, <3>1 DEF Inv, OwnerIsCreator, OwnersAreProvisioned, Grows
  <2>5. DefaultIsOwned'
    BY <1>5, <1>a, <1>b, <2>1, <2>3 DEF UpsertCustomer, Inv, DefaultIsOwned, Owns, TypeOK
  <2> QED
    BY <1>5, <1>d, <2>2, <2>4, <2>5 DEF UpsertCustomer, RowsOK
<1>6. CASE QueryFails(r)
  <2>1. Grows /\ UNCHANGED <<customer, address>>
    BY <1>6 DEF QueryFails, Grows
  <2> QED
    BY <1>6, <1>d, <2>1, RowsStable DEF QueryFails
<1> QED
  BY <1>1, <1>2, <1>3, <1>4, <1>5, <1>6 DEF Continue

LEMMA NextInv == Inv /\ [Next]_vars => Inv'
<1> SUFFICES ASSUME Inv, [Next]_vars PROVE Inv'
  OBVIOUS
<1>0. TypeOK /\ OwnersNamed
  BY DEF Inv
<1>1. ASSUME NEW r \in Reqs, Begin(r)
      PROVE  Inv'
  BY <1>0, <1>1, BeginTypeOK, BeginInv DEF Inv, RowsOK
<1>2. ASSUME NEW r \in Reqs, Continue(r)
      PROVE  Inv'
  BY <1>0, <1>2, ContinueTypeOK, ContinueInv DEF Inv, RowsOK
<1>3. CASE Crash
  <2>1. TypeOK'
    BY <1>0, <1>3, CrashTypeOK
  <2>2. RowsOK'
    BY <1>3, RowsStable DEF Crash, Grows
  <2>3. \A r \in Reqs : request'[r].phase \in {"idle", "done"}
    BY <1>3 DEF Crash, InFlight
  <2>4. RequestsHoldOwnIds' /\ OwnersNamed'
    BY <2>3 DEF RequestsHoldOwnIds, OwnersNamed, InFlight
  <2> QED
    BY <2>1, <2>2, <2>4 DEF Inv, RowsOK
<1>4. CASE UNCHANGED vars
  BY <1>4 DEF vars, Inv, TypeOK, OwnerIsCreator, DefaultIsOwned, OwnersAreProvisioned, Owns,
              RequestsHoldOwnIds, HoldsOwnId, OwnersNamed, InFlight
<1> QED
  BY <1>1, <1>2, <1>3, <1>4 DEF Next, AllDone

\* An address only ever belongs to the user it was created for.
THEOREM OwnersNeverChange == Spec => []OwnerIsCreator
<1>1. Inv => OwnerIsCreator
  BY DEF Inv
<1> QED
  BY <1>1, InitInv, NextInv, PTL DEF Spec

\* A default address exists and is the customer's own.
THEOREM DefaultsAreOwned == Spec => []DefaultIsOwned
<1>1. Inv => DefaultIsOwned
  BY DEF Inv
<1> QED
  BY <1>1, InitInv, NextInv, PTL DEF Spec

\* Every address hangs on a customer row.
THEOREM NoOrphanAddresses == Spec => []OwnersAreProvisioned
<1>1. Inv => OwnersAreProvisioned
  BY DEF Inv
<1> QED
  BY <1>1, InitInv, NextInv, PTL DEF Spec

\* The rows, the requests and the histories keep their types.
THEOREM TypeCorrect == Spec => []TypeOK
<1>1. Inv => TypeOK
  BY DEF Inv
<1> QED
  BY <1>1, InitInv, NextInv, PTL DEF Spec

-----------------------------------------------------------------------------
(* Orderly users.  What an operation of theirs has read is still true when   *)
(* it writes: they have no second operation in flight, and the operations of *)
(* the others hold no id of theirs.                                          *)

OneAtATime ==
    \A r, x \in Reqs :
        InFlight(r) /\ InFlight(x) /\ request[r].user = request[x].user
            /\ request[r].user \in Orderly => r = x

DeletesOwn(q) == q.phase = "deleteAddress" => HoldsOwnId(q.user, q.id)

ReadIsTrue(q) ==
    /\ q.phase = "readCustomer" => q.kind # "deleteRespelled"
    /\ q.phase = "saveAddress" => q.id \notin deleted
    /\ q.phase = "deleteAddress" => customer[q.user].default # q.id
    /\ q.phase = "saveCustomer" /\ q.kind = "profile" =>
           q.entity.default = customer[q.user].default
    /\ q.phase = "saveCustomer" /\ q.kind = "setDefault" =>
           q.entity.content = customer[q.user].content /\ q.entity.default # None
    /\ q.phase = "upsertCustomer" => customer[q.user] = NoRow

Foreseen(q) ==
    /\ DeletesOwn(q)
    /\ q.phase \notin {"idle", "done"} /\ q.user \in Orderly => ReadIsTrue(q)

DeletedWereCreated == \A id \in deleted : idOwner[id] # None

OrderlyInv ==
    /\ Inv
    /\ OneAtATime
    /\ \A r \in Reqs : Foreseen(request[r])
    /\ DeletedWereCreated
    /\ DeletedStaysDeleted

\* Only user v is touched: nobody else's row, deleted ids or generated ids.
Touches(v) ==
    /\ \A u \in Users \ {v} : customer'[u] = customer[u]
    /\ \A id \in AddrIds : id \in deleted' => id \in deleted \/ idOwner[id] = v
    /\ \A id \in AddrIds : idOwner[id] # None => idOwner'[id] = idOwner[id]

\* The default of a customer and the ids of a request were generated for them.
LEMMA DefaultWasCreatedForOwner ==
    ASSUME Inv, NEW u \in Users, customer[u] # NoRow, customer[u].default # None
    PROVE  customer[u].default \in AddrIds /\ idOwner[customer[u].default] = u
BY DEF Inv, TypeOK, Customers, DefaultIsOwned, OwnerIsCreator

\* A request of another user foresees as much after the step as before.
LEMMA OthersUndisturbed ==
    ASSUME OrderlyInv, NEW v \in Users, Touches(v), NEW x \in Reqs,
           InFlight(x), request'[x] = request[x],
           request[x].user = v => v \notin Orderly
    PROVE  Foreseen(request[x])'
<1> DEFINE q == request[x]
<1>1. q.user \in Users /\ Foreseen(q) /\ HoldsOwn(q)
  BY RequestFields DEF OrderlyInv, Inv, RequestsHoldOwnIds, HoldsOwn
<1>2. DeletesOwn(q)'
  BY <1>1, SentinelsOK DEF Foreseen, DeletesOwn, HoldsOwnId, Touches
<1>3. ASSUME q.user \in Orderly PROVE ReadIsTrue(q)'
  <2>1. q.user # v /\ customer'[q.user] = customer[q.user]
    BY <1>1, <1>3 DEF Touches
  <2>2. ReadIsTrue(q)
    BY <1>1, <1>3 DEF Foreseen, InFlight
  <2>3. q.phase = "saveAddress" => q.id \notin deleted'
    BY <1>1, <2>1, <2>2 DEF HoldsOwn, HoldsOwnId, Touches, ReadIsTrue
  <2> QED
    BY <2>1, <2>2, <2>3 DEF ReadIsTrue
<1> QED
  BY <1>2, <1>3 DEF Foreseen

\* One request moves, for user v: the others need no look.
LEMMA OrderlyStep ==
    ASSUME OrderlyInv, NEW v \in Users, NEW r \in Reqs, Touches(v),
           \A x \in Reqs \ {r} : request'[x] = request[x],
           request'[r].user = v,
           \A x \in Reqs \ {r} : InFlight(x) /\ request[x].user = v => v \notin Orderly,
           Foreseen(request[r])'
    PROVE  OneAtATime' /\ \A x \in Reqs : Foreseen(request[x])'
<1>1. \A x \in Reqs : Foreseen(request[x])'
  <2> SUFFICES ASSUME NEW x \in Reqs, x # r PROVE Foreseen(request[x])'
    OBVIOUS
  <2>1. CASE InFlight(x)
    BY <2>1, OthersUndisturbed
  <2>2. CASE ~InFlight(x)
    BY <2>2 DEF InFlight, Foreseen, DeletesOwn
  <2> QED
    BY <2>1, <2>2
<1>2. OneAtATime'
  BY DEF OneAtATime, InFlight, OrderlyInv
<1> QED
  BY <1>1, <1>2

LEMMA BeginOrderly ==
    ASSUME OrderlyInv, NEW r \in Reqs, Begin(r)
    PROVE  /\ OneAtATime' /\ \A x \in Reqs : Foreseen(request[x])'
           /\ DeletedWereCreated' /\ DeletedStaysDeleted'
<1>0. TypeOK /\ Inv
  BY DEF OrderlyInv, Inv
<1>1. /\ UNCHANGED <<customer, address, deleted>>
      /\ \A x \in Reqs \ {r} : request'[x] = request[x]
      /\ \A id \in AddrIds : idOwner[id] # None => idOwner'[id] = idOwner[id]
  BY <1>0 DEF Begin, BeginCreate, IsFresh, BeginUpdate, ReadAddress, BeginProfile, BeginProvision,
              Begins, Respond, Become, TypeOK
<1>2. \A v \in Users : Touches(v)
  BY <1>1 DEF Touches
<1>3. DeletedWereCreated' /\ DeletedStaysDeleted'
  BY <1>0, <1>1 DEF OrderlyInv, DeletedWereCreated, DeletedStaysDeleted, TypeOK
<1>4. ASSUME NEW u \in Users, Begins(r, u), request'[r].user = u, Foreseen(request[r])'
      PROVE  OneAtATime' /\ \A x \in Reqs : Foreseen(request[x])'
  <2>1. \A x \in Reqs \ {r} : InFlight(x) /\ request[x].user = u => u \notin Orderly
    BY <1>4 DEF Begins, Busy, Orderly
  <2> QED
    BY <1>1, <1>2, <1>4, <2>1, OrderlyStep
<1> USE DEF Foreseen, DeletesOwn, ReadIsTrue
\* Whatever an answer says, it foresees nothing.
<1>5. ASSUME NEW u \in Users, NEW s, Respond(r, u, s)
      PROVE  request'[r].user = u /\ Foreseen(request[r])'
  BY <1>0, <1>5, BecomeOK DEF Respond
<1>6. ASSUME NEW u \in Users, NEW id \in AddrIds, NEW c \in Contents, BeginCreate(r, u, id, c)
      PROVE  Begins(r, u) /\ request'[r].user = u /\ Foreseen(request[r])'
  <2>1. IsFresh(id) => id \notin deleted
    BY DEF OrderlyInv, DeletedWereCreated, IsFresh
  <2> QED
    BY <1>0, <1>1, <1>5, <1>6, <2>1, BecomeOK DEF BeginCreate
<1>7. ASSUME NEW u \in Users, NEW id \in AddrIds, NEW c \in Contents, BeginUpdate(r, u, id, c)
      PROVE  Begins(r, u) /\ request'[r].user = u /\ Foreseen(request[r])'
  <2>1. Owns(u, id) /\ u \in Orderly => id \notin deleted
    BY DEF OrderlyInv, Inv, OwnerIsCreator, DeletedStaysDeleted, Owns
  <2> QED
    BY <1>0, <1>1, <1>5, <1>7, <2>1, BecomeOK DEF BeginUpdate
<1>8. ASSUME NEW u \in Users, NEW id \in AddrIds,
             NEW k \in {"delete", "deleteRespelled", "setDefault"}, ReadAddress(r, u, id, k)
      PROVE  Begins(r, u) /\ request'[r].user = u /\ Foreseen(request[r])'
  BY <1>0, <1>5, <1>8, BecomeOK DEF ReadAddress, Orderly
<1>9. ASSUME NEW u \in Users, NEW c \in Contents, BeginProfile(r, u, c)
      PROVE  Begins(r, u) /\ request'[r].user = u /\ Foreseen(request[r])'
  <2>1. customer[u] # NoRow => Patched(customer[u], c).default = customer[u].default
    BY <1>0 DEF TypeOK, Customers, Patched
  <2> QED
    BY <1>0, <1>1, <1>5, <1>9, <2>1, BecomeOK DEF BeginProfile
<1>10. ASSUME NEW u \in Users, NEW c \in Contents, BeginProvision(r, u, c)
       PROVE  Begins(r, u) /\ request'[r].user = u /\ Foreseen(request[r])'
  BY <1>0, <1>1, <1>5, <1>10, BecomeOK DEF BeginProvision
<1>11. PICK u \in Users : Begins(r, u) /\ request'[r].user = u /\ Foreseen(request[r])'
  BY <1>6, <1>7, <1>8, <1>9, <1>10 DEF Begin
<1> QED
  BY <1>3, <1>4, <1>11

\* A DELETE removes an address of its own user, which is not the user's default
\* when the user is orderly.
LEMMA DeletesOwnAddress ==
    ASSUME OrderlyInv, NEW r \in Reqs, DeleteAddress(r),
           NEW w \in Users, customer[w] # NoRow, customer[w].default = request[r].id
    PROVE  w = request[r].user /\ w \notin Orderly
<1>1. request[r].id \in AddrIds /\ request[r].id # None /\ Foreseen(request[r])
  BY RequestFields, SentinelsOK DEF DeleteAddress, OrderlyInv, Inv
<1>2. idOwner[request[r].id] = w /\ idOwner[request[r].id] = request[r].user
  BY <1>1, DefaultWasCreatedForOwner DEF OrderlyInv, Foreseen, DeletesOwn, HoldsOwnId, DeleteAddress
<1> QED
  BY <1>1, <1>2 DEF Foreseen, ReadIsTrue, DeleteAddress

LEMMA ContinueTouches ==
    ASSUME OrderlyInv, NEW r \in Reqs, Continue(r)
    PROVE  /\ request[r].user \in Users /\ InFlight(r)
           /\ Touches(request[r].user)
           /\ request'[r].user = request[r].user
           /\ UNCHANGED idOwner
           /\ \A x \in Reqs \ {r} : request'[x] = request[x]
<1> DEFINE u == request[r].user
<1>0. TypeOK
  BY DEF OrderlyInv, Inv
<1>1. InFlight(r) /\ u \in Users
  BY <1>0, RequestFields DEF Continue, SaveAddress, ReadCustomer, DeleteAddress, SaveCustomer,
                             UpsertCustomer, QueryFails, InFlight
<1>2. UNCHANGED idOwner /\ \A x \in Reqs \ {r} : request'[x] = request[x]
  BY <1>0 DEF Continue, SaveAddress, ReadCustomer, DeleteAddress, SaveCustomer, UpsertCustomer,
              QueryFails, Respond, Become, TypeOK
<1>3. request'[r].user = u
  BY <1>0 DEF Continue, SaveAddress, ReadCustomer, DeleteAddress, SaveCustomer, UpsertCustomer,
              QueryFails, Respond, Become, TypeOK
<1>4. CASE DeleteAddress(r)
  <2>1. \A w \in Users \ {u} : customer'[w] = customer[w]
    BY <1>0, <1>4, DeletesOwnAddress DEF DeleteAddress, TypeOK
  <2>2. idOwner[request[r].id] = u
    BY <1>4 DEF DeleteAddress, OrderlyInv, Foreseen, DeletesOwn, HoldsOwnId
  <2> QED
    BY <1>1, <1>2, <1>3, <1>4, <2>1, <2>2 DEF DeleteAddress, Touches
<1>5. CASE ~DeleteAddress(r)
  <2>1. UNCHANGED deleted /\ \A w \in Users \ {u} : customer'[w] = customer[w]
    BY <1>0, <1>5 DEF Continue, SaveAddress, ReadCustomer, SaveCustomer, UpsertCustomer, QueryFails,
                      TypeOK
  <2> QED
    BY <1>1, <1>2, <1>3, <2>1 DEF Touches
<1> QED
  BY <1>4, <1>5

LEMMA ContinueOrderly ==
    ASSUME OrderlyInv, NEW r \in Reqs, Continue(r)
    PROVE  /\ OneAtATime' /\ \A x \in Reqs : Foreseen(request[x])'
           /\ DeletedWereCreated' /\ DeletedStaysDeleted'
<1> DEFINE q == request[r]
<1> DEFINE u == q.user
<1>0. TypeOK /\ Inv /\ Foreseen(q) /\ HoldsOwn(q)
  BY DEF OrderlyInv, Inv, RequestsHoldOwnIds, HoldsOwn
<1>1. /\ u \in Users /\ InFlight(r) /\ Touches(u) /\ request'[r].user = u
      /\ UNCHANGED idOwner /\ \A x \in Reqs \ {r} : request'[x] = request[x]
  BY ContinueTouches
<1>2. \A x \in Reqs \ {r} : InFlight(x) /\ request[x].user = u => u \notin Orderly
  BY <1>1 DEF OrderlyInv, OneAtATime
<1>3. Foreseen(request[r])'
  <2>1. CASE ReadCustomer(r)
    <3>1. CASE Become(r, [phase |-> "deleteAddress", user |-> u, id |-> q.id])
               /\ q.kind # "setDefault" /\ ~RecognisesDefault(q)
      <4>1. u \in Orderly => q.kind = "delete" /\ customer[u].default # q.id
        BY <1>0, <2>1, <3>1, RequestFields
           DEF ReadCustomer, Foreseen, ReadIsTrue, RecognisesDefault, IsDefault
      <4>2. request'[r] = [phase |-> "deleteAddress", user |-> u, id |-> q.id]
        BY <1>0, <3>1, BecomeOK
      <4>3. HoldsOwnId(u, q.id)
        BY <1>0, <2>1 DEF HoldsOwn, ReadCustomer
      <4>4. UNCHANGED <<customer, idOwner>>
        BY <2>1 DEF ReadCustomer
      <4> QED
        BY <4>1, <4>2, <4>3, <4>4 DEF Foreseen, DeletesOwn, ReadIsTrue, HoldsOwnId
    <3>2. CASE Respond(r, u, "in_use")
      BY <1>0, <3>2, BecomeOK DEF Respond, Foreseen, DeletesOwn
    <3>3. CASE Become(r, [phase |-> "saveCustomer", kind |-> "setDefault", user |-> u,
                          entity |-> WithDefault(customer[u], q.id)])
      <4>1. customer[u] \in Customers /\ q.id \in AddrIds /\ UNCHANGED customer
        BY <1>0, <1>1, <2>1, RequestFields DEF ReadCustomer, Inv, OwnersNamed, TypeOK
      <4>2. request'[r] = [phase |-> "saveCustomer", kind |-> "setDefault", user |-> u,
                           entity |-> WithDefault(customer[u], q.id)]
        BY <1>0, <3>3, BecomeOK
      <4>3. WithDefault(customer[u], q.id).content = customer[u].content
            /\ WithDefault(customer[u], q.id).default = q.id
        BY <4>1 DEF Customers, WithDefault
      <4> QED
        BY <4>1, <4>2, <4>3, SentinelsOK DEF Foreseen, DeletesOwn, ReadIsTrue
    <3> QED
      BY <2>1, <3>1, <3>2, <3>3 DEF ReadCustomer
  <2>2. CASE ~ReadCustomer(r)
    <3>1. request'[r].phase = "done"
      BY <1>0, <2>2, BecomeOK DEF Continue, SaveAddress, DeleteAddress, SaveCustomer,
                                  UpsertCustomer, QueryFails, Respond
    <3> QED
      BY <3>1 DEF Foreseen, DeletesOwn
  <2> QED
    BY <2>1, <2>2
<1>4. DeletedWereCreated' /\ DeletedStaysDeleted'
  <2>1. CASE DeleteAddress(r)
    <3>1. q.id \in AddrIds /\ idOwner[q.id] = u /\ u # None
      BY <1>0, <1>1, <2>1, SentinelsOK DEF Foreseen, DeletesOwn, HoldsOwnId, DeleteAddress
    <3> QED
      BY <1>0, <1>1, <2>1, <3>1
         DEF OrderlyInv, DeletedWereCreated, DeletedStaysDeleted, DeleteAddress, TypeOK
  <2>2. CASE SaveAddress(r)
    <3>1. q.id \in AddrIds /\ idOwner[q.id] = u
      BY <1>0, <2>2 DEF HoldsOwn, HoldsOwnId, SaveAddress
    <3>2. u \in Orderly => q.id \notin deleted
      BY <1>0, <2>2 DEF Foreseen, ReadIsTrue, SaveAddress
    <3> QED
      BY <1>0, <1>1, <2>2, <3>1, <3>2
         DEF OrderlyInv, DeletedWereCreated, DeletedStaysDeleted, SaveAddress, TypeOK
  <2>3. CASE UNCHANGED <<address, deleted>>
    BY <1>1, <2>3 DEF OrderlyInv, DeletedWereCreated, DeletedStaysDeleted
  <2> QED
    BY <2>1, <2>2, <2>3 DEF Continue, ReadCustomer, SaveCustomer, UpsertCustomer, QueryFails
<1> QED
  BY <1>1, <1>2, <1>3, <1>4, OrderlyStep

LEMMA InitOrderly == Init => OrderlyInv
<1> SUFFICES ASSUME Init PROVE OrderlyInv
  OBVIOUS
<1>1. Inv
  BY InitInv
<1>2. OneAtATime /\ \A r \in Reqs : Foreseen(request[r])
  BY DEF Init, Idle, OneAtATime, InFlight, Foreseen, DeletesOwn
<1>3. DeletedWereCreated /\ DeletedStaysDeleted
  BY DEF Init, DeletedWereCreated, DeletedStaysDeleted
<1> QED
  BY <1>1, <1>2, <1>3 DEF OrderlyInv

LEMMA NextOrderly == OrderlyInv /\ [Next]_vars => OrderlyInv'
<1> SUFFICES ASSUME OrderlyInv, [Next]_vars PROVE OrderlyInv'
  OBVIOUS
<1>0. Inv'
  BY NextInv DEF OrderlyInv
<1>1. ASSUME NEW r \in Reqs, Begin(r) PROVE OrderlyInv'
  BY <1>0, <1>1, BeginOrderly DEF OrderlyInv
<1>2. ASSUME NEW r \in Reqs, Continue(r) PROVE OrderlyInv'
  BY <1>0, <1>2, ContinueOrderly DEF OrderlyInv
<1>3. CASE Crash
  <2>1. \A r \in Reqs : request'[r].phase \in {"idle", "done"}
    BY <1>3 DEF Crash, InFlight
  <2>2. OneAtATime' /\ \A r \in Reqs : Foreseen(request[r])'
    BY <2>1 DEF OneAtATime, InFlight, Foreseen, DeletesOwn
  <2>3. DeletedWereCreated' /\ DeletedStaysDeleted'
    BY <1>3 DEF Crash, OrderlyInv, DeletedWereCreated, DeletedStaysDeleted
  <2> QED
    BY <1>0, <2>2, <2>3 DEF OrderlyInv
<1>4. CASE UNCHANGED vars
  BY <1>0, <1>4 DEF vars, OrderlyInv, OneAtATime, InFlight, Foreseen, DeletesOwn, HoldsOwnId,
                    ReadIsTrue, DeletedWereCreated, DeletedStaysDeleted
<1> QED
  BY <1>1, <1>2, <1>3, <1>4 DEF Next, AllDone

\* A deleted address of an orderly user is not written back.
THEOREM DeletedAreGone == Spec => []DeletedStaysDeleted
<1>1. OrderlyInv => DeletedStaysDeleted
  BY DEF OrderlyInv
<1> QED
  BY <1>1, InitOrderly, NextOrderly, PTL DEF Spec

\* What begins an operation writes no row.
LEMMA BeginWritesNothing ==
    ASSUME NEW r \in Reqs, Begin(r) PROVE UNCHANGED <<customer, address, deleted>>
BY DEF Begin, BeginCreate, BeginUpdate, ReadAddress, BeginProfile, BeginProvision, Begins

LEMMA RowWriters ==
    ASSUME Next
    PROVE  \/ \E r \in Reqs : \/ SaveAddress(r) \/ DeleteAddress(r)
                              \/ SaveCustomer(r) \/ UpsertCustomer(r)
           \/ UNCHANGED <<customer, address>>
<1>1. ASSUME NEW r \in Reqs, Begin(r) PROVE UNCHANGED <<customer, address>>
  BY <1>1, BeginWritesNothing
<1>2. ASSUME NEW r \in Reqs, ReadCustomer(r) \/ QueryFails(r)
      PROVE  UNCHANGED <<customer, address>>
  BY <1>2 DEF ReadCustomer, QueryFails
<1>3. Crash \/ AllDone => UNCHANGED <<customer, address>>
  BY DEF Crash, AllDone, vars
<1> QED
  BY <1>1, <1>2, <1>3 DEF Next, Continue

LEMMA StepKeepsDefaults ==
    ASSUME OrderlyInv, Next PROVE KeepsDefaults(Orderly)
<1> SUFFICES ASSUME NEW u \in Orderly, NEW id \in AddrIds, customer[u] # NoRow,
                    customer[u].default = id, address[id] # NoRow
             PROVE  address'[id] # NoRow
  BY DEF KeepsDefaults
<1>0. TypeOK /\ u \in Users
  BY DEF OrderlyInv, Inv, Orderly
<1>1. ASSUME NEW r \in Reqs, SaveAddress(r)
      PROVE  address'[id] # NoRow
  <2>1. request[r].id \in AddrIds /\ request[r].entity \in Addresses
    BY <1>0, <1>1, RequestFields DEF SaveAddress
  <2>2. Edited(address[id], request[r].entity.content) \in Addresses
    BY <1>0, <2>1 DEF TypeOK, Addresses, Edited
  <2> QED
    BY <1>0, <1>1, <2>1, <2>2, SentinelsOK DEF SaveAddress, TypeOK
<1>2. ASSUME NEW r \in Reqs, DeleteAddress(r)
      PROVE  address'[id] # NoRow
  <2>1. id # request[r].id
    BY <1>0, <1>2, DeletesOwnAddress
  <2> QED
    BY <1>0, <1>2, <2>1 DEF DeleteAddress, TypeOK
<1>3. ASSUME NEW r \in Reqs, SaveCustomer(r) \/ UpsertCustomer(r)
      PROVE  address'[id] # NoRow
  BY <1>3 DEF SaveCustomer, UpsertCustomer
<1> QED
  BY <1>1, <1>2, <1>3, RowWriters

\* No operation, of whichever user, deletes the default address of an orderly user.
THEOREM DefaultsAreKept == Spec => DefaultIsNeverDeleted
<1>1. OrderlyInv /\ [Next]_vars => [KeepsDefaults(Orderly)]_vars
  BY StepKeepsDefaults
<1> QED
  BY <1>1, InitOrderly, NextOrderly, PTL DEF Spec, DefaultIsNeverDeleted

MovesDefaultBySet ==
    \A u \in Orderly :
        customer[u] # NoRow /\ customer'[u].default # customer[u].default =>
            \E r \in Reqs : /\ request[r].phase = "saveCustomer"
                            /\ request[r].kind = "setDefault"
                            /\ request[r].user = u
                            /\ request'[r].phase = "done"

LEMMA StepMovesDefaultBySet ==
    ASSUME OrderlyInv, Next PROVE MovesDefaultBySet
<1> SUFFICES ASSUME NEW u \in Orderly, customer[u] # NoRow,
                    customer'[u].default # customer[u].default
             PROVE  \E r \in Reqs : /\ request[r].phase = "saveCustomer"
                                    /\ request[r].kind = "setDefault"
                                    /\ request[r].user = u
                                    /\ request'[r].phase = "done"
  BY DEF MovesDefaultBySet
<1>0. TypeOK /\ u \in Users
  BY DEF OrderlyInv, Inv, Orderly
<1>1. PICK r \in Reqs : DeleteAddress(r) \/ SaveCustomer(r) \/ UpsertCustomer(r)
  <2>1. \A r \in Reqs : SaveAddress(r) => UNCHANGED customer
    BY DEF SaveAddress
  <2> QED
    BY <2>1, RowWriters
<1>2. ~DeleteAddress(r)
  BY <1>0, DeletesOwnAddress DEF DeleteAddress, TypeOK
<1>3. request[r].user = u /\ customer'[u] = request[r].entity /\ request'[r].phase = "done"
  BY <1>0, <1>1, <1>2, BecomeOK DEF SaveCustomer, UpsertCustomer, Respond, TypeOK
<1>4. ReadIsTrue(request[r])
  BY <1>1, <1>2, <1>3 DEF OrderlyInv, Foreseen, SaveCustomer, UpsertCustomer
<1>5. request[r].phase = "saveCustomer" /\ request[r].kind \in {"setDefault", "profile"}
  <2>1. request[r].phase = "saveCustomer"
    BY <1>1, <1>2, <1>3, <1>4 DEF ReadIsTrue, SaveCustomer, UpsertCustomer
  <2> QED
    BY <1>0, <2>1 DEF TypeOK, Requests, Idle, InFlightRequests
<1> QED
  BY <1>3, <1>4, <1>5 DEF ReadIsTrue

\* An orderly user's default moves by the user's own PUT /me/default-address only.
THEOREM DefaultsMoveOnRequest == Spec => OnlySetDefaultMovesDefault
<1>1. OrderlyInv /\ [Next]_vars => [MovesDefaultBySet]_vars
  BY StepMovesDefaultBySet
<1>2. Spec => [][MovesDefaultBySet]_vars
  BY <1>1, InitOrderly, NextOrderly, PTL DEF Spec
<1> QED
  BY <1>2 DEF OnlySetDefaultMovesDefault, MovesDefaultBySet

-----------------------------------------------------------------------------
(* The refinement of the orderly book *)

BookCustomer == [u \in Orderly |-> customer[u]]

BookAddress == [id \in AddrIds |-> IF id \in OrderlyIds THEN address[id] ELSE NoRow]

BookDeleted == deleted \cap OrderlyIds

LEMMA BookInit == Init => Book!Init
<1> SUFFICES ASSUME Init PROVE Book!Init
  OBVIOUS
<1>1. BookCustomer \in [Orderly -> {NoRow} \cup [content : Contents, default : {None}]]
  <2> SUFFICES ASSUME NEW u \in Orderly, customer[u] # NoRow
               PROVE  customer[u] \in [content : Contents, default : {None}]
    BY DEF BookCustomer
  <2>1. customer[u] \in Customers /\ customer[u].default = None
    BY DEF Init, Orderly
  <2> QED
    BY <2>1 DEF Customers
<1>2. BookAddress = [id \in AddrIds |-> NoRow] /\ BookDeleted = {}
  BY DEF Init, BookAddress, BookDeleted
<1> QED
  BY <1>1, <1>2 DEF Book!Init, BookCustomer, BookAddress, BookDeleted

LEMMA SameBook ==
    ASSUME \A u \in Orderly : customer'[u] = customer[u],
           BookAddress' = BookAddress, BookDeleted' = BookDeleted
    PROVE  UNCHANGED Book!book
<1>1. BookCustomer' = BookCustomer
  BY DEF BookCustomer, Orderly
<1> QED
  BY <1>1 DEF Book!book, BookCustomer, BookAddress, BookDeleted

\* A freshly generated id has no row and was never deleted.
LEMMA BeginStutters ==
    ASSUME OrderlyInv, NEW r \in Reqs, Begin(r)
    PROVE  UNCHANGED Book!book
<1>1. UNCHANGED <<customer, address, deleted>>
  BY BeginWritesNothing
<1>2. \A id \in AddrIds : idOwner'[id] = idOwner[id] \/ idOwner[id] = None
  BY DEF Begin, BeginCreate, IsFresh, BeginUpdate, ReadAddress, BeginProfile, BeginProvision,
         OrderlyInv, Inv, TypeOK
<1>3. \A id \in AddrIds : idOwner[id] = None => address[id] = NoRow /\ id \notin deleted
  BY SentinelsOK DEF OrderlyInv, Inv, TypeOK, Addresses, OwnerIsCreator, DeletedWereCreated
<1>4. deleted \subseteq AddrIds
  BY DEF OrderlyInv, Inv, TypeOK
<1>5. BookAddress' = BookAddress
  BY <1>1, <1>2, <1>3 DEF BookAddress, OrderlyIds, Orderly
<1>6. BookDeleted' = BookDeleted
  BY <1>1, <1>2, <1>3, <1>4 DEF BookDeleted, OrderlyIds, Orderly
<1> QED
  BY <1>1, <1>5, <1>6, SameBook

\* Which ids and customers the writes of an operation reach: those of its user.
LEMMA WritesOwn ==
    ASSUME OrderlyInv, NEW r \in Reqs, Continue(r)
    PROVE  /\ request[r].user \in Users /\ UNCHANGED <<idOwner, OrderlyIds>>
           /\ \A u \in Users \ {request[r].user} : customer'[u] = customer[u]
           /\ \A id \in AddrIds : idOwner[id] # request[r].user =>
                  address'[id] = address[id] /\ (id \in deleted' <=> id \in deleted)
<1> DEFINE q == request[r]
<1>0. /\ q.user \in Users /\ Touches(q.user) /\ UNCHANGED idOwner
      /\ TypeOK /\ Foreseen(q) /\ HoldsOwn(q)
  BY ContinueTouches DEF OrderlyInv, Inv, RequestsHoldOwnIds, HoldsOwn
<1>1. \A id \in AddrIds : idOwner[id] # q.user => address'[id] = address[id]
  <2>1. CASE SaveAddress(r)
    BY <1>0, <2>1 DEF SaveAddress, HoldsOwn, HoldsOwnId, TypeOK
  <2>2. CASE DeleteAddress(r)
    BY <1>0, <2>2 DEF DeleteAddress, Foreseen, DeletesOwn, HoldsOwnId, TypeOK
  <2>3. CASE UNCHANGED address
    BY <2>3
  <2> QED
    BY <2>1, <2>2, <2>3 DEF Continue, ReadCustomer, SaveCustomer, UpsertCustomer, QueryFails
<1>2. deleted \subseteq deleted'
  BY DEF Continue, SaveAddress, ReadCustomer, DeleteAddress, SaveCustomer, UpsertCustomer, QueryFails
<1> QED
  BY <1>0, <1>1, <1>2 DEF Touches, OrderlyIds, Orderly

\* Whatever the others do: a step of theirs is no step of the orderly book.
LEMMA OthersStutter ==
    ASSUME OrderlyInv, NEW r \in Reqs, Continue(r), request[r].user \notin Orderly
    PROVE  UNCHANGED Book!book
<1>1. \A u \in Orderly : customer'[u] = customer[u]
  BY WritesOwn DEF Orderly
<1>2. \A id \in OrderlyIds : address'[id] = address[id] /\ (id \in deleted' <=> id \in deleted)
  BY WritesOwn DEF OrderlyIds
<1>3. OrderlyIds' = OrderlyIds
  BY WritesOwn
<1>4. BookAddress' = BookAddress /\ BookDeleted' = BookDeleted
  BY <1>2, <1>3 DEF BookAddress, BookDeleted
<1> QED
  BY <1>1, <1>4, SameBook

LEMMA SaveAddressRefines ==
    ASSUME OrderlyInv, NEW r \in Reqs, SaveAddress(r), request[r].user \in Orderly
    PROVE  Book!Next
<1> DEFINE q == request[r]
           c == q.entity.content
<1>0. /\ TypeOK /\ q.user \in Users /\ q.id \in OrderlyIds /\ idOwner[q.id] = q.user
      /\ q.id \in AddrIds /\ q.entity = [owner |-> q.user, content |-> c] /\ c \in Contents
      /\ q.id \notin deleted /\ customer[q.user] # NoRow
  <2>1. InFlight(r) /\ q.entity \in Addresses /\ q.id \in AddrIds
    BY RequestFields DEF SaveAddress, InFlight, OrderlyInv, Inv
  <2>2. q.entity.owner = q.user /\ HoldsOwnId(q.user, q.id)
    BY DEF SaveAddress, OrderlyInv, Inv, RequestsHoldOwnIds
  <2>3. q.id \notin deleted
    BY DEF SaveAddress, OrderlyInv, Foreseen, ReadIsTrue
  <2>4. customer[q.user] # NoRow
    BY <2>1 DEF SaveAddress, OrderlyInv, Inv, OwnersNamed
  <2> QED
    BY <2>1, <2>2, <2>3, <2>4 DEF OrderlyInv, Inv, HoldsOwnId, OrderlyIds, Orderly, Addresses
<1>1. UNCHANGED <<customer, deleted>> /\ OrderlyIds' = OrderlyIds
  BY WritesOwn DEF SaveAddress, Continue
<1>2. BookCustomer' = BookCustomer /\ BookDeleted' = BookDeleted
  BY <1>1 DEF BookCustomer, BookDeleted, Orderly
<1>3. address' = [address EXCEPT ![q.id] =
                      IF address[q.id] = NoRow THEN q.entity ELSE Edited(address[q.id], c)]
  BY DEF SaveAddress
<1>4. BookAddress' = [BookAddress EXCEPT ![q.id] =
                          IF address[q.id] = NoRow THEN q.entity ELSE Edited(address[q.id], c)]
  BY <1>0, <1>1, <1>3 DEF BookAddress, TypeOK
<1>5. BookAddress[q.id] = address[q.id] /\ BookCustomer[q.user] = customer[q.user]
  BY <1>0 DEF BookAddress, BookCustomer
<1>a. PICK u \in Orderly, id \in AddrIds, d \in Contents : u = q.user /\ id = q.id /\ d = c
  BY <1>0
<1>6. CASE address[q.id] = NoRow
  <2>1. Book!Create(u, id, d)
    BY <1>0, <1>a, <1>2, <1>4, <1>5, <1>6
       DEF Book!Create, Book!HasRow, BookCustomer, BookAddress, BookDeleted
  <2> QED
    BY <2>1 DEF Book!Next
<1>7. CASE address[q.id] # NoRow
  <2>1. address[q.id].owner = q.user
    BY <1>0, <1>7 DEF OrderlyInv, Inv, OwnerIsCreator
  <2>2. Book!Edit(u, id, d)
    BY <1>0, <1>a, <1>2, <1>4, <1>5, <1>7, <2>1
       DEF Book!Edit, Book!Owns, Edited, BookCustomer, BookAddress, BookDeleted
  <2> QED
    BY <2>2 DEF Book!Next
<1> QED
  BY <1>6, <1>7

LEMMA DeleteAddressRefines ==
    ASSUME OrderlyInv, NEW r \in Reqs, DeleteAddress(r), request[r].user \in Orderly
    PROVE  Book!Next \/ UNCHANGED Book!book
<1> DEFINE q == request[r]
<1>0. /\ TypeOK /\ q.id \in AddrIds /\ idOwner[q.id] = q.user /\ q.user \in Users
      /\ q.id \in OrderlyIds /\ customer[q.user].default # q.id
  BY RequestFields DEF DeleteAddress, InFlight, OrderlyInv, Inv, Foreseen, DeletesOwn, ReadIsTrue,
                       HoldsOwnId, OrderlyIds, Orderly
<1>1. OrderlyIds' = OrderlyIds
  BY WritesOwn DEF Continue
<1>2. CASE UNCHANGED <<customer, address, deleted>>
  <2>1. BookAddress' = BookAddress /\ BookDeleted' = BookDeleted
    BY <1>1, <1>2 DEF BookAddress, BookDeleted
  <2> QED
    BY <1>2, <2>1, SameBook
<1>3. CASE ~UNCHANGED <<customer, address, deleted>>
  <2>1. /\ address[q.id] # NoRow /\ address' = [address EXCEPT ![q.id] = NoRow]
        /\ deleted' = deleted \cup {q.id}
    BY <1>3 DEF DeleteAddress
  <2>2. \A u \in Orderly : customer'[u] = customer[u]
    BY <1>0, DeletesOwnAddress DEF DeleteAddress, Orderly
  <2>3. BookCustomer' = BookCustomer
    BY <2>2 DEF BookCustomer, Orderly
  <2>4. BookAddress' = [BookAddress EXCEPT ![q.id] = NoRow] /\ BookAddress[q.id] = address[q.id]
    BY <1>0, <1>1, <2>1 DEF BookAddress, TypeOK
  <2>5. BookDeleted' = BookDeleted \cup {q.id}
    BY <1>0, <1>1, <2>1 DEF BookDeleted
  <2>6. address[q.id].owner = q.user
    BY <1>0, <2>1 DEF OrderlyInv, Inv, OwnerIsCreator
  <2>a. PICK u \in Orderly, id \in AddrIds : u = q.user /\ id = q.id
    BY <1>0
  <2>7. Book!Delete(u, id)
    BY <1>0, <2>a, <2>1, <2>3, <2>4, <2>5, <2>6
       DEF Book!Delete, Book!Owns, BookCustomer, BookAddress, BookDeleted
  <2> QED
    BY <2>7 DEF Book!Next
<1> QED
  BY <1>2, <1>3

\* A customer row written whole: one field differs from the row in the table.
LEMMA CustomerWriteRefines ==
    ASSUME OrderlyInv, NEW r \in Reqs, SaveCustomer(r) \/ UpsertCustomer(r), request[r].user \in Orderly
    PROVE  Book!Next \/ UNCHANGED Book!book
<1> DEFINE q == request[r]
           e == q.entity
<1>0. /\ TypeOK /\ q.user \in Users /\ ReadIsTrue(q) /\ HoldsOwn(q) /\ InFlight(r)
      /\ e \in Customers /\ e = [content |-> e.content, default |-> e.default]
  <2>1. TypeOK /\ InFlight(r) /\ HoldsOwn(q)
    BY DEF SaveCustomer, UpsertCustomer, InFlight, OrderlyInv, Inv, RequestsHoldOwnIds, HoldsOwn
  <2>2. q.user \in Users /\ e \in Customers
    BY <2>1, RequestFields DEF SaveCustomer, UpsertCustomer
  <2> QED
    BY <2>1, <2>2 DEF InFlight, OrderlyInv, Foreseen, Customers
<1>1. UNCHANGED <<address, deleted>> /\ OrderlyIds' = OrderlyIds
  BY WritesOwn DEF SaveCustomer, UpsertCustomer, Continue
<1>2. BookAddress' = BookAddress /\ BookDeleted' = BookDeleted
  BY <1>1 DEF BookAddress, BookDeleted
<1>3. CASE UNCHANGED customer
  BY <1>2, <1>3, SameBook
<1>4. CASE ~UNCHANGED customer
  <2>1. customer' = [customer EXCEPT ![q.user] = e]
    BY <1>4 DEF SaveCustomer, UpsertCustomer
  <2>2. BookCustomer' = [BookCustomer EXCEPT ![q.user] = e] /\ BookCustomer[q.user] = customer[q.user]
    BY <1>0, <2>1 DEF BookCustomer, Orderly, TypeOK
  <2>3. customer[q.user] = NoRow \/ customer[q.user] \in Customers
    BY <1>0 DEF TypeOK
  <2>a. PICK u \in Orderly, d \in Contents : u = q.user /\ d = e.content
    BY <1>0 DEF Customers
  <2>4. CASE UpsertCustomer(r)
    <3>1. customer[q.user] = NoRow /\ e.default = None
      BY <1>0, <2>4 DEF UpsertCustomer, ReadIsTrue, OrderlyInv, Inv, RequestsHoldOwnIds
    <3>2. Book!Provision(u, d)
      BY <1>0, <2>a, <1>2, <2>2, <3>1
         DEF Book!Provision, Book!HasRow, BookCustomer, BookAddress, BookDeleted
    <3> QED
      BY <3>2 DEF Book!Next
  <2>5. CASE SaveCustomer(r)
    <3>1. customer[q.user] \in Customers
      BY <1>0, <2>3, <2>5 DEF SaveCustomer, OrderlyInv, Inv, OwnersNamed
    <3>2. customer[q.user] # NoRow
      BY <3>1, SentinelsOK
    <3>3. q.kind \in {"setDefault", "profile"} /\ q.phase = "saveCustomer"
      BY <1>0, <2>5 DEF SaveCustomer, TypeOK, Requests, Idle, InFlightRequests
    <3>4. CASE q.kind = "profile"
      <4>1. e = [customer[q.user] EXCEPT !.content = e.content]
        BY <1>0, <3>1, <3>3, <3>4 DEF ReadIsTrue, Customers
      <4>2. Book!EditProfile(u, d)
        BY <1>0, <2>a, <1>2, <2>2, <3>2, <4>1
           DEF Book!EditProfile, Book!HasRow, BookCustomer, BookAddress, BookDeleted
      <4> QED
        BY <4>2 DEF Book!Next
    <3>5. CASE q.kind = "setDefault"
      <4>1. e = [customer[q.user] EXCEPT !.default = e.default] /\ e.default # None
        BY <1>0, <3>1, <3>3, <3>5 DEF ReadIsTrue, Customers
      <4>2. e.default \in AddrIds /\ idOwner[e.default] = q.user /\ e.default \in OrderlyIds
        BY <1>0, <3>3, <4>1 DEF HoldsOwn, HoldsOwnId, OrderlyIds
      <4>3. address[e.default] # NoRow
        BY <1>4, <2>5, <4>1 DEF SaveCustomer
      <4>4. address[e.default].owner = q.user /\ BookAddress[e.default] = address[e.default]
        BY <4>2, <4>3 DEF OrderlyInv, Inv, OwnerIsCreator, BookAddress
      <4>a. PICK id \in AddrIds : id = e.default
        BY <4>2
      <4>5. Book!SetDefault(u, id)
        BY <1>0, <2>a, <4>a, <1>2, <2>2, <4>1, <4>3, <4>4
           DEF Book!SetDefault, Book!Owns, BookCustomer, BookAddress, BookDeleted
      <4> QED
        BY <4>5 DEF Book!Next
    <3> QED
      BY <3>3, <3>4, <3>5
  <2> QED
    BY <2>4, <2>5
<1> QED
  BY <1>3, <1>4

LEMMA BookStep == OrderlyInv /\ [Next]_vars => [Book!Next]_(Book!book)
<1> SUFFICES ASSUME OrderlyInv, [Next]_vars PROVE Book!Next \/ UNCHANGED Book!book
  OBVIOUS
<1>1. CASE UNCHANGED <<customer, address, deleted, idOwner>>
  <2>1. BookAddress' = BookAddress /\ BookDeleted' = BookDeleted
    BY <1>1 DEF BookAddress, BookDeleted, OrderlyIds, Orderly
  <2> QED
    BY <1>1, <2>1, SameBook
<1>2. ASSUME NEW r \in Reqs, Begin(r) PROVE UNCHANGED Book!book
  BY <1>2, BeginStutters
<1>3. ASSUME NEW r \in Reqs, Continue(r) PROVE Book!Next \/ UNCHANGED Book!book
  <2>1. CASE request[r].user \notin Orderly
    BY <1>3, <2>1, OthersStutter
  <2>2. CASE request[r].user \in Orderly
    <3>1. ReadCustomer(r) \/ QueryFails(r) => UNCHANGED <<customer, address, deleted, idOwner>>
      BY DEF ReadCustomer, QueryFails
    <3> QED
      BY <1>1, <1>3, <2>2, <3>1, SaveAddressRefines, DeleteAddressRefines, CustomerWriteRefines DEF Continue
  <2> QED
    BY <2>1, <2>2
<1> QED
  BY <1>1, <1>2, <1>3 DEF Next, Crash, AllDone, vars

\* For users who do one thing at a time each operation of the address book takes
\* effect in one step or not at all, whatever the other users do and whatever
\* fails: several queries without a transaction look like one.
THEOREM ImplementsOrderlyBook == Spec => BookSpec
<1>1. Spec => []OrderlyInv
  BY InitOrderly, NextOrderly, PTL DEF Spec
<1> QED
  BY <1>1, BookInit, BookStep, PTL DEF Spec, BookSpec, Book!Spec
=============================================================================
