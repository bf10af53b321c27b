SPECIFICATION Spec

CONSTANTS
    Users      = {u1, u2}
    AddrIds    = {a1, a2}
    Contents   = {x}
    Reqs       = {r1, r2, r3, r4, r5}
    None       = None
    NoRow      = NoRow
    Overlap    = {u1}
    Respelling = {u1}
    Faults     = TRUE

SYMMETRY Interchangeable

INVARIANTS
    TypeOK
    OwnerIsCreator
    DefaultIsOwned
PROPERTIES
    DefaultIsNeverDeleted
    OnlySetDefaultMovesDefault
    BookSpec
