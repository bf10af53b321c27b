SPECIFICATION Spec

CONSTANTS
    Users    = {u1, u2}
    Reqs     = {r1, r2}
    Msgs     = {m1, m2}
    Vehicles = {van}
    Plates   = {plate}
    None     = None
    NoRow    = NoRow
    Overlap  = {u1}
    Faults  <- Aborts

SYMMETRY Interchangeable

INVARIANTS
    EveryChangeAnnounced
    SettledAgreement
PROPERTIES
    EveryChangeOwesAnEvent
    LedgerSpec
