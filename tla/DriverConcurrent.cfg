SPECIFICATION Spec

CONSTANTS
    Users    = {u1}
    Reqs     = {r1, r2}
    Msgs     = {m1, m2}
    Vehicles = {van}
    Plates   = {plate}
    None     = None
    NoRow    = NoRow
    Overlap  = {u1}
    Faults  <- AllFaults

SYMMETRY Interchangeable

INVARIANTS
    TypeOK
    RowsWellFormed
    EventsWarranted
    OkMeansAnnounced
