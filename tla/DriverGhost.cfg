SPECIFICATION Spec

CONSTANTS
    Users    = {u1}
    Reqs     = {r1}
    Msgs     = {m1}
    Vehicles = {van}
    Plates   = {plate}
    None     = None
    NoRow    = NoRow
    Overlap  = {u1}
    Faults  <- NoFaults

INVARIANT NoGhostAvailability
