SPECIFICATION Spec

CONSTANTS
    Users    = {u1}
    Reqs     = {r1}
    Msgs     = {m1}
    Vehicles = {van}
    Plates   = {plate}
    None     = None
    NoRow    = NoRow
    Overlap  = {}
    Faults  <- Crashes

INVARIANT EveryChangeAnnounced
