SPECIFICATION Spec

CONSTANTS
    Users      = {u1}
    AddrIds    = {a1}
    Contents   = {x}
    Reqs       = {r1, r2, r3}
    None       = None
    NoRow      = NoRow
    Overlap    = {}
    Respelling = {u1}
    Faults     = FALSE

PROPERTY DeleteRefusesDefault
