SPECIFICATION FairSpec

CONSTANTS
    Reqs    = {r1, r2}
    Probes  = {p1}
    Msgs    = {m1}
    Signals = {s1, s2}

INVARIANTS
    TypeOK
    CleanExit
PROPERTIES
    ReadyOverOpenChannel
    ShutdownEnds
