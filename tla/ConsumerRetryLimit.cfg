SPECIFICATION Spec

CONSTANTS
    NumMsgs      = 2
    Events       = {"e1", "e2", "e3", "e4"}
    Kind        <- OnlyPoison
    EventOf     <- OnlyPoisonEvents
    Header      <- OnlyPoisonHeader
    Prefetch     = 2
    MaxFailures  = 0
    MaxCrashes   = 0

INVARIANT RetriesAreLimited
