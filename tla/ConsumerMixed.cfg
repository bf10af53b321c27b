SPECIFICATION FairSpec

CONSTANTS
    NumMsgs      = 9
    Events       = {"e1", "e2", "e3", "e4", "e5"}
    Kind        <- MixedKinds
    EventOf     <- MixedEvents
    Header      <- MixedHeaders
    Prefetch     = 2
    MaxFailures  = 1
    MaxCrashes   = 2

INVARIANTS
    TypeOK
    RecordedOnceWithEffects
    OvertakingIsBounded
    StarvedAreNeverServed
PROPERTIES
    InboxSpec
    HealthySettle
