SPECIFICATION Spec

CONSTANTS
    Absent      = Absent
    Null        = Null
    NoToken     = NoToken
    Headers    <- SampleHeaders
    SomeBodies <- SampleBodies

INVARIANTS
    TypeOK
    HandlersAreGated
    DocumentedAreAdmitted
    AcceptedCanBeReadBack
    OnlyKnownGaps
