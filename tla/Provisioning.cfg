SPECIFICATION Spec

CONSTANTS
    Users      = {u1}
    Changes    = 3
    Reqs       = {r1}
    Deliveries = {"one_by_one", "any"}
    MaxFaults  = 1

INVARIANTS
    TypeOK
    DriversAreCustomers
    SavedIsNotDenied
    DriversAreFound
    OwnEditIsShown
    NoTransactionDeadlock
    RowsFollowRole
PROPERTIES
    RegistrySpec
    HandlersKeepInbox
    EveryoneSettles
