SPECIFICATION Spec

CONSTANTS
    Users      = {u1}
    Changes    = 3
    Reqs       = {}
    Deliveries = {"in_order"}
    MaxFaults  = 0

INVARIANT DemotedLoseTheirRow
