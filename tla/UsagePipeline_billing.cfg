\* Two charges, two flushers, faults in every call.
SPECIFICATION FairSpec
CONSTANTS
    e1 = e1
    e2 = e2
    None = None
    Events = {e1, e2}
    Disconnected = {}
    Cost <- MCCost
    Target <- MCTarget
    Scopes <- MCTenantScope
    Workers = {w1, w2}
    Recoverers = {}
    BatchCount = 1
    MaxRecoveries = 0
    MaxFaults = 2
INVARIANTS
    BilledOnce
    NothingLost
PROPERTIES
    ChargesRefined
    EveryChargeBilled
