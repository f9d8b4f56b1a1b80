\* What the sweep leaves behind of a tenant that turned zero data retention on.
SPECIFICATION FairSpec
CONSTANTS
    t1 = t1
    s1 = s1
    r1 = r1
    r2 = r2
    p1 = p1
    p2 = p2
    w1 = w1
    c1 = c1
    None = None
    Host <- MCHost
    StoreOf <- MCStoreOf
    TenantOf <- MCTenantOf
    Tenants = {t1}
    Stores = {s1}
    Rows = {r1, r2}
    Processes = {p1, p2}
    Drivers = {w1, c1}
    Workers = {w1}
    MaxAttaches = 1
    MaxFlips = 1
    MaxFaults = 0
PROPERTIES
    ZdrChunksPurged
\* Attach calls are bounded: when all are over nothing is left to do.
CHECK_DEADLOCK FALSE
