\* Callers race two flushers; calls fail, processes die.
SPECIFICATION FairSpec
CONSTANTS
    p1 = p1
    p2 = p2
    i1 = i1
    i2 = i2
    t1 = t1
    None = None
    Home <- MCHome
    TenantOf <- MCTenantOf
    Processes = {p1, p2}
    Tenants = {t1}
    Items = {i1, i2}
    MaxItems = 2
    MaxFaults = 2
INVARIANTS
    WInv
    TwiceOnlyByFault
PROPERTIES
    DiversionRefined
    CallersAnswered
    WindowsDrained
\* Requests are served once: when all are over nothing is left to do.
CHECK_DEADLOCK FALSE
