\* A request with up to two records beside one whose credits are short.
SPECIFICATION FairSpec
CONSTANTS
    t1 = t1
    t2 = t2
    r1 = r1
    r2 = r2
    TenantOf <- MCTenantOf
    Grace <- MCGrace
    Tenants = {t1, t2}
    Requests = {r1, r2}
    Estimate = 2
    Costs = {0, 1, 3}
    MaxRecords <- MCMaxRecords
    MaxFaults = 1
INVARIANTS
    RefusedGivesBack
    NeverOvercharged
    OneRecordExact
PROPERTIES
    RecordsResolve
\* Requests are served once: when all are over nothing is left to do.
CHECK_DEADLOCK FALSE
