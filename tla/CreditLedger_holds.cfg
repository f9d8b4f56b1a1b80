\* Admissions, duplicate finalisers and the sweep on one tenant's balance row.
SPECIFICATION FairSpec
CONSTANTS
    t1 = t1
    None = None
    TenantOf <- MCTenantOf
    Grace <- MCGrace
    Tenants = {t1}
    Requests = {r1, r2}
    Keys = {}
    Sessions = {s1, s2, w1}
    Sweepers = {w1}
    Estimates = {2}
    Costs = {3}
    Amounts = {}
    BatchSize = 1
    SweepOn = TRUE
    MaxFaults = 1
INVARIANTS
    FinalizedOnce
    OverdraftOnlyByOverrun
PROPERTIES
    AccountRefined
    HoldsEventuallyFinalized
\* Without top-ups the ledger is complete once every hold is finalised.
CHECK_DEADLOCK FALSE
