\* Two tenants race with one idempotency key while a request is admitted and settled.
SPECIFICATION FairSpec
CONSTANTS
    t1 = t1
    None = None
    TenantOf <- MCTenantOf
    Grace <- MCGrace
    Tenants = {t1, t2}
    Requests = {r1}
    Keys = {k1}
    Sessions = {s1, s2}
    Sweepers = {}
    Estimates = {5}
    Costs = {6}
    Amounts = {2, 3}
    BatchSize = 1
    SweepOn = FALSE
    MaxFaults = 1
INVARIANTS
    BalanceIsLedgerSum
    KeyAppliedOnce
    AnswersHonest
PROPERTIES
    TransactionsEnd
