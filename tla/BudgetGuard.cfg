\* Three requests against a budget of one estimate and a half.
SPECIFICATION FairSpec
CONSTANTS
    r1 = r1
    r2 = r2
    r3 = r3
    Requests = {r1, r2, r3}
    Budget = 3
    Estimate = 2
    Costs = {1, 3}
    MaxFaults = 2
INVARIANTS
    BudgetKept
PROPERTIES
    HoldsExpire
\* Requests are served once: when all are over nothing is left to do.
CHECK_DEADLOCK FALSE
