\* Processes with different settings, one of which dies or loses an answer.
SPECIFICATION FairSpec
CONSTANTS
    p1 = p1
    p2 = p2
    s1 = s1
    w1 = w1
    w2 = w2
    None = None
    Home <- MCHome
    TierOf <- MCTierOf
    Configs <- MCConfigs
    BootConfig <- MCHalves
    Requests = {p1, p2, s1}
    Workers = {w1, w2}
    MaxPuts = 1
    MaxFaults = 1
INVARIANTS
    TInv
    PriorityEarned
    ClusterCapKept
PROPERTIES
    SlotsKept
    SlotsReclaimed
\* Requests are served once: when all are over nothing is left to do.
CHECK_DEADLOCK FALSE
