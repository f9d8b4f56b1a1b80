\* Jobs driven through the queue and inline; calls fail, processes die and restart.
SPECIFICATION FairSpec
CONSTANTS
    p1 = p1
    p2 = p2
    j1 = j1
    j2 = j2
    None = None
    Home <- MCHome
    Durable <- MCDurable
    Processes = {p1, p2}
    Jobs = {j1, j2}
    MaxRetries = 1
    MaxFaults = 3
INVARIANTS
    JInv
PROPERTIES
    WorkRefined
    JobsEnd
\* Jobs are submitted once: when all are over nothing is left to do.
CHECK_DEADLOCK FALSE
