\* Duplicate recoveries of one aborted stream.
SPECIFICATION Spec
CONSTANTS
    e1 = e1
    e2 = e2
    None = None
    Events = {e1}
    Disconnected = {e1}
    Cost <- MCCost
    Target <- MCTarget
    Scopes <- MCScopes
    Workers = {w1}
    Recoverers = {x1, x2}
    BatchCount = 2
    MaxRecoveries = 3
    MaxFaults = 2
SYMMETRY MCSymmetry
INVARIANTS
    PInv
    RecoveredTotal
    CountedOnce
