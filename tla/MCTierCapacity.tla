--------------------------- MODULE MCTierCapacity ---------------------------
(* Small instances of TierCapacity for TLC.                                *)
EXTENDS TierCapacity

CONSTANTS p1, p2, s1, w1, w2

\* The standard request is served by w2, the others by w1.
MCHome == [r \in Requests |-> IF r # s1 THEN w1 ELSE w2]
MCTierOf == [r \in Requests |-> IF r \in {p1, p2} THEN "priority" ELSE "standard"]

\* One slot in each floor and none shared: half of 2 is 1, twice.  Processes start with
\* these.  A second priority request goes to the standard floor; with a standard one,
\* the two floors together are full.
MCHalves == [cluster |-> 2, priorityPct |-> 50, standardPct |-> 50]

\* No floors: 20% of 2 rounds to 0.  A shared pool of two can hold a member past its
\* TTL beside one that is not.
MCSharedOnly == [cluster |-> 2, priorityPct |-> 20, standardPct |-> 20]

MCOff == [cluster |-> 0, priorityPct |-> 20, standardPct |-> 20]

MCConfigs == {MCHalves, MCSharedOnly, MCOff}

=============================================================================
