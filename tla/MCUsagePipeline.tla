--------------------------- MODULE MCUsagePipeline ---------------------------
(* Small instances of UsagePipeline for TLC.                               *)
EXTENDS UsagePipeline, TLC

CONSTANTS e1, e2

\* e1 is undercharged by its partial floor; e2 costs what was recorded.
MCCost == [e \in Events |-> IF e = e1 THEN 2 ELSE 1]
MCTarget == [e \in Disconnected |-> IF e = e1 THEN 5 ELSE 1]

\* A request's counters: its tenant's, then its key's.
MCScopes == <<"tenant", "key">>
MCTenantScope == <<"tenant">>

MCSymmetry == Permutations(Workers) \cup Permutations(Recoverers)

=============================================================================
