--------------------------- MODULE MCBatchWindow ---------------------------
(* Small instances of BatchWindow for TLC.                                 *)
EXTENDS BatchWindow, TLC

CONSTANTS p1, p2, i1, i2, t1

MCHome == [i \in Items |-> IF i = i2 THEN p2 ELSE p1]
MCTenantOf == [i \in Items |-> t1]

=============================================================================
