--------------------------- MODULE MCVectorIngest ---------------------------
(* Small instances of VectorIngest for TLC.                                *)
EXTENDS VectorIngest, TLC

CONSTANTS t1, s1, r1, r2, p1, p2, w1, c1

MCHost == w1 :> p1 @@ c1 :> p2
MCStoreOf == [r \in Rows |-> s1]
MCTenantOf == [s \in Stores |-> t1]

=============================================================================
