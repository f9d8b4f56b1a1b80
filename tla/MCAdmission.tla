----------------------------- MODULE MCAdmission -----------------------------
(* Small instances of Admission for TLC.                                   *)
EXTENDS Admission

CONSTANTS t1, t2, r1, r2

MCTenantOf == [r \in Requests |-> IF r = r1 THEN t1 ELSE t2]

\* Room for a hold of 2 at t1; at t2 only a failing guard lets a request pass.
MCGrace == [t \in Tenants |-> IF t = t1 THEN 3 ELSE 1]

\* The second request is there to be refused.
MCMaxRecords == [r \in Requests |-> IF r = r1 THEN 2 ELSE 0]

=============================================================================
