--------------------------- MODULE MCCreditLedger ---------------------------
(* Small instances of CreditLedger for TLC.                                *)
EXTENDS CreditLedger

CONSTANTS t1

\* All requests are billed to t1, so that they contend for one balance row; a
\* second tenant takes part only in the race for an idempotency key.
MCTenantOf == [r \in Requests |-> t1]

\* Room for one hold of 2 without a top-up, not for two.
MCGrace == [t \in Tenants |-> IF t = t1 THEN 3 ELSE 0]

=============================================================================
