---------------------------- MODULE MCBudgetGuard ----------------------------
(* Small instances of BudgetGuard for TLC.                                 *)
EXTENDS BudgetGuard, TLC

CONSTANTS r1, r2, r3

=============================================================================
