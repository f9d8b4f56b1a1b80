----------------------------- MODULE MCBatchJobs -----------------------------
(* Small instances of BatchJobs for TLC.                                   *)
EXTENDS BatchJobs, TLC

CONSTANTS p1, p2, j1, j2

\* p1 has the durable queue, p2 has not: it drives its job inline.
MCHome == j1 :> p1 @@ j2 :> p2
MCDurable == {p1}

==============================================================================
