--------------------------- MODULE BatchJobsProofs ---------------------------
(***************************************************************************)
(* Proofs about BatchJobs, for every number of processes, jobs, retries    *)
(* and faults.  JInv is inductive: each lemma takes one of its parts over  *)
(* every action.                                                           *)
(***************************************************************************)
EXTENDS BatchJobs, TLAPS

-----------------------------------------------------------------------------
\* Every action keeps the types.
LEMMA TypeOKStep ==
    ASSUME TypeOK, RunnersHold, Next
    PROVE  TypeOK'
<1> USE JobsAssumption DEF TypeOK, RunnersHold, Fails, OrNot, Push, Pop, Takes, Goes, Leaves, Drops, vars, rowVars, runnerVars, procVars, Stages, Runners, Terminal, Nonterminal, Terminals, Statuses, Host
<1>1. ASSUME NEW j \in Jobs, Submit(j) PROVE TypeOK'
    BY <1>1 DEF Submit, CreateRow
<1>2. ASSUME NEW j \in Jobs, Enqueue(j) PROVE TypeOK'
    BY <1>2 DEF Enqueue
<1>3. ASSUME NEW j \in Jobs, EnqueueFails(j) PROVE TypeOK'
    BY <1>3 DEF EnqueueFails
<1>4. ASSUME NEW j \in Jobs, Inline(j) PROVE TypeOK'
    BY <1>4 DEF Inline
<1>5. ASSUME NEW p \in Processes, NEW j \in Jobs, Claim(p, j) PROVE TypeOK'
    BY <1>5 DEF Claim, Worker
<1>6. ASSUME NEW p \in Processes, NEW j \in Jobs, ClaimFails(p, j) PROVE TypeOK'
    BY <1>6 DEF ClaimFails, Worker
<1>7. ASSUME NEW p \in Processes, Load(p) PROVE TypeOK'
    BY <1>7 DEF Load
<1>8. ASSUME NEW p \in Processes, LoadFails(p) PROVE TypeOK'
    BY <1>8 DEF LoadFails
<1>9. ASSUME NEW p \in Processes, Count(p) PROVE TypeOK'
    BY <1>9 DEF Count, Exceeds, IncrementRetry
<1>10. ASSUME NEW p \in Processes, CountFails(p) PROVE TypeOK'
    BY <1>10 DEF CountFails, IncrementRetry
<1>11. ASSUME NEW r \in Runners, Start(r) PROVE TypeOK'
    BY <1>11 DEF Start, SetInProgress
<1>12. ASSUME NEW r \in Runners, StartFails(r) PROVE TypeOK'
    BY <1>12 DEF StartFails, SetInProgress
<1>13. ASSUME NEW r \in Runners, Complete(r) PROVE TypeOK'
    BY <1>13 DEF Complete
<1>14. ASSUME NEW r \in Runners, Return(r) PROVE TypeOK'
    BY <1>14 DEF Return
<1>15. ASSUME NEW r \in Runners, Unprocessed(r) PROVE TypeOK'
    BY <1>15 DEF Unprocessed
<1>16. ASSUME NEW r \in Runners, Fail(r) PROVE TypeOK'
    BY <1>16 DEF Fail, Failing, SetFailed
<1>17. ASSUME NEW r \in Runners, FailFails(r) PROVE TypeOK'
    BY <1>17 DEF FailFails, Failing, SetFailed
<1>18. ASSUME NEW p \in Processes, Crash(p) PROVE TypeOK'
    BY <1>18 DEF Crash
<1>19. ASSUME NEW p \in Processes, Restart(p) PROVE TypeOK'
    BY <1>19 DEF Restart, Orphans
<1>20. ASSUME NEW p \in Processes, NEW j \in Jobs, Recover(p, j) PROVE TypeOK'
    BY <1>20 DEF Recover
<1>21. ASSUME NEW p \in Processes, NEW j \in Jobs, RecoverFails(p, j) PROVE TypeOK'
    BY <1>21 DEF RecoverFails
<1>22. ASSUME NEW p \in Processes, Serve(p) PROVE TypeOK'
    BY <1>22 DEF Serve
<1>23. ASSUME NEW j \in Jobs, SubmitUnacknowledged(j) PROVE TypeOK'
    BY <1>23 DEF SubmitUnacknowledged, CreateRow
<1> QED
    BY <1>1, <1>2, <1>3, <1>4, <1>5, <1>6, <1>7, <1>8, <1>9, <1>10, <1>11, <1>12, <1>13, <1>14, <1>15, <1>16, <1>17, <1>18, <1>19, <1>20, <1>21, <1>22, <1>23 DEF Next, Dispatch, Drive, Process, Starting

\* Every action leaves each runner with the job its stage says.
LEMMA RunnersHoldStep ==
    ASSUME TypeOK, RunnersHold, EntriesExist, Next
    PROVE  RunnersHold'
<1> USE JobsAssumption DEF TypeOK, RunnersHold, EntriesExist, Fails, OrNot, Push, Pop, Takes, Goes, Leaves, Drops, vars, rowVars, runnerVars, procVars, Stages, Runners, Terminal, Nonterminal, Terminals, Statuses, Host
<1>1. ASSUME NEW j \in Jobs, Submit(j) PROVE RunnersHold'
    BY <1>1 DEF Submit, CreateRow
<1>2. ASSUME NEW j \in Jobs, Enqueue(j) PROVE RunnersHold'
    BY <1>2 DEF Enqueue
<1>3. ASSUME NEW j \in Jobs, EnqueueFails(j) PROVE RunnersHold'
    BY <1>3 DEF EnqueueFails
<1>4. ASSUME NEW j \in Jobs, Inline(j) PROVE RunnersHold'
    BY <1>4 DEF Inline
<1>5. ASSUME NEW p \in Processes, NEW j \in Jobs, Claim(p, j) PROVE RunnersHold'
    BY <1>5 DEF Claim, Worker
<1>6. ASSUME NEW p \in Processes, NEW j \in Jobs, ClaimFails(p, j) PROVE RunnersHold'
    BY <1>6 DEF ClaimFails, Worker
<1>7. ASSUME NEW p \in Processes, Load(p) PROVE RunnersHold'
    BY <1>7 DEF Load
<1>8. ASSUME NEW p \in Processes, LoadFails(p) PROVE RunnersHold'
    BY <1>8 DEF LoadFails
<1>9. ASSUME NEW p \in Processes, Count(p) PROVE RunnersHold'
    BY <1>9 DEF Count, Exceeds, IncrementRetry
<1>10. ASSUME NEW p \in Processes, CountFails(p) PROVE RunnersHold'
    BY <1>10 DEF CountFails, IncrementRetry
<1>11. ASSUME NEW r \in Runners, Start(r) PROVE RunnersHold'
    BY <1>11 DEF Start, SetInProgress
<1>12. ASSUME NEW r \in Runners, StartFails(r) PROVE RunnersHold'
    BY <1>12 DEF StartFails, SetInProgress
<1>13. ASSUME NEW r \in Runners, Complete(r) PROVE RunnersHold'
    BY <1>13 DEF Complete
<1>14. ASSUME NEW r \in Runners, Return(r) PROVE RunnersHold'
    BY <1>14 DEF Return
<1>15. ASSUME NEW r \in Runners, Unprocessed(r) PROVE RunnersHold'
    BY <1>15 DEF Unprocessed
<1>16. ASSUME NEW r \in Runners, Fail(r) PROVE RunnersHold'
    BY <1>16 DEF Fail, Failing, SetFailed
<1>17. ASSUME NEW r \in Runners, FailFails(r) PROVE RunnersHold'
    BY <1>17 DEF FailFails, Failing, SetFailed
<1>18. ASSUME NEW p \in Processes, Crash(p) PROVE RunnersHold'
    BY <1>18 DEF Crash
<1>19. ASSUME NEW p \in Processes, Restart(p) PROVE RunnersHold'
    BY <1>19 DEF Restart, Orphans
<1>20. ASSUME NEW p \in Processes, NEW j \in Jobs, Recover(p, j) PROVE RunnersHold'
    BY <1>20 DEF Recover
<1>21. ASSUME NEW p \in Processes, NEW j \in Jobs, RecoverFails(p, j) PROVE RunnersHold'
    BY <1>21 DEF RecoverFails
<1>22. ASSUME NEW p \in Processes, Serve(p) PROVE RunnersHold'
    BY <1>22 DEF Serve
<1>23. ASSUME NEW j \in Jobs, SubmitUnacknowledged(j) PROVE RunnersHold'
    BY <1>23 DEF SubmitUnacknowledged, CreateRow
<1> QED
    BY <1>1, <1>2, <1>3, <1>4, <1>5, <1>6, <1>7, <1>8, <1>9, <1>10, <1>11, <1>12, <1>13, <1>14, <1>15, <1>16, <1>17, <1>18, <1>19, <1>20, <1>21, <1>22, <1>23 DEF Next, Dispatch, Drive, Process, Starting

\* Only the start of a process with the durable queue has orphans to enqueue.
LEMMA OnlyDurableRecoversStep ==
    ASSUME TypeOK, OnlyDurableRecovers, Next
    PROVE  OnlyDurableRecovers'
<1> USE JobsAssumption DEF TypeOK, OnlyDurableRecovers, Fails, OrNot, Push, Pop, Takes, Goes, Leaves, Drops, vars, rowVars, runnerVars, procVars
<1>1. ASSUME NEW j \in Jobs, Submit(j) PROVE OnlyDurableRecovers'
    BY <1>1 DEF Submit, CreateRow
<1>2. ASSUME NEW j \in Jobs, Enqueue(j) PROVE OnlyDurableRecovers'
    BY <1>2 DEF Enqueue
<1>3. ASSUME NEW j \in Jobs, EnqueueFails(j) PROVE OnlyDurableRecovers'
    BY <1>3 DEF EnqueueFails
<1>4. ASSUME NEW j \in Jobs, Inline(j) PROVE OnlyDurableRecovers'
    BY <1>4 DEF Inline
<1>5. ASSUME NEW p \in Processes, NEW j \in Jobs, Claim(p, j) PROVE OnlyDurableRecovers'
    BY <1>5 DEF Claim, Worker
<1>6. ASSUME NEW p \in Processes, NEW j \in Jobs, ClaimFails(p, j) PROVE OnlyDurableRecovers'
    BY <1>6 DEF ClaimFails, Worker
<1>7. ASSUME NEW p \in Processes, Load(p) PROVE OnlyDurableRecovers'
    BY <1>7 DEF Load
<1>8. ASSUME NEW p \in Processes, LoadFails(p) PROVE OnlyDurableRecovers'
    BY <1>8 DEF LoadFails
<1>9. ASSUME NEW p \in Processes, Count(p) PROVE OnlyDurableRecovers'
    BY <1>9 DEF Count, Exceeds, IncrementRetry
<1>10. ASSUME NEW p \in Processes, CountFails(p) PROVE OnlyDurableRecovers'
    BY <1>10 DEF CountFails, IncrementRetry
<1>11. ASSUME NEW r \in Runners, Start(r) PROVE OnlyDurableRecovers'
    BY <1>11 DEF Start, SetInProgress
<1>12. ASSUME NEW r \in Runners, StartFails(r) PROVE OnlyDurableRecovers'
    BY <1>12 DEF StartFails, SetInProgress
<1>13. ASSUME NEW r \in Runners, Complete(r) PROVE OnlyDurableRecovers'
    BY <1>13 DEF Complete
<1>14. ASSUME NEW r \in Runners, Return(r) PROVE OnlyDurableRecovers'
    BY <1>14 DEF Return
<1>15. ASSUME NEW r \in Runners, Unprocessed(r) PROVE OnlyDurableRecovers'
    BY <1>15 DEF Unprocessed
<1>16. ASSUME NEW r \in Runners, Fail(r) PROVE OnlyDurableRecovers'
    BY <1>16 DEF Fail, Failing, SetFailed
<1>17. ASSUME NEW r \in Runners, FailFails(r) PROVE OnlyDurableRecovers'
    BY <1>17 DEF FailFails, Failing, SetFailed
<1>18. ASSUME NEW p \in Processes, Crash(p) PROVE OnlyDurableRecovers'
    BY <1>18 DEF Crash
<1>19. ASSUME NEW p \in Processes, Restart(p) PROVE OnlyDurableRecovers'
    BY <1>19 DEF Restart, Orphans
<1>20. ASSUME NEW p \in Processes, NEW j \in Jobs, Recover(p, j) PROVE OnlyDurableRecovers'
    BY <1>20 DEF Recover
<1>21. ASSUME NEW p \in Processes, NEW j \in Jobs, RecoverFails(p, j) PROVE OnlyDurableRecovers'
    BY <1>21 DEF RecoverFails
<1>22. ASSUME NEW p \in Processes, Serve(p) PROVE OnlyDurableRecovers'
    BY <1>22 DEF Serve
<1>23. ASSUME NEW j \in Jobs, SubmitUnacknowledged(j) PROVE OnlyDurableRecovers'
    BY <1>23 DEF SubmitUnacknowledged, CreateRow
<1> QED
    BY <1>1, <1>2, <1>3, <1>4, <1>5, <1>6, <1>7, <1>8, <1>9, <1>10, <1>11, <1>12, <1>13, <1>14, <1>15, <1>16, <1>17, <1>18, <1>19, <1>20, <1>21, <1>22, <1>23 DEF Next, Dispatch, Drive, Process, Starting

\* Only jobs that exist are enqueued or recovered.
LEMMA EntriesExistStep ==
    ASSUME TypeOK, RunnersHold, EntriesExist, Next
    PROVE  EntriesExist'
<1> USE JobsAssumption DEF TypeOK, RunnersHold, EntriesExist, Fails, OrNot, Push, Pop, Takes, Goes, Leaves, Drops, vars, rowVars, runnerVars, procVars, Terminal, Nonterminal, Terminals, Statuses, Runners
<1>1. ASSUME NEW j \in Jobs, Submit(j) PROVE EntriesExist'
    BY <1>1 DEF Submit, CreateRow
<1>2. ASSUME NEW j \in Jobs, Enqueue(j) PROVE EntriesExist'
    BY <1>2 DEF Enqueue
<1>3. ASSUME NEW j \in Jobs, EnqueueFails(j) PROVE EntriesExist'
    BY <1>3 DEF EnqueueFails
<1>4. ASSUME NEW j \in Jobs, Inline(j) PROVE EntriesExist'
    BY <1>4 DEF Inline
<1>5. ASSUME NEW p \in Processes, NEW j \in Jobs, Claim(p, j) PROVE EntriesExist'
    BY <1>5 DEF Claim, Worker
<1>6. ASSUME NEW p \in Processes, NEW j \in Jobs, ClaimFails(p, j) PROVE EntriesExist'
    BY <1>6 DEF ClaimFails, Worker
<1>7. ASSUME NEW p \in Processes, Load(p) PROVE EntriesExist'
    BY <1>7 DEF Load
<1>8. ASSUME NEW p \in Processes, LoadFails(p) PROVE EntriesExist'
    BY <1>8 DEF LoadFails
<1>9. ASSUME NEW p \in Processes, Count(p) PROVE EntriesExist'
    BY <1>9 DEF Count, Exceeds, IncrementRetry
<1>10. ASSUME NEW p \in Processes, CountFails(p) PROVE EntriesExist'
    BY <1>10 DEF CountFails, IncrementRetry
<1>11. ASSUME NEW r \in Runners, Start(r) PROVE EntriesExist'
    BY <1>11 DEF Start, SetInProgress
<1>12. ASSUME NEW r \in Runners, StartFails(r) PROVE EntriesExist'
    BY <1>12 DEF StartFails, SetInProgress
<1>13. ASSUME NEW r \in Runners, Complete(r) PROVE EntriesExist'
    BY <1>13 DEF Complete
<1>14. ASSUME NEW r \in Runners, Return(r) PROVE EntriesExist'
    BY <1>14 DEF Return
<1>15. ASSUME NEW r \in Runners, Unprocessed(r) PROVE EntriesExist'
    BY <1>15 DEF Unprocessed
<1>16. ASSUME NEW r \in Runners, Fail(r) PROVE EntriesExist'
    BY <1>16 DEF Fail, Failing, SetFailed
<1>17. ASSUME NEW r \in Runners, FailFails(r) PROVE EntriesExist'
    BY <1>17 DEF FailFails, Failing, SetFailed
<1>18. ASSUME NEW p \in Processes, Crash(p) PROVE EntriesExist'
    BY <1>18 DEF Crash
<1>19. ASSUME NEW p \in Processes, Restart(p) PROVE EntriesExist'
    BY <1>19 DEF Restart, Orphans
<1>20. ASSUME NEW p \in Processes, NEW j \in Jobs, Recover(p, j) PROVE EntriesExist'
    BY <1>20 DEF Recover
<1>21. ASSUME NEW p \in Processes, NEW j \in Jobs, RecoverFails(p, j) PROVE EntriesExist'
    BY <1>21 DEF RecoverFails
<1>22. ASSUME NEW p \in Processes, Serve(p) PROVE EntriesExist'
    BY <1>22 DEF Serve
<1>23. ASSUME NEW j \in Jobs, SubmitUnacknowledged(j) PROVE EntriesExist'
    BY <1>23 DEF SubmitUnacknowledged, CreateRow
<1> QED
    BY <1>1, <1>2, <1>3, <1>4, <1>5, <1>6, <1>7, <1>8, <1>9, <1>10, <1>11, <1>12, <1>13, <1>14, <1>15, <1>16, <1>17, <1>18, <1>19, <1>20, <1>21, <1>22, <1>23 DEF Next, Dispatch, Drive, Process, Starting

\* Whatever makes a job terminal ends its pending items in the same transaction.
LEMMA NoPendingStep ==
    ASSUME TypeOK, RunnersHold, TerminalLeavesNoPending, Next
    PROVE  TerminalLeavesNoPending'
<1> USE JobsAssumption DEF TypeOK, RunnersHold, TerminalLeavesNoPending, Fails, OrNot, Push, Pop, Takes, Goes, Leaves, Drops, vars, rowVars, runnerVars, procVars, Terminal, Nonterminal, Terminals, Statuses, Runners
<1>1. ASSUME NEW j \in Jobs, Submit(j) PROVE TerminalLeavesNoPending'
    BY <1>1 DEF Submit, CreateRow
<1>2. ASSUME NEW j \in Jobs, Enqueue(j) PROVE TerminalLeavesNoPending'
    BY <1>2 DEF Enqueue
<1>3. ASSUME NEW j \in Jobs, EnqueueFails(j) PROVE TerminalLeavesNoPending'
    BY <1>3 DEF EnqueueFails
<1>4. ASSUME NEW j \in Jobs, Inline(j) PROVE TerminalLeavesNoPending'
    BY <1>4 DEF Inline
<1>5. ASSUME NEW p \in Processes, NEW j \in Jobs, Claim(p, j) PROVE TerminalLeavesNoPending'
    BY <1>5 DEF Claim, Worker
<1>6. ASSUME NEW p \in Processes, NEW j \in Jobs, ClaimFails(p, j) PROVE TerminalLeavesNoPending'
    BY <1>6 DEF ClaimFails, Worker
<1>7. ASSUME NEW p \in Processes, Load(p) PROVE TerminalLeavesNoPending'
    BY <1>7 DEF Load
<1>8. ASSUME NEW p \in Processes, LoadFails(p) PROVE TerminalLeavesNoPending'
    BY <1>8 DEF LoadFails
<1>9. ASSUME NEW p \in Processes, Count(p) PROVE TerminalLeavesNoPending'
    BY <1>9 DEF Count, Exceeds, IncrementRetry
<1>10. ASSUME NEW p \in Processes, CountFails(p) PROVE TerminalLeavesNoPending'
    BY <1>10 DEF CountFails, IncrementRetry
<1>11. ASSUME NEW r \in Runners, Start(r) PROVE TerminalLeavesNoPending'
    BY <1>11 DEF Start, SetInProgress
<1>12. ASSUME NEW r \in Runners, StartFails(r) PROVE TerminalLeavesNoPending'
    BY <1>12 DEF StartFails, SetInProgress
<1>13. ASSUME NEW r \in Runners, Complete(r) PROVE TerminalLeavesNoPending'
    BY <1>13 DEF Complete
<1>14. ASSUME NEW r \in Runners, Return(r) PROVE TerminalLeavesNoPending'
    BY <1>14 DEF Return
<1>15. ASSUME NEW r \in Runners, Unprocessed(r) PROVE TerminalLeavesNoPending'
    BY <1>15 DEF Unprocessed
<1>16. ASSUME NEW r \in Runners, Fail(r) PROVE TerminalLeavesNoPending'
    BY <1>16 DEF Fail, Failing, SetFailed
<1>17. ASSUME NEW r \in Runners, FailFails(r) PROVE TerminalLeavesNoPending'
    BY <1>17 DEF FailFails, Failing, SetFailed
<1>18. ASSUME NEW p \in Processes, Crash(p) PROVE TerminalLeavesNoPending'
    BY <1>18 DEF Crash
<1>19. ASSUME NEW p \in Processes, Restart(p) PROVE TerminalLeavesNoPending'
    BY <1>19 DEF Restart, Orphans
<1>20. ASSUME NEW p \in Processes, NEW j \in Jobs, Recover(p, j) PROVE TerminalLeavesNoPending'
    BY <1>20 DEF Recover
<1>21. ASSUME NEW p \in Processes, NEW j \in Jobs, RecoverFails(p, j) PROVE TerminalLeavesNoPending'
    BY <1>21 DEF RecoverFails
<1>22. ASSUME NEW p \in Processes, Serve(p) PROVE TerminalLeavesNoPending'
    BY <1>22 DEF Serve
<1>23. ASSUME NEW j \in Jobs, SubmitUnacknowledged(j) PROVE TerminalLeavesNoPending'
    BY <1>23 DEF SubmitUnacknowledged, CreateRow
<1> QED
    BY <1>1, <1>2, <1>3, <1>4, <1>5, <1>6, <1>7, <1>8, <1>9, <1>10, <1>11, <1>12, <1>13, <1>14, <1>15, <1>16, <1>17, <1>18, <1>19, <1>20, <1>21, <1>22, <1>23 DEF Next, Dispatch, Drive, Process, Starting

\* No step takes away the last way to a job that has not ended.
LEMMA NeverForgottenStep ==
    ASSUME TypeOK, RunnersHold, OnlyDurableRecovers, NeverForgotten, Next
    PROVE  NeverForgotten'
<1> USE JobsAssumption DEF TypeOK, RunnersHold, OnlyDurableRecovers, NeverForgotten, Reachable, Fails, OrNot, Push, Pop, Takes, Goes, Leaves, Drops, vars, rowVars, runnerVars, procVars, Terminal, Nonterminal, Terminals, Statuses, Runners, Host
<1>1. ASSUME NEW j \in Jobs, Submit(j) PROVE NeverForgotten'
    <2> SUFFICES ASSUME NEW k \in Jobs, Nonterminal(k)', k \notin lost
                 PROVE  Reachable(k)'
        BY <1>1 DEF Submit
    <2>1. j \in Runners /\ job'[j] = j
        BY <1>1 DEF Submit
    <2>2. CASE k # j
        <3>1. Reachable(k)
            BY <1>1, <2>2 DEF Submit, CreateRow
        <3>2. job[j] = None
            BY <1>1, <2>1 DEF Submit
        <3>3. \A r \in Runners : job[r] = k => job'[r] = k
            BY <1>1, <3>2 DEF Submit
        <3> QED BY <1>1, <3>1, <3>3 DEF Submit
    <2> QED BY <2>1, <2>2
<1>2. ASSUME NEW j \in Jobs, Enqueue(j) PROVE NeverForgotten'
    BY <1>2 DEF Enqueue
<1>3. ASSUME NEW j \in Jobs, EnqueueFails(j) PROVE NeverForgotten'
    BY <1>3 DEF EnqueueFails
<1>4. ASSUME NEW j \in Jobs, Inline(j) PROVE NeverForgotten'
    BY <1>4 DEF Inline
<1>5. ASSUME NEW p \in Processes, NEW j \in Jobs, Claim(p, j) PROVE NeverForgotten'
    BY <1>5 DEF Claim, Worker
<1>6. ASSUME NEW p \in Processes, NEW j \in Jobs, ClaimFails(p, j) PROVE NeverForgotten'
    BY <1>6 DEF ClaimFails, Worker
<1>7. ASSUME NEW p \in Processes, Load(p) PROVE NeverForgotten'
    BY <1>7 DEF Load
<1>8. ASSUME NEW p \in Processes, LoadFails(p) PROVE NeverForgotten'
    BY <1>8 DEF LoadFails
<1>9. ASSUME NEW p \in Processes, Count(p) PROVE NeverForgotten'
    BY <1>9 DEF Count, Exceeds, IncrementRetry
<1>10. ASSUME NEW p \in Processes, CountFails(p) PROVE NeverForgotten'
    BY <1>10 DEF CountFails, IncrementRetry
<1>11. ASSUME NEW r \in Runners, Start(r) PROVE NeverForgotten'
    BY <1>11 DEF Start, SetInProgress
<1>12. ASSUME NEW r \in Runners, StartFails(r) PROVE NeverForgotten'
    BY <1>12 DEF StartFails, SetInProgress
<1>13. ASSUME NEW r \in Runners, Complete(r) PROVE NeverForgotten'
    BY <1>13 DEF Complete
<1>14. ASSUME NEW r \in Runners, Return(r) PROVE NeverForgotten'
    BY <1>14 DEF Return
<1>15. ASSUME NEW r \in Runners, Unprocessed(r) PROVE NeverForgotten'
    BY <1>15 DEF Unprocessed
<1>16. ASSUME NEW r \in Runners, Fail(r) PROVE NeverForgotten'
    BY <1>16 DEF Fail, Failing, SetFailed
<1>17. ASSUME NEW r \in Runners, FailFails(r) PROVE NeverForgotten'
    BY <1>17 DEF FailFails, Failing, SetFailed
<1>18. ASSUME NEW p \in Processes, Crash(p) PROVE NeverForgotten'
    <2> SUFFICES ASSUME NEW k \in Jobs, Nonterminal(k), k \notin lost'
                 PROVE  Reachable(k)'
        BY <1>18 DEF Crash
    <2>1. CASE p \in Durable
        BY <1>18, <2>1 DEF Crash
    <2>2. CASE p \notin Durable
        <3>1. Reachable(k)
            BY <1>18, <2>2 DEF Crash
        <3>2. CASE \E r \in Runners : job[r] = k
            <4>1. PICK r \in Runners : job[r] = k BY <3>2
            <4>2. Host(r) # p BY <1>18, <2>2, <4>1 DEF Crash
            <4>3. job'[r] = k BY <1>18, <4>1, <4>2 DEF Crash
            <4> QED BY <4>3
        <3>3. CASE queue[k] > 0
            BY <1>18, <3>3 DEF Crash
        <3>4. CASE \E q \in Durable : proc[q] = "down" \/ k \in todo[q]
            BY <1>18, <2>2, <3>4 DEF Crash
        <3> QED BY <3>1, <3>2, <3>3, <3>4
    <2> QED BY <2>1, <2>2
<1>19. ASSUME NEW p \in Processes, Restart(p) PROVE NeverForgotten'
    BY <1>19 DEF Restart, Orphans
<1>20. ASSUME NEW p \in Processes, NEW j \in Jobs, Recover(p, j) PROVE NeverForgotten'
    BY <1>20 DEF Recover
<1>21. ASSUME NEW p \in Processes, NEW j \in Jobs, RecoverFails(p, j) PROVE NeverForgotten'
    BY <1>21 DEF RecoverFails
<1>22. ASSUME NEW p \in Processes, Serve(p) PROVE NeverForgotten'
    BY <1>22 DEF Serve
<1>23. ASSUME NEW j \in Jobs, SubmitUnacknowledged(j) PROVE NeverForgotten'
    BY <1>23 DEF SubmitUnacknowledged, CreateRow
<1> QED
    BY <1>1, <1>2, <1>3, <1>4, <1>5, <1>6, <1>7, <1>8, <1>9, <1>10, <1>11, <1>12, <1>13, <1>14, <1>15, <1>16, <1>17, <1>18, <1>19, <1>20, <1>21, <1>22, <1>23 DEF Next, Dispatch, Drive, Process, Starting

\* No action changes the status of a terminal job.
LEMMA FinalStep ==
    ASSUME TypeOK, RunnersHold, Next
    PROVE  \A k \in Jobs : Terminal(k) => status'[k] = status[k]
<1> USE JobsAssumption DEF TypeOK, RunnersHold, Fails, OrNot, Push, Pop, Takes, Goes, Leaves, Drops, vars, rowVars, runnerVars, procVars, Terminal, Nonterminal, Terminals, Statuses, Runners
<1>1. ASSUME NEW j \in Jobs, Submit(j) PROVE \A k \in Jobs : Terminal(k) => status'[k] = status[k]
    BY <1>1 DEF Submit, CreateRow
<1>2. ASSUME NEW j \in Jobs, Enqueue(j) PROVE \A k \in Jobs : Terminal(k) => status'[k] = status[k]
    BY <1>2 DEF Enqueue
<1>3. ASSUME NEW j \in Jobs, EnqueueFails(j) PROVE \A k \in Jobs : Terminal(k) => status'[k] = status[k]
    BY <1>3 DEF EnqueueFails
<1>4. ASSUME NEW j \in Jobs, Inline(j) PROVE \A k \in Jobs : Terminal(k) => status'[k] = status[k]
    BY <1>4 DEF Inline
<1>5. ASSUME NEW p \in Processes, NEW j \in Jobs, Claim(p, j) PROVE \A k \in Jobs : Terminal(k) => status'[k] = status[k]
    BY <1>5 DEF Claim, Worker
<1>6. ASSUME NEW p \in Processes, NEW j \in Jobs, ClaimFails(p, j) PROVE \A k \in Jobs : Terminal(k) => status'[k] = status[k]
    BY <1>6 DEF ClaimFails, Worker
<1>7. ASSUME NEW p \in Processes, Load(p) PROVE \A k \in Jobs : Terminal(k) => status'[k] = status[k]
    BY <1>7 DEF Load
<1>8. ASSUME NEW p \in Processes, LoadFails(p) PROVE \A k \in Jobs : Terminal(k) => status'[k] = status[k]
    BY <1>8 DEF LoadFails
<1>9. ASSUME NEW p \in Processes, Count(p) PROVE \A k \in Jobs : Terminal(k) => status'[k] = status[k]
    BY <1>9 DEF Count, Exceeds, IncrementRetry
<1>10. ASSUME NEW p \in Processes, CountFails(p) PROVE \A k \in Jobs : Terminal(k) => status'[k] = status[k]
    BY <1>10 DEF CountFails, IncrementRetry
<1>11. ASSUME NEW r \in Runners, Start(r) PROVE \A k \in Jobs : Terminal(k) => status'[k] = status[k]
    BY <1>11 DEF Start, SetInProgress
<1>12. ASSUME NEW r \in Runners, StartFails(r) PROVE \A k \in Jobs : Terminal(k) => status'[k] = status[k]
    BY <1>12 DEF StartFails, SetInProgress
<1>13. ASSUME NEW r \in Runners, Complete(r) PROVE \A k \in Jobs : Terminal(k) => status'[k] = status[k]
    BY <1>13 DEF Complete
<1>14. ASSUME NEW r \in Runners, Return(r) PROVE \A k \in Jobs : Terminal(k) => status'[k] = status[k]
    BY <1>14 DEF Return
<1>15. ASSUME NEW r \in Runners, Unprocessed(r) PROVE \A k \in Jobs : Terminal(k) => status'[k] = status[k]
    BY <1>15 DEF Unprocessed
<1>16. ASSUME NEW r \in Runners, Fail(r) PROVE \A k \in Jobs : Terminal(k) => status'[k] = status[k]
    BY <1>16 DEF Fail, Failing, SetFailed
<1>17. ASSUME NEW r \in Runners, FailFails(r) PROVE \A k \in Jobs : Terminal(k) => status'[k] = status[k]
    BY <1>17 DEF FailFails, Failing, SetFailed
<1>18. ASSUME NEW p \in Processes, Crash(p) PROVE \A k \in Jobs : Terminal(k) => status'[k] = status[k]
    BY <1>18 DEF Crash
<1>19. ASSUME NEW p \in Processes, Restart(p) PROVE \A k \in Jobs : Terminal(k) => status'[k] = status[k]
    BY <1>19 DEF Restart, Orphans
<1>20. ASSUME NEW p \in Processes, NEW j \in Jobs, Recover(p, j) PROVE \A k \in Jobs : Terminal(k) => status'[k] = status[k]
    BY <1>20 DEF Recover
<1>21. ASSUME NEW p \in Processes, NEW j \in Jobs, RecoverFails(p, j) PROVE \A k \in Jobs : Terminal(k) => status'[k] = status[k]
    BY <1>21 DEF RecoverFails
<1>22. ASSUME NEW p \in Processes, Serve(p) PROVE \A k \in Jobs : Terminal(k) => status'[k] = status[k]
    BY <1>22 DEF Serve
<1>23. ASSUME NEW j \in Jobs, SubmitUnacknowledged(j) PROVE \A k \in Jobs : Terminal(k) => status'[k] = status[k]
    BY <1>23 DEF SubmitUnacknowledged, CreateRow
<1> QED
    BY <1>1, <1>2, <1>3, <1>4, <1>5, <1>6, <1>7, <1>8, <1>9, <1>10, <1>11, <1>12, <1>13, <1>14, <1>15, <1>16, <1>17, <1>18, <1>19, <1>20, <1>21, <1>22, <1>23 DEF Next, Dispatch, Drive, Process, Starting

-----------------------------------------------------------------------------
\* A step that changes nothing keeps the invariant.
LEMMA JInvStutter == ASSUME JInv, UNCHANGED vars PROVE JInv'
<1> USE DEF vars
<1>1. TypeOK' BY DEF JInv, TypeOK
<1>2. RunnersHold' BY DEF JInv, RunnersHold
<1>3. OnlyDurableRecovers' BY DEF JInv, OnlyDurableRecovers
<1>6. EntriesExist' BY DEF JInv, EntriesExist
<1>4. TerminalLeavesNoPending' BY DEF JInv, TerminalLeavesNoPending, Terminal
<1>5. NeverForgotten' BY DEF JInv, NeverForgotten, Reachable, Nonterminal, Terminal
<1> QED BY <1>1, <1>2, <1>3, <1>4, <1>5, <1>6 DEF JInv

\* JInv is inductive.
LEMMA JInvStep == ASSUME JInv, [Next]_vars PROVE JInv'
<1>1. CASE Next
    BY <1>1, TypeOKStep, RunnersHoldStep, OnlyDurableRecoversStep, EntriesExistStep, NoPendingStep,
       NeverForgottenStep DEF JInv
<1>2. CASE UNCHANGED vars
    BY <1>2, JInvStutter
<1> QED BY <1>1, <1>2

\* Initially no job exists.
LEMMA JInvInit == ASSUME Init PROVE JInv
<1> USE JobsAssumption DEF Init, Runners
<1>1. TypeOK BY DEF TypeOK, Stages
<1>2. RunnersHold BY DEF RunnersHold
<1>3. OnlyDurableRecovers BY DEF OnlyDurableRecovers
<1>6. EntriesExist BY DEF EntriesExist
<1>4. TerminalLeavesNoPending BY DEF TerminalLeavesNoPending
<1>5. NeverForgotten BY DEF NeverForgotten, Nonterminal
<1> QED BY <1>1, <1>2, <1>3, <1>4, <1>5, <1>6 DEF JInv

-----------------------------------------------------------------------------
(* BatchJobs implements DurableWork.                                       *)

\* The views of a job that is open, and of one that is not.
LEMMA OpenView == ASSUME TypeOK PROVE Work!Open = {j \in Jobs : Nonterminal(j)}
<1>1. ASSUME NEW j \in Jobs PROVE StateView[j] = "open" <=> Nonterminal(j)
    BY DEF TypeOK, StateView, Nonterminal, Terminal, Terminals, Statuses
<1> QED BY <1>1 DEF Work!Open

\* A step that ends or creates no job hands jobs over: NeverForgotten says that none gets
\* out of sight.
LEMMA HandOverRefines ==
    ASSUME JInv, JInv', UNCHANGED <<StateView, EffectsView>>
    PROVE  Work!HandOver
<1>1. \A j \in Jobs : Nonterminal(j)' <=> Nonterminal(j)
    <2>1. Work!Open = {j \in Jobs : Nonterminal(j)} /\ Work!Open' = {j \in Jobs : Nonterminal(j)'}
        BY OpenView DEF JInv, Work!Open, StateView, TypeOK, Nonterminal, Terminal, Terminals, Statuses
    <2>2. Work!Open' = Work!Open
        BY DEF Work!Open
    <2> QED BY <2>1, <2>2
<1>2. CareView' \cup DroppedView' = {j \in Jobs : Nonterminal(j)'}
    BY DEF JInv, TypeOK, NeverForgotten, CareView, DroppedView
<1>3. Work!Open = {j \in Jobs : Nonterminal(j)}
    BY OpenView DEF JInv
<1> QED BY <1>1, <1>2, <1>3 DEF Work!HandOver

\* The transaction that ends a job ends its items, and was a runner's that has the job
\* (SetFailed, and the processor's own update).
LEMMA FinishRefines ==
    ASSUME TypeOK, NEW j \in Jobs, Nonterminal(j), Reachable(j), NEW e \in Terminals,
           status' = [status EXCEPT ![j] = e], pending' = pending \ {j},
           \A k \in Jobs : k # j => (Reachable(k)' <=> Reachable(k)),
           lost' \ {j} = lost \ {j}
    PROVE  Work!WorkNext
<1>1. /\ \A k \in Jobs : k # j => status'[k] = status[k]
      /\ status'[j] = e /\ status[j] # None /\ e # None
    BY JobsAssumption DEF TypeOK, Nonterminal, Terminals, Statuses
<1>2. /\ ~Nonterminal(j)'
      /\ \A k \in Jobs : k # j => (Nonterminal(k)' <=> Nonterminal(k))
    BY <1>1 DEF Nonterminal, Terminal
<1>3. StateView' = [StateView EXCEPT ![j] = e]
    BY <1>1, <1>2 DEF StateView
<1>4. EffectsView' = EffectsView \cup {j}
    BY <1>1 DEF EffectsView
<1>5. CareView' = CareView \ {j}
    BY <1>2 DEF CareView
<1>6. DroppedView' = DroppedView \ {j}
    BY <1>2 DEF DroppedView, TypeOK
<1>7. j \in CareView
    BY DEF CareView
<1>8. Work!Finish(j, e)
    BY <1>3, <1>4, <1>5, <1>6, <1>7 DEF Work!Finish
<1> QED BY <1>8 DEF Work!WorkNext

\* create_batch_job puts a job in the care of the request that creates it.
LEMMA SubmitRefines == ASSUME JInv, JInv', NEW j \in Jobs, Submit(j) PROVE Work!WorkNext
<1> USE JobsAssumption DEF JInv
<1>1. /\ status[j] = None /\ status' = [status EXCEPT ![j] = "validating"]
      /\ pending' = pending \cup {j} /\ UNCHANGED <<queue, proc, todo, lost>>
      /\ job' = [job EXCEPT ![j] = j]
    BY DEF Submit, CreateRow, Takes, procVars
<1>2. /\ \A k \in Jobs : k # j => status'[k] = status[k]
      /\ status'[j] = "validating" /\ "validating" # None
    BY <1>1 DEF TypeOK, Statuses
<1>3. /\ Nonterminal(j)' /\ ~Nonterminal(j)
      /\ \A k \in Jobs : k # j => (Nonterminal(k)' <=> Nonterminal(k))
    BY <1>1, <1>2 DEF Nonterminal, Terminal, Terminals
<1>4. j \in Runners /\ job[j] = None /\ job'[j] = j
    BY <1>1 DEF TypeOK, RunnersHold, Runners
<1>5. Reachable(j)' /\ \A k \in Jobs : k # j => (Reachable(k)' <=> Reachable(k))
    <2>1. \A k \in Jobs, r \in Runners : k # j => (job'[r] = k <=> job[r] = k)
        BY <1>1, <1>4 DEF TypeOK
    <2> QED BY <1>1, <1>4, <2>1 DEF Reachable
<1>6. StateView[j] = "none" /\ StateView' = [StateView EXCEPT ![j] = "open"]
    BY <1>1, <1>2, <1>3 DEF StateView
<1>7. CareView' = CareView \cup {j}
    BY <1>3, <1>5 DEF CareView
<1>8. DroppedView' \in {DroppedView, DroppedView \cup {j}}
    BY <1>1, <1>3 DEF DroppedView, TypeOK
<1>9. EffectsView' = EffectsView
    BY <1>1, <1>2 DEF EffectsView, TypeOK
<1>10. Work!Offer(j)
    BY <1>6, <1>7, <1>8, <1>9 DEF Work!Offer
<1> QED BY <1>10 DEF Work!WorkNext

\* A commit that raised after it took effect offers a job that nobody dispatches: it is
\* dropped in the same step.
LEMMA UnacknowledgedRefines ==
    ASSUME JInv, JInv', NEW j \in Jobs, SubmitUnacknowledged(j)
    PROVE  Work!WorkNext
<1> USE JobsAssumption DEF JInv
<1>1. /\ status[j] = None /\ status' = [status EXCEPT ![j] = "validating"]
      /\ pending' = pending \cup {j} /\ UNCHANGED <<queue, job, proc, todo>>
      /\ lost' = lost \cup {j}
    BY DEF SubmitUnacknowledged, CreateRow, runnerVars, procVars
<1>2. /\ \A k \in Jobs : k # j => status'[k] = status[k]
      /\ status'[j] = "validating" /\ "validating" # None
    BY <1>1 DEF TypeOK, Statuses
<1>3. /\ Nonterminal(j)' /\ ~Nonterminal(j)
      /\ \A k \in Jobs : k # j => (Nonterminal(k)' <=> Nonterminal(k))
    BY <1>1, <1>2 DEF Nonterminal, Terminal, Terminals
<1>4. \A k \in Jobs : Reachable(k)' <=> Reachable(k)
    BY <1>1 DEF Reachable
<1>5. StateView[j] = "none" /\ StateView' = [StateView EXCEPT ![j] = "open"]
    BY <1>1, <1>2, <1>3 DEF StateView
<1>6. CareView' \in {CareView, CareView \cup {j}}
    BY <1>3, <1>4 DEF CareView
<1>7. DroppedView' = DroppedView \cup {j}
    BY <1>1, <1>3 DEF DroppedView, TypeOK
<1>8. EffectsView' = EffectsView
    BY <1>1, <1>2 DEF EffectsView, TypeOK
<1>9. Work!Offer(j)
    BY <1>5, <1>6, <1>7, <1>8 DEF Work!Offer
<1> QED BY <1>9 DEF Work!WorkNext

\* A runner's set_failed, and what it does to the runner and to the record of drops, fails
\* an open job or changes nothing to be seen.
LEMMA FailRefines ==
    ASSUME JInv, JInv', NEW r \in Runners, Fail(r) \/ FailFails(r)
    PROVE  Work!WorkNext
<1> USE JobsAssumption DEF JInv
<1> DEFINE j == job[r]
<1>1. j \in Jobs
    BY DEF Fail, FailFails, Failing, RunnersHold
<1>2. /\ \A q \in Runners : q # r => job'[q] = job[q]
      /\ job'[r] \in {j, None}
      /\ UNCHANGED <<queue, proc, todo>>
      /\ lost' \ {j} = lost \ {j}
    BY DEF Fail, FailFails, Leaves, Takes, Goes, Drops, procVars, TypeOK
<1>3. CASE Nonterminal(j) /\ SetFailed(j)
    <2>1. status' = [status EXCEPT ![j] = "failed"] /\ pending' = pending \ {j}
        BY <1>3 DEF SetFailed
    <2>2. Reachable(j)
        BY <1>1 DEF Reachable
    <2>3. \A k \in Jobs : k # j => (Reachable(k)' <=> Reachable(k))
        <3>1. \A k \in Jobs, q \in Runners : k # j => (job'[q] = k <=> job[q] = k)
            BY <1>2
        <3> QED BY <1>2, <3>1 DEF Reachable
    <2>4. "failed" \in Terminals
        BY DEF Terminals
    <2> HIDE DEF j
    <2> QED BY <1>1, <1>2, <1>3, <2>1, <2>2, <2>3, <2>4, FinishRefines
<1>4. CASE ~(Nonterminal(j) /\ SetFailed(j))
    <2>1. UNCHANGED <<status, pending>>
        BY <1>1, <1>4 DEF Fail, FailFails, OrNot, rowVars, SetFailed, TypeOK
    <2>2. UNCHANGED <<StateView, EffectsView>>
        BY <2>1 DEF StateView, EffectsView, Nonterminal, Terminal
    <2> QED BY <2>2, HandOverRefines DEF Work!WorkNext
<1> QED BY <1>3, <1>4

\* The processor's end of an open job.
LEMMA CompleteRefines == ASSUME JInv, NEW r \in Runners, Complete(r) PROVE Work!WorkNext
<1> DEFINE j == job[r]
<1>1. j \in Jobs /\ Nonterminal(j)
    BY DEF Complete, RunnersHold, JInv
<1>2. /\ status' = [status EXCEPT ![j] = "completed"] /\ pending' = pending \ {j}
      /\ UNCHANGED <<queue, job, proc, todo, lost>>
    BY DEF Complete, runnerVars, procVars
<1>3. Reachable(j) /\ \A k \in Jobs : Reachable(k)' <=> Reachable(k)
    BY <1>1, <1>2 DEF Reachable
<1>4. "completed" \in Terminals /\ TypeOK
    BY DEF Terminals, JInv
<1> HIDE DEF j
<1> QED BY <1>1, <1>2, <1>3, <1>4, FinishRefines

\* Every other action leaves alone what is to be seen of the rows: only the start of a
\* drive writes one, from validating to in_progress.
LEMMA OtherRefines ==
    ASSUME JInv, JInv', [Next]_vars,
           \A j \in Jobs : ~Submit(j) /\ ~SubmitUnacknowledged(j),
           \A r \in Runners : ~(Complete(r) \/ Fail(r) \/ FailFails(r))
    PROVE  Work!WorkNext
<1>1. \/ UNCHANGED <<status, pending>>
      \/ \E j \in Jobs : SetInProgress(j)
    <2>1. ASSUME NEW r \in Runners, Start(r) \/ StartFails(r)
          PROVE  job[r] \in Jobs /\ (UNCHANGED <<status, pending>> \/ SetInProgress(job[r]))
        BY <2>1 DEF Start, StartFails, OrNot, rowVars, JInv, RunnersHold
    <2> QED BY <2>1 DEF Next, vars, rowVars, Dispatch, Drive, Process, Starting, Enqueue, EnqueueFails,
         Inline, Claim, ClaimFails, Load, LoadFails, Count, CountFails, IncrementRetry, OrNot,
         Return, Unprocessed, Crash, Restart, Recover, RecoverFails, Serve
<1>2. UNCHANGED <<StateView, EffectsView>>
    <2>1. CASE UNCHANGED <<status, pending>>
        BY <2>1 DEF StateView, EffectsView, Nonterminal, Terminal
    <2>2. ASSUME NEW j \in Jobs, SetInProgress(j) PROVE UNCHANGED <<StateView, EffectsView>>
        <3>1. /\ \A k \in Jobs : Nonterminal(k)' <=> Nonterminal(k)
              /\ \A k \in Jobs : status'[k] = None <=> status[k] = None
              /\ \A k \in Jobs : ~Nonterminal(k) => status'[k] = status[k]
              /\ pending' = pending
            BY <2>2, JobsAssumption
            DEF SetInProgress, JInv, TypeOK, Nonterminal, Terminal, Terminals, Statuses
        <3> QED BY <3>1 DEF StateView, EffectsView
    <2> QED BY <1>1, <2>1, <2>2
<1> QED BY <1>2, HandOverRefines DEF Work!WorkNext

-----------------------------------------------------------------------------
(* The theorems.                                                           *)

\* The rows, the queue, the runners and the starting processes always agree.
THEOREM JobsInvariant == Spec => []JInv
BY JInvInit, JInvStep, PTL DEF Spec

\* set_failed's promise, under every interleaving and fault.
THEOREM NoPendingLeft == Spec => []TerminalLeavesNoPending
<1>1. JInv => TerminalLeavesNoPending BY DEF JInv
<1> QED BY <1>1, JobsInvariant, PTL

\* A job that has not ended is in the queue, with a runner, awaited by the start of a
\* process, or among those an error dropped.
THEOREM NotForgotten == Spec => []NeverForgotten
<1>1. JInv => NeverForgotten BY DEF JInv
<1> QED BY <1>1, JobsInvariant, PTL

\* Runners that drive the same job do not overwrite its end.
THEOREM FirstEndIsFinal == Spec => TerminalIsFinal
<1> DEFINE Kept == \A j \in Jobs : Terminal(j) => status'[j] = status[j]
<1>1. ASSUME JInv, [Next]_vars PROVE [Kept]_vars
    <2>1. CASE Next BY <1>1, <2>1, FinalStep DEF JInv
    <2>2. CASE UNCHANGED vars BY <2>2
    <2> QED BY <1>1, <2>1, <2>2
<1> QED BY <1>1, JobsInvariant, PTL DEF Spec, TerminalIsFinal

\* A job is work that ends once, with its items and by a runner that has it, and that is
\* never silently forgotten: rows, queue, runners and recovery implement DurableWork.
THEOREM JobsRefine == Spec => WorkRefined
<1>1. Init => Work!WorkInit
    <2> SUFFICES ASSUME Init PROVE Work!WorkInit
        OBVIOUS
    <2>1. \A j \in Jobs : status[j] = None /\ ~Nonterminal(j)
        BY DEF Init, Nonterminal
    <2> QED BY <2>1 DEF Init, Work!WorkInit, StateView, EffectsView, CareView, DroppedView
<1>2. ASSUME JInv, [Next]_vars PROVE Work!WorkNext
    <2>1. JInv'
        BY <1>2, JInvStep
    <2> QED BY <1>2, <2>1, SubmitRefines, UnacknowledgedRefines, CompleteRefines, FailRefines, OtherRefines
<1>3. JInv /\ [Next]_vars => [Work!WorkNext]_(Work!workVars)
    BY <1>2
<1> QED BY <1>1, <1>3, JobsInvariant, PTL DEF Spec, WorkRefined, Work!WorkSpec

==============================================================================
