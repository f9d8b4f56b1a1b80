------------------------------ MODULE BatchJobs ------------------------------
(***************************************************************************)
(* Batch jobs: the job rows in Postgres, the durable queue in Redis, the   *)
(* worker of every process that has batch_durable_queue_enabled, the task  *)
(* that drives a job inline, and the orphan recovery a process runs at its *)
(* start, before its worker.                                               *)
(*                                                                         *)
(* A runner drives one job at a time.  The runner of a process is its      *)
(* worker; the runner of a job is the request that created it and then,    *)
(* when the job is not enqueued, its inline task.                          *)
(***************************************************************************)
EXTENDS Integers

CONSTANTS
    Processes, Jobs,
    Home,           \* the process that serves the request that creates a job
    Durable,        \* processes whose batch_durable_queue_enabled is set
    MaxRetries,     \* batch_job_max_retries; 0 is no limit
    MaxFaults,      \* bound on failed calls and crashes
    None

Terminals == {"completed", "failed"}
Statuses == {"validating", "in_progress"} \cup Terminals

ASSUME JobsAssumption ==
    /\ Home \in [Jobs -> Processes] /\ Durable \subseteq Processes
    /\ Processes \cap Jobs = {}
    /\ MaxRetries \in Nat /\ MaxFaults \in Nat
    /\ None \notin Statuses \cup Jobs

Runners == Processes \cup Jobs
Host(r) == IF r \in Processes THEN r ELSE Home[r]

VARIABLES
    status, retries,    \* batch_jobs rows
    pending,            \* jobs that have line items still pending
    queue,              \* entries of each job in batch:jobs:pending
    stage, job,         \* what each runner does, and to which job
    proc,               \* "up", "down", or "recovering" while it starts
    todo,               \* orphans a starting process has still to enqueue
    lost,               \* jobs an error or a crash has left to nobody
    faults

rowVars == <<status, retries, pending>>
runnerVars == <<stage, job>>
procVars == <<proc, todo>>
vars == <<status, retries, pending, queue, stage, job, proc, todo, lost, faults>>

Stages == {"idle", "created", "claimed", "loaded", "starting", "running",
           "exceeded", "failing", "erring"}

Fails == faults < MaxFaults /\ faults' = faults + 1

Terminal(j) == status[j] \in Terminals
Nonterminal(j) == status[j] # None /\ ~Terminal(j)

Takes(r, s, j) == stage' = [stage EXCEPT ![r] = s] /\ job' = [job EXCEPT ![r] = j]
Goes(r, s) == stage' = [stage EXCEPT ![r] = s] /\ UNCHANGED job
Leaves(r) == Takes(r, "idle", None)

-----------------------------------------------------------------------------
(* The transactions of BatchJobRepository.  A transaction whose commit     *)
(* fails may have been applied: OrNot.                                     *)

CreateRow(j) ==
    /\ status' = [status EXCEPT ![j] = "validating"]
    /\ pending' = pending \cup {j}
    /\ UNCHANGED retries

SetInProgress(j) ==
    /\ status' = [status EXCEPT ![j] = IF @ = "validating" THEN "in_progress" ELSE @]
    /\ UNCHANGED <<retries, pending>>

\* Fault for sensitivity: the update has no guard on the status.
SetFailedUnguarded(j) ==
    /\ status' = [status EXCEPT ![j] = "failed"]
    /\ pending' = pending \ {j}
    /\ UNCHANGED retries

\* Fault for sensitivity: only a job in progress can fail.
SetFailedInProgress(j) ==
    /\ status' = [status EXCEPT ![j] = IF @ = "in_progress" THEN "failed" ELSE @]
    /\ pending' = IF status[j] = "in_progress" THEN pending \ {j} ELSE pending
    /\ UNCHANGED retries

SetFailed(j) ==
    /\ status' = [status EXCEPT ![j] = IF Nonterminal(j) THEN "failed" ELSE @]
    /\ pending' = IF Nonterminal(j) THEN pending \ {j} ELSE pending
    /\ UNCHANGED retries

IncrementRetry(j) ==
    /\ retries' = [retries EXCEPT ![j] = IF Nonterminal(j) THEN @ + 1 ELSE @]
    /\ UNCHANGED <<status, pending>>

\* Fault for sensitivity: the recovery looks for jobs that have not started only.
OrphansNotStarted == {j \in Jobs : status[j] = "validating"}

Orphans == {j \in Jobs : Nonterminal(j)}

Push(j) == queue' = [queue EXCEPT ![j] = @ + 1]

Pop(j) == queue[j] > 0 /\ queue' = [queue EXCEPT ![j] = @ - 1]

OrNot(A, v) == A \/ UNCHANGED v

-----------------------------------------------------------------------------
Init ==
    /\ status = [j \in Jobs |-> None] /\ retries = [j \in Jobs |-> 0]
    /\ pending = {} /\ queue = [j \in Jobs |-> 0]
    /\ stage = [r \in Runners |-> "idle"] /\ job = [r \in Runners |-> None]
    /\ proc = [p \in Processes |-> "up"] /\ todo = [p \in Processes |-> {}]
    /\ lost = {} /\ faults = 0

-----------------------------------------------------------------------------
(* create_batch_job and dispatch_batch_job.                                *)

Submit(j) ==
    /\ status[j] = None /\ proc[Home[j]] = "up"
    /\ CreateRow(j)
    /\ Takes(j, "created", j)
    /\ UNCHANGED <<queue, procVars, lost, faults>>

\* The commit took effect and raised: the request, or the window's flush, ends in an
\* error and never dispatches the job.
SubmitUnacknowledged(j) ==
    /\ status[j] = None /\ proc[Home[j]] = "up"
    /\ Fails
    /\ CreateRow(j)
    /\ lost' = lost \cup {j}
    /\ UNCHANGED <<queue, runnerVars, procVars>>

Enqueue(j) ==
    /\ stage[j] = "created" /\ Home[j] \in Durable
    /\ Push(j)
    /\ Leaves(j)
    /\ UNCHANGED <<rowVars, procVars, lost, faults>>

\* The push raised or timed out: fall back to the inline task.
EnqueueFails(j) ==
    /\ stage[j] = "created" /\ Home[j] \in Durable
    /\ Fails
    /\ OrNot(Push(j), queue)
    /\ Goes(j, "starting")
    /\ UNCHANGED <<rowVars, procVars, lost>>

Inline(j) ==
    /\ stage[j] = "created" /\ Home[j] \notin Durable
    /\ Goes(j, "starting")
    /\ UNCHANGED <<rowVars, queue, procVars, lost, faults>>

-----------------------------------------------------------------------------
(* BatchJobWorker: claim and _drive.                                       *)

Worker(p) == p \in Durable /\ proc[p] = "up" /\ stage[p] = "idle"

Claim(p, j) ==
    /\ Worker(p)
    /\ Pop(j)
    /\ Takes(p, "claimed", j)
    /\ UNCHANGED <<rowVars, procVars, lost, faults>>

\* BRPOP took the entry and its answer was lost.
ClaimFails(p, j) ==
    /\ Worker(p)
    /\ Fails
    /\ Pop(j)
    /\ lost' = lost \cup {j}
    /\ UNCHANGED <<rowVars, runnerVars, procVars>>

\* A terminal job is skipped.
Load(p) ==
    /\ stage[p] = "claimed"
    /\ IF Terminal(job[p]) THEN Leaves(p) ELSE Goes(p, "loaded")
    /\ UNCHANGED <<rowVars, queue, procVars, lost, faults>>

Exceeds(j) == Nonterminal(j) /\ MaxRetries > 0 /\ retries[j] + 1 > MaxRetries

\* Past the cap, a job is failed; one that ended meanwhile counts 0 and is driven.
Count(p) ==
    /\ stage[p] = "loaded"
    /\ IncrementRetry(job[p])
    /\ Goes(p, IF Exceeds(job[p]) THEN "exceeded" ELSE "starting")
    /\ UNCHANGED <<queue, procVars, lost, faults>>

\* The database failed: run_forever logs the error and claims the next job.
Drops(r) == Leaves(r) /\ lost' = lost \cup {job[r]}

LoadFails(p) ==
    /\ stage[p] = "claimed"
    /\ Fails
    /\ Drops(p)
    /\ UNCHANGED <<rowVars, queue, procVars>>

CountFails(p) ==
    /\ stage[p] = "loaded"
    /\ Fails
    /\ OrNot(IncrementRetry(job[p]), rowVars)
    /\ Drops(p)
    /\ UNCHANGED <<queue, procVars>>

-----------------------------------------------------------------------------
(* _process_batch_job, by the worker or by the inline task.                *)

Start(r) ==
    /\ stage[r] = "starting"
    /\ SetInProgress(job[r])
    /\ Goes(r, "running")
    /\ UNCHANGED <<queue, procVars, lost, faults>>

StartFails(r) ==
    /\ stage[r] = "starting"
    /\ Fails
    /\ OrNot(SetInProgress(job[r]), rowVars)
    /\ Goes(r, "erring")
    /\ UNCHANGED <<queue, procVars, lost>>

\* The BatchProcessor ends the job and its items.
Complete(r) ==
    /\ stage[r] = "running" /\ Nonterminal(job[r])
    /\ status' = [status EXCEPT ![job[r]] = "completed"]
    /\ pending' = pending \ {job[r]}
    /\ UNCHANGED <<retries, queue, runnerVars, procVars, lost, faults>>

\* process returned: what it has not ended is nobody's any more.
Return(r) ==
    /\ stage[r] = "running"
    /\ Leaves(r)
    /\ lost' = lost \cup {j \in {job[r]} : Nonterminal(j)}
    /\ UNCHANGED <<rowVars, queue, procVars, faults>>

\* No processor is configured, or process raised or timed out.
Unprocessed(r) ==
    /\ stage[r] = "running"
    /\ Goes(r, "failing")
    /\ UNCHANGED <<rowVars, queue, procVars, lost, faults>>

Failing(r) == stage[r] \in {"exceeded", "failing", "erring"}

Fail(r) ==
    /\ Failing(r)
    /\ SetFailed(job[r])
    /\ Leaves(r)
    /\ UNCHANGED <<queue, procVars, lost, faults>>

\* The first failure to record a failure is caught and retried as internal_error.
FailFails(r) ==
    /\ Failing(r)
    /\ Fails
    /\ OrNot(SetFailed(job[r]), rowVars)
    /\ IF stage[r] = "failing" THEN Goes(r, "erring") /\ UNCHANGED lost ELSE Drops(r)
    /\ UNCHANGED <<queue, procVars>>

-----------------------------------------------------------------------------
(* Shutdown or crash of a process, its start, and recover_orphans.         *)

\* Only the start of a process with the durable queue looks for what was left behind.
Crash(p) ==
    /\ proc[p] # "down"
    /\ Fails
    /\ proc' = [proc EXCEPT ![p] = "down"] /\ todo' = [todo EXCEPT ![p] = {}]
    /\ stage' = [r \in Runners |-> IF Host(r) = p THEN "idle" ELSE stage[r]]
    /\ job' = [r \in Runners |-> IF Host(r) = p THEN None ELSE job[r]]
    /\ lost' = IF p \in Durable THEN lost
               ELSE lost \cup {j \in Jobs : \E r \in Runners : Host(r) = p /\ job[r] = j}
    /\ UNCHANGED <<rowVars, queue>>

Restart(p) ==
    /\ proc[p] = "down"
    /\ IF p \in Durable
       THEN /\ proc' = [proc EXCEPT ![p] = "recovering"]
            /\ todo' = [todo EXCEPT ![p] = Orphans]
       ELSE proc' = [proc EXCEPT ![p] = "up"] /\ UNCHANGED todo
    /\ UNCHANGED <<rowVars, queue, runnerVars, lost, faults>>

Recover(p, j) ==
    /\ j \in todo[p]
    /\ Push(j)
    /\ todo' = [todo EXCEPT ![p] = @ \ {j}]
    /\ lost' = lost \ {j}
    /\ UNCHANGED <<rowVars, runnerVars, proc, faults>>

\* The error is logged, and the job is not tried again.
RecoverFails(p, j) ==
    /\ j \in todo[p]
    /\ Fails
    /\ OrNot(Push(j), queue)
    /\ todo' = [todo EXCEPT ![p] = @ \ {j}]
    /\ lost' = lost \cup {j}
    /\ UNCHANGED <<rowVars, runnerVars, proc>>

\* The worker starts when every orphan was looked at.
Serve(p) ==
    /\ proc[p] = "recovering" /\ todo[p] = {}
    /\ proc' = [proc EXCEPT ![p] = "up"]
    /\ UNCHANGED <<rowVars, queue, runnerVars, todo, lost, faults>>

-----------------------------------------------------------------------------
Dispatch(j) == Enqueue(j) \/ EnqueueFails(j) \/ Inline(j)
Drive(p) == Load(p) \/ LoadFails(p) \/ Count(p) \/ CountFails(p)
Process(r) == Start(r) \/ StartFails(r) \/ Complete(r) \/ Return(r) \/ Unprocessed(r)
                \/ Fail(r) \/ FailFails(r)
Starting(p) == Restart(p) \/ Serve(p) \/ \E j \in Jobs : Recover(p, j) \/ RecoverFails(p, j)

Next ==
    \/ \E j \in Jobs : Submit(j) \/ SubmitUnacknowledged(j) \/ Dispatch(j)
    \/ \E p \in Processes : Drive(p) \/ Crash(p) \/ Starting(p)
    \/ \E p \in Processes, j \in Jobs : Claim(p, j) \/ ClaimFails(p, j)
    \/ \E r \in Runners : Process(r)

Spec == Init /\ [][Next]_vars

\* Event loops run what is ready, a processor returns or times out, workers claim,
\* and a process that went down is started again.
FairSpec ==
    /\ Spec
    /\ \A j \in Jobs : WF_vars(Dispatch(j))
    /\ \A r \in Runners : WF_vars(Process(r))
    /\ \A p \in Processes :
        /\ WF_vars(Drive(p)) /\ WF_vars(Starting(p))
        /\ WF_vars(\E j \in Jobs : Claim(p, j))

-----------------------------------------------------------------------------
TypeOK ==
    /\ status \in [Jobs -> Statuses \cup {None}] /\ retries \in [Jobs -> Nat]
    /\ pending \subseteq Jobs /\ queue \in [Jobs -> Nat]
    /\ stage \in [Runners -> Stages] /\ job \in [Runners -> Jobs \cup {None}]
    /\ proc \in [Processes -> {"up", "down", "recovering"}]
    /\ todo \in [Processes -> SUBSET Jobs]
    /\ lost \subseteq Jobs /\ faults \in Nat

\* The worker of a process and the inline task of a job are what their stage says.
RunnersHold ==
    /\ \A r \in Runners : IF stage[r] = "idle" THEN job[r] = None
                          ELSE job[r] \in Jobs /\ status[job[r]] # None
    /\ \A j \in Jobs : stage[j] # "idle" => job[j] = j
    /\ \A j \in Jobs : stage[j] \notin {"claimed", "loaded", "exceeded"}
    /\ \A p \in Processes : stage[p] # "created" /\ (stage[p] # "idle" => p \in Durable)

OnlyDurableRecovers ==
    \A p \in Processes :
        /\ proc[p] = "recovering" => p \in Durable
        /\ proc[p] # "recovering" => todo[p] = {}

\* Only what was created is enqueued.
EntriesExist ==
    \A j \in Jobs : status[j] = None => queue[j] = 0 /\ \A p \in Processes : j \notin todo[p]

\* A terminal job never leaves pending items behind (set_failed's own words), however
\* many runners drive it and whatever fails.
TerminalLeavesNoPending == \A j \in Jobs : Terminal(j) => j \notin pending

\* What may take a job up: a queue entry, a runner, or the start of a process.
Reachable(j) ==
    \/ queue[j] > 0
    \/ \E r \in Runners : job[r] = j
    \/ \E p \in Durable : proc[p] = "down" \/ j \in todo[p]

\* A job that has not ended is always somewhere it will be taken up from, unless an error
\* dropped it, at its creation or one the code logs and swallows later: no interleaving of claims, skips,
\* crashes and recoveries loses one.
NeverForgotten == \A j \in Jobs : Nonterminal(j) => Reachable(j) \/ j \in lost

\* The inductive invariant.
JInv ==
    /\ TypeOK /\ RunnersHold /\ OnlyDurableRecovers /\ EntriesExist
    /\ TerminalLeavesNoPending /\ NeverForgotten

\* The first terminal status of a job is its last: a second runner that still drives
\* the job, or fails to, does not overwrite it.
TerminalIsFinal == [][\A j \in Jobs : Terminal(j) => status'[j] = status[j]]_vars

\* How a job looks to somebody who only cares whether it is done.
StateView ==
    [j \in Jobs |-> IF Nonterminal(j) THEN "open"
                    ELSE IF status[j] = None THEN "none" ELSE status[j]]
EffectsView == {j \in Jobs : status[j] # None /\ j \notin pending}
CareView == {j \in Jobs : Nonterminal(j) /\ Reachable(j)}
DroppedView == {j \in lost : Nonterminal(j)}

Work == INSTANCE DurableWork WITH
    Work <- Jobs, Ends <- Terminals, Effective <- Terminals, Retried <- {}, Groups <- {},
    state <- StateView, effects <- EffectsView, care <- CareView, dropped <- DroppedView

\* The rows, the queue, the workers and the recovery together keep what DurableWork
\* promises: a job ends once, with its items and by a runner that has it, and is never
\* silently forgotten.
WorkRefined == Work!WorkSpec

\* Every job ends, or was dropped by an error, at its creation or one that the code
\* swallows later.
JobsEnd == \A j \in Jobs : status[j] # None ~> Terminal(j) \/ j \in lost

==============================================================================
