----------------------------- MODULE BatchWindow -----------------------------
(***************************************************************************)
(* Diversion of chat completions into batch jobs: BatchDiversionAdapter,   *)
(* BatchWindowBuffer and BatchWindowFlusher in every gateway process, over *)
(* the windows and result markers in Redis that all processes share.       *)
(*                                                                         *)
(* A diverted request is an item of its tenant's window.  Its caller waits *)
(* for a result marker; a flusher claims the window when it is due, makes  *)
(* a job of it and publishes the markers.  A caller that waits in vain     *)
(* runs the request synchronously.  Each Redis call is one Lua script or   *)
(* command, and may fail with or without having taken effect.              *)
(***************************************************************************)
EXTENDS Integers, FiniteSets

CONSTANTS
    Processes, Tenants, Items,
    Home,           \* the process that serves the request of an item
    TenantOf,
    MaxItems,       \* batch_max_items_per_job
    MaxFaults,      \* bound on failed calls, crashes and slow flushes
    None

\* "direct" is the request that was never diverted; the three others of these are
\* the synchronous fallback, after a won abandon, a "failed" marker, or no outcome.
SyncAnswers == {"direct", "abandoned", "failed", "unresolved"}
Kinds == {"claimed", "abandoned", "submitted", "failed"}

ASSUME WindowAssumption ==
    /\ Home \in [Items -> Processes] /\ TenantOf \in [Items -> Tenants]
    /\ IsFiniteSet(Items)
    /\ MaxItems \in Nat \ {0} /\ MaxFaults \in Nat
    /\ None \notin SyncAnswers \cup Kinds

VARIABLES
    window,         \* items list of each tenant
    elapsed,        \* tenants whose window is older than batch_window_seconds
    marker,         \* result marker of each item
    pc,             \* progress of each caller
    answer,         \* how the caller was answered
    flusher,        \* progress of the flusher of each process
    todo,           \* tenants its cycle has still to look at
    group,          \* items it has claimed and not yet published
    jobs,           \* job rows each item is in
    dispatched,     \* items whose job was handed to a worker
    faults

callerVars == <<pc, answer>>
flusherVars == <<flusher, todo, group>>
jobVars == <<jobs, dispatched>>
vars == <<window, elapsed, marker, pc, answer, flusher, todo, group, jobs, dispatched, faults>>

Waiting == {"waiting", "claimed", "rewaiting"}

Fails == faults < MaxFaults /\ faults' = faults + 1

ActiveTenants == {t \in Tenants : window[t] # {}}

\* An item that some flusher has claimed and not yet published.
Carried(i) == \E p \in Processes : i \in group[p]

-----------------------------------------------------------------------------
(* The Lua scripts.                                                        *)

AppendScript(i) == window' = [window EXCEPT ![TenantOf[i]] = @ \cup {i}]

\* Fault for sensitivity: a window is due when it is full, and not by its age.
DueByCount(t) == window[t] # {} /\ Cardinality(window[t]) >= MaxItems

Due(t) == window[t] # {} /\ (t \in elapsed \/ Cardinality(window[t]) >= MaxItems)

\* Fault for sensitivity: an abandoned item is claimed like the others.
ClaimableAll(t) == window[t]

\* An item with a marker was abandoned by its caller.
Claimable(t) == {i \in window[t] : marker[i] = None}

\* Drain the window, mark what is claimed, and forget the abandoned markers.
ClaimScript(t) ==
    /\ window' = [window EXCEPT ![t] = {}]
    /\ elapsed' = elapsed \ {t}
    /\ marker' = [i \in Items |->
                    IF i \in Claimable(t) THEN "claimed"
                    ELSE IF i \in window[t] THEN None ELSE marker[i]]

TryAbandonScript(i) ==
    marker' = [marker EXCEPT ![i] = IF @ = None THEN "abandoned" ELSE @]

-----------------------------------------------------------------------------
Init ==
    /\ window = [t \in Tenants |-> {}] /\ elapsed = {}
    /\ marker = [i \in Items |-> None]
    /\ pc = [i \in Items |-> "new"] /\ answer = [i \in Items |-> None]
    /\ flusher = [p \in Processes |-> "idle"]
    /\ todo = [p \in Processes |-> {}] /\ group = [p \in Processes |-> {}]
    /\ jobs = [i \in Items |-> 0] /\ dispatched = {}
    /\ faults = 0

-----------------------------------------------------------------------------
(* try_divert and the lifecycle of the response stream.                    *)

Answered(i, a) ==
    /\ pc' = [pc EXCEPT ![i] = "over"]
    /\ answer' = [answer EXCEPT ![i] = a]

Becomes(i, state) == pc' = [pc EXCEPT ![i] = state] /\ UNCHANGED answer

\* No batch processor is wired: the request is never buffered.
NotDiverted(i) ==
    /\ pc[i] = "new"
    /\ Answered(i, "direct")
    /\ UNCHANGED <<window, elapsed, marker, flusherVars, jobVars, faults>>

Divert(i) ==
    /\ pc[i] = "new"
    /\ AppendScript(i)
    /\ Becomes(i, "waiting")
    /\ UNCHANGED <<elapsed, marker, flusherVars, jobVars, faults>>

\* append raised, a timeout of the client's included: proceed synchronously.
DivertFails(i) ==
    /\ pc[i] = "new"
    /\ Fails
    /\ AppendScript(i) \/ UNCHANGED window
    /\ Answered(i, "direct")
    /\ UNCHANGED <<elapsed, marker, flusherVars, jobVars>>

SeeClaimed(i) ==
    /\ pc[i] = "waiting" /\ marker[i] = "claimed"
    /\ Becomes(i, "claimed")
    /\ UNCHANGED <<window, elapsed, marker, flusherVars, jobVars, faults>>

SeeOutcome(i) ==
    /\ pc[i] \in Waiting /\ marker[i] \in {"submitted", "failed"}
    /\ Answered(i, marker[i])
    /\ UNCHANGED <<window, elapsed, marker, flusherVars, jobVars, faults>>

\* Tier 1 of the wait: no claim was seen for the window and a margin.
ShortDeadline(i) ==
    /\ pc[i] = "waiting"
    /\ Becomes(i, "abandoning")
    /\ UNCHANGED <<window, elapsed, marker, flusherVars, jobVars, faults>>

\* A flusher that lives publishes well within the ceiling, and the caller polls: it
\* misses the outcome when the flusher is slow or its polls fail.
Missed(i) ==
    IF Carried(i) \/ marker[i] \in {"submitted", "failed"} THEN Fails ELSE UNCHANGED faults

\* Tier 2: a claim was seen and its outcome did not come.
LongDeadline(i) ==
    /\ pc[i] = "claimed"
    /\ Missed(i)
    /\ Becomes(i, "abandoning")
    /\ UNCHANGED <<window, elapsed, marker, flusherVars, jobVars>>

TryAbandon(i) ==
    /\ pc[i] = "abandoning"
    /\ TryAbandonScript(i)
    /\ IF marker[i] = None THEN Answered(i, "abandoned") ELSE Becomes(i, "rewaiting")
    /\ UNCHANGED <<window, elapsed, flusherVars, jobVars, faults>>

\* Fault for sensitivity: an error of try_abandon is taken for a success.
TryAbandonFailsOpen(i) ==
    /\ pc[i] = "abandoning"
    /\ Fails
    /\ TryAbandonScript(i) \/ UNCHANGED marker
    /\ Answered(i, "abandoned")
    /\ UNCHANGED <<window, elapsed, flusherVars, jobVars>>

\* The answer is lost: treated as a refusal.
TryAbandonFails(i) ==
    /\ pc[i] = "abandoning"
    /\ Fails
    /\ TryAbandonScript(i) \/ UNCHANGED marker
    /\ Becomes(i, "rewaiting")
    /\ UNCHANGED <<window, elapsed, flusherVars, jobVars>>

\* Fault for sensitivity: the second wait has no bound.
CeilingUnbounded(i) == pc[i] = "none" /\ Answered(i, "unresolved") /\ UNCHANGED vars

\* The second wait is not repeated: the fallback runs without knowing.
Ceiling(i) ==
    /\ pc[i] = "rewaiting"
    /\ Missed(i)
    /\ Answered(i, "unresolved")
    /\ UNCHANGED <<window, elapsed, marker, flusherVars, jobVars>>

Disconnect(i) ==
    /\ pc[i] \in Waiting \cup {"abandoning"}
    /\ Becomes(i, "gone")
    /\ UNCHANGED <<window, elapsed, marker, flusherVars, jobVars, faults>>

CallerNext(i) ==
    \/ SeeClaimed(i) \/ SeeOutcome(i) \/ ShortDeadline(i) \/ LongDeadline(i)
    \/ TryAbandon(i) \/ TryAbandonFails(i) \/ Ceiling(i)

-----------------------------------------------------------------------------
(* flush_once: list the tenants, then claim and flush one after the other. *)

ListTenants(p) ==
    /\ flusher[p] = "idle" /\ ActiveTenants # {}
    /\ todo' = [todo EXCEPT ![p] = ActiveTenants]
    /\ flusher' = [flusher EXCEPT ![p] = "claiming"]
    /\ UNCHANGED <<window, elapsed, marker, callerVars, group, jobVars, faults>>

\* The next tenant's turn; the cycle is over after the last.
NextTurn(p, t) ==
    /\ todo' = [todo EXCEPT ![p] = @ \ {t}]
    /\ flusher' = [flusher EXCEPT ![p] = IF todo[p] = {t} THEN "idle" ELSE "claiming"]

ClaimDue(p, t) ==
    /\ flusher[p] = "claiming" /\ t \in todo[p]
    /\ Due(t) /\ Claimable(t) # {}
    /\ ClaimScript(t)
    /\ group' = [group EXCEPT ![p] = Claimable(t)]
    /\ todo' = [todo EXCEPT ![p] = @ \ {t}]
    /\ flusher' = [flusher EXCEPT ![p] = "creating"]
    /\ UNCHANGED <<callerVars, jobVars, faults>>

\* Nothing is due any more, or every item of the window was abandoned.
ClaimNothing(p, t) ==
    /\ flusher[p] = "claiming" /\ t \in todo[p]
    /\ \/ ~Due(t) /\ UNCHANGED <<window, elapsed, marker>>
       \/ Due(t) /\ Claimable(t) = {} /\ ClaimScript(t)
    /\ NextTurn(p, t)
    /\ UNCHANGED <<callerVars, group, jobVars, faults>>

\* claim_due raised: the tenant is skipped this cycle, claimed or not.
ClaimFails(p, t) ==
    /\ flusher[p] = "claiming" /\ t \in todo[p]
    /\ Fails
    /\ \/ Due(t) /\ ClaimScript(t)
       \/ UNCHANGED <<window, elapsed, marker>>
    /\ NextTurn(p, t)
    /\ UNCHANGED <<callerVars, group, jobVars>>

JobRow(p) == jobs' = [i \in Items |-> IF i \in group[p] THEN jobs[i] + 1 ELSE jobs[i]]

CreateJob(p) ==
    /\ flusher[p] = "creating"
    /\ JobRow(p)
    /\ flusher' = [flusher EXCEPT ![p] = "dispatching"]
    /\ UNCHANGED <<window, elapsed, marker, callerVars, todo, group, dispatched, faults>>

\* Fault for sensitivity: a transaction that raised is tried again.
CreateJobRetried(p) ==
    /\ flusher[p] = "creating"
    /\ Fails
    /\ JobRow(p) \/ UNCHANGED jobs
    /\ UNCHANGED <<window, elapsed, marker, callerVars, flusherVars, dispatched>>

\* The transaction raised, at its commit perhaps: "failed" for every item.
CreateJobFails(p) ==
    /\ flusher[p] = "creating"
    /\ Fails
    /\ JobRow(p) \/ UNCHANGED jobs
    /\ flusher' = [flusher EXCEPT ![p] = "failed"]
    /\ UNCHANGED <<window, elapsed, marker, callerVars, todo, group, dispatched>>

\* "submitted" is published whether or not the dispatch worked.
Dispatch(p) ==
    /\ flusher[p] = "dispatching"
    /\ dispatched' = dispatched \cup group[p]
    /\ flusher' = [flusher EXCEPT ![p] = "submitted"]
    /\ UNCHANGED <<window, elapsed, marker, callerVars, todo, group, jobs, faults>>

DispatchFails(p) ==
    /\ flusher[p] = "dispatching"
    /\ Fails
    /\ dispatched' \in {dispatched, dispatched \cup group[p]}
    /\ flusher' = [flusher EXCEPT ![p] = "submitted"]
    /\ UNCHANGED <<window, elapsed, marker, callerVars, todo, group, jobs>>

Published(p, i) ==
    /\ group' = [group EXCEPT ![p] = @ \ {i}]
    /\ flusher' = [flusher EXCEPT ![p] =
                     IF group[p] # {i} THEN @
                     ELSE IF todo[p] = {} THEN "idle" ELSE "claiming"]

PublishResult(p, i) ==
    /\ flusher[p] \in {"submitted", "failed"} /\ i \in group[p]
    /\ marker' = [marker EXCEPT ![i] = flusher[p]]
    /\ Published(p, i)
    /\ UNCHANGED <<window, elapsed, callerVars, todo, jobVars, faults>>

\* The error is swallowed and nothing tries again.
PublishFails(p, i) ==
    /\ flusher[p] \in {"submitted", "failed"} /\ i \in group[p]
    /\ Fails
    /\ marker' \in {marker, [marker EXCEPT ![i] = flusher[p]]}
    /\ Published(p, i)
    /\ UNCHANGED <<window, elapsed, callerVars, todo, jobVars>>

FlusherNext(p) ==
    \/ ListTenants(p) \/ CreateJob(p) \/ CreateJobFails(p) \/ Dispatch(p) \/ DispatchFails(p)
    \/ \E t \in Tenants : ClaimDue(p, t) \/ ClaimNothing(p, t) \/ ClaimFails(p, t)
    \/ \E i \in Items : PublishResult(p, i) \/ PublishFails(p, i)

-----------------------------------------------------------------------------
(* Time and processes.                                                     *)

WindowElapses(t) ==
    /\ window[t] # {} /\ t \notin elapsed
    /\ elapsed' = elapsed \cup {t}
    /\ UNCHANGED <<window, marker, callerVars, flusherVars, jobVars, faults>>

\* Markers outlive every wait for them; abandoned ones outlive their window too.
MarkerExpires(i) ==
    /\ marker[i] # None /\ pc[i] \in {"over", "gone"}
    /\ i \notin window[TenantOf[i]]
    /\ marker' = [marker EXCEPT ![i] = None]
    /\ UNCHANGED <<window, elapsed, callerVars, flusherVars, jobVars, faults>>

\* A process restarts: its flusher forgets its group and its streams break.
ProcessDies(p) ==
    /\ Fails
    /\ flusher' = [flusher EXCEPT ![p] = "idle"]
    /\ todo' = [todo EXCEPT ![p] = {}]
    /\ group' = [group EXCEPT ![p] = {}]
    /\ pc' = [i \in Items |->
                IF Home[i] = p /\ pc[i] \notin {"new", "over"} THEN "gone" ELSE pc[i]]
    /\ UNCHANGED <<window, elapsed, marker, answer, jobVars>>

Next ==
    \/ \E i \in Items : NotDiverted(i) \/ Divert(i) \/ DivertFails(i)
                          \/ CallerNext(i) \/ Disconnect(i) \/ MarkerExpires(i)
    \/ \E p \in Processes : FlusherNext(p) \/ ProcessDies(p)
    \/ \E t \in Tenants : WindowElapses(t)

Spec == Init /\ [][Next]_vars

\* Deadlines pass, event loops run their tasks, and flushers loop forever.
Fairness ==
    /\ \A i \in Items : WF_vars(CallerNext(i))
    /\ \A p \in Processes : WF_vars(FlusherNext(p))
    /\ \A t \in Tenants : WF_vars(WindowElapses(t))

FairSpec == Spec /\ Fairness

-----------------------------------------------------------------------------
TypeOK ==
    /\ window \in [Tenants -> SUBSET Items] /\ elapsed \subseteq Tenants
    /\ \A t \in Tenants : \A i \in window[t] : TenantOf[i] = t
    /\ marker \in [Items -> Kinds \cup {None}]
    /\ pc \in [Items -> Waiting \cup {"new", "abandoning", "over", "gone"}]
    /\ answer \in [Items -> SyncAnswers \cup {None, "submitted"}]
    /\ flusher \in [Processes -> {"idle", "claiming", "creating", "dispatching",
                                  "submitted", "failed"}]
    /\ todo \in [Processes -> SUBSET Tenants] /\ group \in [Processes -> SUBSET Items]
    /\ jobs \in [Items -> Nat] /\ dispatched \subseteq Items
    /\ faults \in Nat

\* A caller that won the abandonment and ran its request synchronously is alone: no
\* flusher has the item then or later, whatever raced ("never both and never neither").
NeverBoth == \A i \in Items : answer[i] = "abandoned" => jobs[i] = 0 /\ ~Carried(i)

\* However many processes flush, and whichever answers are lost, an item is in one
\* job at most, and only committed jobs are dispatched (claim_due).
OneJob ==
    /\ \A i \in Items : jobs[i] <= 1
    /\ \A i \in dispatched : jobs[i] = 1

\* A caller told to poll a job can: the row is committed before "submitted" is
\* published (_flush_group).
SubmittedIsPollable == \A i \in Items : answer[i] = "submitted" => jobs[i] = 1

\* A caller that falls back on a "failed" marker is not processed by a dispatched
\* job, although the commit that failed may have been made.
FailedNotDispatched == \A i \in Items : answer[i] = "failed" => i \notin dispatched

\* An item is run synchronously and put in a job only after some call's answer was
\* lost, a process died or a flush took longer than the ceiling.
TwiceOnlyByFault ==
    faults = 0 => \A i \in Items : ~(answer[i] \in SyncAnswers /\ jobs[i] > 0)

\* An item that was not diverted, or waits in its window, is nowhere else.
Untaken(i) == jobs[i] = 0 /\ i \notin dispatched /\ ~Carried(i)

Fresh ==
    \A i \in Items :
        /\ pc[i] = "new" => i \notin window[TenantOf[i]] /\ marker[i] = None
        /\ pc[i] = "new" \/ i \in window[TenantOf[i]] => Untaken(i)
        /\ i \in window[TenantOf[i]] => marker[i] \in {None, "abandoned"}
        /\ answer[i] # None <=> pc[i] = "over"

\* What a flusher carries is its own, and is as far as the flusher is.
Carrying ==
    /\ \A p, q \in Processes : p = q \/ group[p] \cap group[q] = {}
    /\ \A p \in Processes : flusher[p] \in {"idle", "claiming"} => group[p] = {}
    /\ \A p \in Processes : \A i \in group[p] :
        /\ flusher[p] \in {"creating", "dispatching", "failed"} => i \notin dispatched
        /\ flusher[p] = "creating" => jobs[i] = 0
        /\ flusher[p] \in {"dispatching", "submitted"} => jobs[i] = 1
        /\ jobs[i] <= 1

\* A taken item keeps a marker while its caller waits; an outcome is published last.
Marked ==
    \A i \in Items :
        /\ pc[i] \notin {"over", "gone"} /\ (Carried(i) \/ jobs[i] > 0) =>
             marker[i] \in {"claimed", "submitted", "failed"}
        /\ marker[i] = "submitted" => jobs[i] = 1 /\ ~Carried(i)
        /\ marker[i] = "failed" \/ answer[i] = "failed" =>
             i \notin dispatched /\ ~Carried(i) /\ i \notin window[TenantOf[i]]
        /\ answer[i] = "abandoned" /\ i \in window[TenantOf[i]] => marker[i] = "abandoned"

\* Without a fault every claim is carried to "submitted" and every abandonment is known.
Faultless ==
    faults = 0 =>
      /\ \A p \in Processes : flusher[p] # "failed"
      /\ \A i \in Items :
        /\ marker[i] # "failed" /\ answer[i] \notin {"failed", "unresolved"}
        /\ marker[i] = "claimed" => Carried(i)
        /\ marker[i] = "abandoned" => answer[i] = "abandoned"
        /\ pc[i] = "rewaiting" => marker[i] \in {"claimed", "submitted"}
        /\ answer[i] = "direct" => i \notin window[TenantOf[i]] /\ Untaken(i)

\* A caller that waits finds a marker, or its item is still in its window: no claim
\* takes an item away behind its back ("never neither").
Awaited ==
    \A i \in Items : pc[i] \in {"waiting", "claimed", "abandoning"} =>
        /\ marker[i] # "abandoned"
        /\ marker[i] = None => i \in window[TenantOf[i]]

WInv ==
    /\ TypeOK /\ Fresh /\ Carrying /\ Marked /\ Awaited /\ Faultless
    /\ NeverBoth /\ OneJob /\ SubmittedIsPollable

-----------------------------------------------------------------------------
(* Whose an item is, read off the windows, markers, flushers and jobs.     *)

CarriedAt(i, stage) == \E p \in Processes : i \in group[p] /\ flusher[p] = stage

OwnerOf(i) ==
    IF pc[i] = "new" THEN "new"
    ELSE IF i \in window[TenantOf[i]] THEN (IF marker[i] = None THEN "window" ELSE "caller")
    ELSE IF i \in dispatched THEN "running"
    ELSE IF CarriedAt(i, "creating") THEN "taken"
    ELSE IF CarriedAt(i, "dispatching") THEN "committed"
    ELSE IF jobs[i] > 0 THEN "shelved" ELSE "caller"

OwnerView == [i \in Items |-> OwnerOf(i)]

Diverted == INSTANCE DivertedWork WITH owner <- OwnerView, told <- answer

\* Lua scripts, markers and flushers, with lost answers and deaths, implement one owner
\* at a time: an item passes forward only, comes back to its caller once and for all,
\* and what the caller is told agrees with whose it is (try_divert, flush_once).
DiversionRefined == Diverted!WorkSpec

\* No stream hangs: its caller is answered whatever becomes of the flush (G10).
CallersAnswered ==
    \A i \in Items : pc[i] \in Waiting \cup {"abandoning"} ~> pc[i] \in {"over", "gone"}

\* Every window is drained, although flushers fail, race and die.
WindowsDrained ==
    \A i \in Items : i \in window[TenantOf[i]] ~> i \notin window[TenantOf[i]]

=============================================================================
