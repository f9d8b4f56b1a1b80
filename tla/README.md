# Hydroa gateway: TLA+ models and proofs

Hydroa is a multi-tenant AI gateway: clients call one HTTP API, and the gateway
proxies each request to a model provider after authenticating it, limiting it,
holding its estimated cost against the tenant's prepaid credits and reserving a
slot of its service tier; afterwards it records what the request cost. The models
follow the Python service `src/apps/gateway/src/gateway` (written `G/`). It runs
as several processes that share one PostgreSQL database and one Redis; every
module below is about what those processes do to each other through them.

1. [The system](#1-the-system)
2. [The modules](#2-the-modules)
3. [What is checked](#3-what-is-checked)
4. [What is proved](#4-what-is-proved)
5. [Where code and documents disagree](#5-where-code-and-documents-disagree)
6. [Abstractions and what is left out](#6-abstractions-and-what-is-left-out)
7. [Plan](#7-plan)

## 1. The system

### How a request passes through it

    client -> authenticate -> governance (expiry, allowlists, catalog, budgets)
           -> tier slot (Redis) -> credit hold (Postgres) -> rate limits (Redis)
           -> route: candidates, circuit breaker, fallback -> provider
           -> answer or stream to the client
           -> record task: XADD usage:events -> spend counters
                           | done: settle or release the hold, free the slot
    or, when it may wait: -> tenant's batch window (Redis) -> job -> batch worker
    background, in every process:
           flusher: usage:events -> usage_records
           hold sweep: release of orphaned credit holds
           recovery sweep: corrections of streams the client aborted
           window flusher, batch worker, vector-store ingestion worker

Processes do not call each other. They meet in the balance row and the ledger of a
tenant (row locks, a global unique index), in the stream and its consumer group,
in `usage_records` (a primary key), in job and file rows (guarded updates, the
tenant's row lock), and in Redis keys changed by atomic commands or Lua scripts. Each of those calls can fail after having taken effect.

### Components that keep state others depend on

| component | state | operations | where it is hard | what makes it correct |
|---|---|---|---|---|
| **Prepaid credits** `G/credits` | `tenant_credit_balances` (one row per tenant), append-only `credit_ledger` | `check_and_hold`, `settle`, `release`, `topup`, hold sweep | concurrent admissions, duplicate finalisers, sweep against late settle, lost commit acknowledgements, one key used by two tenants | balance is the ledger's sum; a hold is finalised once and eventually; a key credits once; admissions never overdraw |
| **Usage metering** `G/usage` | stream `usage:events` with its pending list, `usage_records`, spend counters, correction markers | record task, flusher cycle, `recover`, recovery sweep | at-least-once delivery, XADD that timed out but landed, flushers sharing one consumer, duplicate recoveries, crash between marker and counters | a charge is billed once and not lost; a corrected request costs the authoritative amount; counters never run ahead |
| **Admission** `G/proxy/application/use_cases.py`, `governance.py` | context variables of the request, open hold and slot | `_enforce_governance`, `_dispatch_record`, `_settle_or_release_hold` | refusals and cancellations between two reservations, several records for one hold, disconnects | every slot and hold taken is given back once |
| **Tier capacity** `G/proxy/infrastructure/tier_capacity_guard.py` | three Redis sorted sets, a dict per process, caps | `check_and_hold`, `release`, `reconfigure` | expiry of live holds, lost answers, caps that differ between processes, fail-open | no pool exceeds settings that were put; one slot per request, given back or reclaimed; a priority price only for a priority slot |
| **Tenant budget** `G/budgets` | spend counter, reservations with a TTL and their sum | `check` | committed spend read outside the script, reservations that expire before the cost is counted | concurrent checks overshoot by less than one estimate |
| **Rate limits** `G/rate_limits` | sliding windows, token buckets | RPM/TPM scripts, bucket refill | clock of the caller, rounding, boundary of the window | no window admits more than its limit |
| **Routing** `G/proxy/application/fallback_router.py`, `circuit_breaker.py` | breaker per provider, cooldowns, load slots | pick, try, record success or failure | probes of a half-open breaker, late failures | one probe; an open breaker closes again |
| **Batch diversion** `G/proxy/infrastructure/batch_*.py`, `G/batches/application/window_flusher.py` | a window per tenant, a result marker per item | append, wait, abandon; claim, create job, dispatch, publish | a caller that gives up against a flusher that claims, lost answers, crash after the claim | an item is answered synchronously or batched, not both; every caller is answered |
| **Batch jobs** `G/batches` | job and item rows, queue | submit, dispatch, claim, drive, recover | two drivers of one job, crash in the middle, entries taken and lost | the first end is final, leaves nothing pending, and no job is forgotten |
| **Vector ingestion** `G/vector_stores` | rows, chunks, bytes of a store, queue; the tenant's ZDR flag | attach, drive, finalise, recover, delete store | duplicate drives, a policy that changes between check and write, crash before billing | indexed, counted and billed once; nothing written under zero data retention |
| **Payments** `G/payments` | checkout sessions | create, webhook | redelivered and reordered webhooks | one top-up per payment |
| **Agent OAuth** `G/agent_oauth` | device codes, token families | authorize, approve, poll, refresh, revoke | code redeemed twice, rotated token reused | single use, reuse revokes the family |
| **Invoices** `G/billing` | invoices, seat events | proration, generation per period | boundaries of the period, two generators | totals agree with a reference; one invoice per period |
| **Domain capture** `G/domain_capture` | claims, challenges | challenge, verify, release | two tenants claiming one domain | one verified owner |

The rest (key, team, tenant and plan administration, authentication, SCIM, audit,
logs, evaluations, video, compliance reports, files, memory,
conversations, the MCP connector, provider adapters, caches, the dashboard and the
deployment files) is listed in `PROJECT.json` with the reason it is not modelled:
administrative updates of one row, pure I/O and conversions, or workers that are
copies of the batch worker.

## 2. The modules

| module | what it is |
|---|---|
| `CreditAccount` | what the credit ledger promises: an account per tenant whose admissions, settles, releases and top-ups are atomic |
| `CreditLedger` | the guard, the top-up service and the sweep as concurrent transactions; refines `CreditAccount` |
| `CreditLedgerProofs` | TLAPS proofs of its safety properties and of the refinement |
| `UsageCharges` | what metering promises: charges become owed, each owed charge is billed once, a correction brings the total to the target |
| `UsagePipeline` | recorder, flushers and recoveries over Redis and the ledger table; refines `UsageCharges` |
| `UsagePipelineProofs` | TLAPS proofs of its safety properties and of the refinement |
| `TierCapacity` | the admission slots of service tiers: every process's guard over the three pools in Redis |
| `TierCapacityProofs` | TLAPS proofs of its safety properties |
| `Admission` | a request between its two holds and the tasks that give them back, over the `CreditAccount` that `CreditLedger` implements |
| `BudgetGuard` | the monthly budget of a tenant: checks, reservations and the counter that follows |
| `DivertedWork` | what diversion promises: a put-off request has one owner at a time, and its caller is told whose it is |
| `BatchWindow` | diversion into batch windows: waiting callers against the flushers of every process; refines `DivertedWork` |
| `DurableWork` | what the background workers promise: work ends once, with its effects, by whoever has it in care, and is never silently forgotten |
| `BatchJobs` | job rows from submission to their end, by workers and inline tasks, with recovery; refines `DurableWork` |
| `VectorIngest` | ingestion of files, with the retention policy that races with it; refines `DurableWork` |
| `AdmissionProofs`, `BudgetGuardProofs`, `BatchWindowProofs`, `BatchJobsProofs`, `VectorIngestProofs` | TLAPS proofs of their safety properties and refinements |
| `MC...` | values of the constants and symmetry for TLC, one module per specification |

Operators called `...Unlocked`, `...Swapped`, `InsertAnyway` and the like, under a
comment "Fault for sensitivity", are wrong variants of the definition after them.
No specification uses them; they exist so that each property can be shown to fail
when the code it is about is broken in a plausible way (`PROJECT.json`, `mutants`).

### The abstract specifications

Four small modules say what a client of a component may rely on; the component is shown
to implement them, by TLC on an instance and by TLAPS in general. Their variables are
read off the detailed state.

| promise | implemented by | what the mapping reads |
|---|---|---|
| `CreditAccount`: hold, settle, release and top-up are atomic | `CreditLedger` | committed ledger rows: a request's hold and what ended it, a key's top-up |
| `UsageCharges`: owed, billed once, corrected to the target | `UsagePipeline` | durable events and rows |
| `DivertedWork`: an item's owner goes from its window to a flusher, a committed job and its run, or back to its caller for good | `BatchWindow` | `OwnerOf`: windows, markers, the flushers' groups, jobs |
| `DurableWork`: open work is in somebody's care or on record as dropped, and ends once | `BatchJobs`, `VectorIngest` | `StateView`, `EffectsView` (items of an ended job; chunks), `CareView` (queue, runners, what a start recovers), `DroppedView` (errors swallowed, or answered to the one who offered) |

### CreditLedger

A *session* is one database transaction of some gateway process. Its `pc` walks
through `begin` (open, not yet locked), `locked` (it holds `FOR UPDATE` on its
tenant's row and has read the balance into `seen`), `looked` (a top-up's pre-check
missed), `staged` (row inserted and balance updated, uncommitted), `requery` (a
top-up lost the unique index and looks again), and back to `idle`.

| code | model |
|---|---|
| `PostgresCreditGuard.check_and_hold` | `CheckAndHold`, then `LockBalanceRow`, `StageHold` or `RefuseHold`, `Commit` |
| `settle`, `release` | `Settle`/`Release`, `LockBalanceRow`, `StageFinalization` or `NothingToFinalize`, `Commit` |
| `topup` | `Topup`, `LockBalanceRow`, `LookupMiss` or `AnswerExisting`, `StageTopup` or `InsertConflict`, `Commit`, `AnswerExisting` again |
| `CreditHoldRecoverySweeper.sweep_once` | `HoldAges`, `SweepScan`, `SweepRelease` per candidate |
| swallowed database errors (fail-open admission) | `FailTransaction` |
| commit that took effect although the caller saw an error | `CommitUnacknowledged` |
| process death | `CrashRequest` |

Uncommitted rows are invisible to other sessions, except through the unique index:
an insert waits for an uncommitted row with its key (`KeyContended`). The candidates
of a sweep are read outside any lock and may be stale when they are released; a
request may dispatch any number of settles and releases, since several usage
records can share one hold.

### UsagePipeline

`task[e]` is the record task of request `e`: `new` until its XADD, `fallback`
after a failed XADD, `counting` while it moves the spend counters one at a time.
The stream is a sequence with a `cursor` (last delivered entry), the pending list
`pel`, and `stale`, the pending entries old enough to be reclaimed. Every process
reads under the same consumer name, so there is one pending list, and a flusher can
reclaim an entry another one still has in hand. `sum[c]` is `SUM(cost_usd)` over
the rows of a charge; it is a variable, changed where `rows` is and tied to it by
`PricedRight`, so that the proofs need no recursive sum.

| code | model |
|---|---|
| `RecordingUsageRecorder._record_internal`, `_fallback_insert` | `XAdd`, `XAddFails`, `FallbackInsert`, `FallbackFails`, `Count`, `CountFails`, `RecordDies` |
| `UsageLedgerFlusher.flush_once` | `Claim`, `ReadNew`, `InsertRow`, `Ack`, `EndCycle`, and the failing form of each |
| shutdown drain (minimum idle time 0) | `Idles` at any time |
| `recover()`, inline or from the sweep | `StartRecovery`, `BillDelta`, `GiveUp` |
| `record_correction` | `AddCorrection`, `Mark`, `CountCorrection`, and `...Unanswered` |

Every call is one step, and a failing call may have taken effect or not. The two
looks `recover` takes at the ledger are separate steps (`StartRecovery`,
`BillDelta`), with any other process in between.

### TierCapacity

A request is served by one process (`Home`) and goes through `check_and_hold` once:
`trying` while it has places of its tier's list `left`, each tried in a call of its
own, then `running` or `refused`. The pools are sets of requests; `overdue` holds
those whose member is past the TTL. Each process has its own copy of the settings
(`config`), and an admission keeps the ones it started with (`against`), as the
code computes its list of pools and caps once.

| code | model |
|---|---|
| `_POOL_ADMIT_LUA` | `AdmitScript`: drop members past the TTL, count, add if there is room |
| `RedisTierCapacityGuard.check_and_hold` | `PassThrough`, `CheckAndHold`, `Admit`, `Full`, `CallFails` (the fail-open, degraded admission), `CallAbandoned` |
| `release` | `Release` (takes the hold out of `_holds`), `Free`, `FreeFails` |
| a refusal after the admission, a failed usage record | `NeverReleased` |
| passing of time, expiry of keys | `TtlPasses`, `KeyExpires` |
| `PUT /admin/platform/service-tiers` | `Reconfigure`, in the process that answers it |
| restart of a process | `WorkerDies`: boot settings, no holds |

### Admission

A request's coroutine (`pc`) walks through `_enforce_governance`: tier slot, credit
hold, rate limits, and on a refusal the steps that give back. An admitted request is
`serving` and may dispatch usage records; each is a task, and when it is done two more
tasks start, one for the slot and one for the hold. The ledger is `CreditAccount`,
instantiated; the slot is a value, since what the pools do is `TierCapacity`.

| code | model |
|---|---|
| `_enforce_governance` (and its copy in `governance.py`) | `TierHold` ... `RatesPass`, `RatesRefuse`, `GiveCredit`, `GiveSlot`, `GiveBackFails`; `Cancel` |
| `_dispatch_record`, the end of `complete` and `stream` | `DispatchRecord`, `Finish` |
| `record_with_outcome` | `Record`, `RecordFails` |
| `_settle_or_release_hold` | `Outcome`, then `SettleHold` or `ReleaseHold`, and `FreeSlot`, in any order; `CallFails` |
| hold sweep, TTL of the slot, death of the process | `Sweep`, `SlotExpires`, `Crash` |

### BudgetGuard

| code | model |
|---|---|
| `check`: read the spend, then the script | `FetchSpent`, `CheckAndReserve` |
| `_CHECK_AND_HOLD_LUA` | `Script`: evict, compare, reserve |
| swallowed errors (fail open) | `FetchSpentFails`, `FetchBudgetFails`, `ReserveFails` |
| the recorder's counter | `Count`, `CountFails` |
| passing of time, expiry of the keys | `TtlPasses`, `KeysExpire` |

### BatchWindow

`window[t]` is the list of a tenant's items, `marker[i]` the result marker a caller
polls, `pc[i]` where that caller is, `flusher[p]` where the flusher of a process is,
with the `group` it has claimed. A caller that sees no claim in time abandons its item
by a script that succeeds only if nobody has claimed it; if it lost, or does not know,
it waits once more and then answers anyway.

| code | model |
|---|---|
| `_APPEND_LUA`, `_CLAIM_DUE_LUA`, `_TRY_ABANDON_LUA` | `AppendScript`, `Due`/`Claimable`/`ClaimScript`, `TryAbandonScript` |
| `try_divert`, `_lifecycle`, `wait_for_result` | `NotDiverted`, `Divert`, `DivertFails`, `SeeClaimed`, `SeeOutcome`, `ShortDeadline`, `LongDeadline`, `TryAbandon`, `TryAbandonFails`, `Ceiling`, `Disconnect` |
| `flush_once` | `ListTenants`, `ClaimDue`, `ClaimNothing`, `ClaimFails` |
| `_flush_group` | `CreateJob`, `CreateJobFails`, `Dispatch`, `DispatchFails`, `PublishResult`, `PublishFails` |
| time, expiry, restart | `WindowElapses`, `MarkerExpires`, `ProcessDies` |

### BatchJobs

A runner is the worker of a process or the inline task of a job; `stage[r]` is where
it is in `_drive` and `_process_batch_job`. Jobs dropped by an error that the code
swallows, or answers to the submitter only, are put into `lost`, so that `NeverForgotten` says exactly when that
happens and recovery takes them out again.

| code | model |
|---|---|
| `create_batch_job`, `dispatch_batch_job` | `Submit`, `SubmitUnacknowledged` (the commit took effect and raised), `Enqueue`, `EnqueueFails`, `Inline` |
| `BatchJobWorker.run_forever`, `_drive` | `Claim`, `Load`, `Count`, and the failing form of each |
| `_process_batch_job` | `Start`, `Return`, `Unprocessed`, `Fail`, and failing forms |
| the `BatchProcessor` (external) | `Complete` |
| guarded updates of `BatchJobRepository` | `CreateRow`, `SetInProgress`, `SetFailed`, `IncrementRetry`, `Orphans` |
| shutdown, crash, start with `recover_orphans` | `Crash`, `Restart`, `Recover`, `RecoverFails`, `Serve` |

### VectorIngest

A driver is a worker or the request that attaches a file. `locked[t]` is the
`FOR UPDATE` lock on the tenant's row that the write takes and the policy's PUT waits for.

| code | model |
|---|---|
| attach endpoint, `_enqueue_or_fallback` | `Attach`, `AttachUnacknowledged` (the commit took effect and raised), `Enqueue`, `EnqueueFails` (drive inline) |
| `VectorStoreIngestWorker.drive` | `Claim`, `Load`, `Gate`, `Read`, `Embed`, `LockTenant`, `Finalize`, `Fail`, `Record`, `RecordFails`, `DriveFails` |
| `finalize_completed`, `set_failed` | `FinalizeCompleted` (compare-and-set), `SetFailed` |
| PUT of the retention policy, DELETE of a store, ZDR pass of the retention sweep | `PutZdr`, `DeleteStore`, `Sweep` |
| shutdown, crash, start with `recover_orphans` | `Crash`, `Restart`, `RestartFails` |

## 3. What is checked

All runs are exhaustive over the stated instance. A run marked (finding) is
expected to violate its property, see section 5.

| run | instance | shows |
|---|---|---|
| `ledger_holds` | 1 tenant, 2 requests, 2 sessions and a sweep, 1 fault | holds are finalised once (`FinalizedOnce`) and eventually (`HoldsEventuallyFinalized`); only a settle above its hold overdraws (`OverdraftOnlyByOverrun`); the transactions implement the atomic account (`AccountRefined`) |
| `ledger_topups` | 2 tenants, 1 key, 1 request, 2 sessions, 2 amounts, 1 fault | a key credits once over all tenants (`KeyAppliedOnce`) and callers are answered truthfully (`AnswersHonest`); the cached balance is the ledger's sum (`BalanceIsLedgerSum`); no transaction waits for ever for a row's lock or the key's index entry (`TransactionsEnd`) |
| `pipeline_billing` | 2 charges, 2 flushers, 2 faults, batches of 1 | no charge is lost (`NothingLost`) or billed twice (`BilledOnce`), every durable one reaches the ledger (`EveryChargeBilled`); `ChargesRefined` |
| `pipeline_recovery` | 1 aborted stream, 2 recoverers, 3 recoveries, 2 faults, 2 counters | the corrected total is the authoritative cost (`RecoveredTotal`), no counter takes a charge twice (`CountedOnce`), `PInv` holds |
| `tier_slots` | 3 requests, 2 processes, 3 settings for 2 slots (one in each floor at the start; both shared; off), 1 change, 1 fault | priority is earned (`PriorityEarned`); requests admitted under the same settings stay within its cluster cap (`ClusterCapKept`); a slot is kept until its TTL (`SlotsKept`) and reclaimed when nobody releases it (`SlotsReclaimed`); `TInv` adds that no pool exceeds settings that were put (`PoolWithinCap`), that a request has one slot (`OneSlot`), and that it is remembered truthfully (`HeldIsSlot`) |
| `admission` | 2 tenants, a request with up to 2 records, one whose credits are short, costs 0, 1 and 3 against an estimate of 2, 1 fault | a refusal gives back what was taken (`RefusedGivesBack`); credits stay within the bill (`NeverOvercharged`) and equal it for one record (`OneRecordExact`); the records give back hold and slot by themselves, in whatever order they end (`RecordsResolve`) |
| `budget_guard` | 3 requests, a budget of one and a half estimates, costs below and above it, 2 faults | the spend and the running requests overshoot the budget by less than an estimate unless a call failed or a reservation went too early (`BudgetKept`); reservations end (`HoldsExpire`) |
| `batch_window` | 2 processes with a flusher each, 2 callers of 1 tenant, 2 faults | the scripts implement `DivertedWork` (`DiversionRefined`); double processing needs a fault (`TwiceOnlyByFault`); callers are answered (`CallersAnswered`), windows drained (`WindowsDrained`); `WInv` adds that an abandoned item is never batched (`NeverBoth`), one job per item (`OneJob`), a job behind every "submitted" (`SubmittedIsPollable`), none dispatched behind a "failed" |
| `batch_jobs` | 1 process with the durable queue, 1 without, 2 jobs, a retry cap of 1, 3 faults | rows, queue, runners and recovery implement `DurableWork` (`WorkRefined`); jobs end (`JobsEnd`); `JInv` adds that an ended job has nothing pending (`TerminalLeavesNoPending`) and none is forgotten (`NeverForgotten`) |
| `vector_ingest` | 2 rows of 1 store, a worker and an attaching task on 2 processes, 3 attach calls, 1 flip of the policy, 2 faults | one bill per row (`BilledOnce`); nothing is written under ZDR (`ZdrNeverWrites`); the rows implement `DurableWork` (`WorkRefined`) and each ends (`RowsEnd`); `VInv` adds that chunks follow the status (`ChunksMatchStatus`), bytes add up (`UsageIsSum`) and no row is stranded (`NeverStranded`) |
| `vector_purge`, `budget_undercount` | the instances above, without faults | (finding) |

`PInv`, `TInv`, `WInv`, `JInv` and `VInv` are the inductive invariants of section 4,
type invariant included. Some properties are proved and not part of a run of their own:
the types of the ledger, of admission and of the budget with their inductive invariants
(`IInv`, `ExactPart`, `AInv`, `BInv`), `AmountsSound`, `WaitsEnd`, `OwnCaps`,
`ServedInSlot`, `ReservationsBounded`, `TerminalIsFinal` and `CompletedIsFinal`. TLC
agreed with each before it was proved.

**Bounds and why they are enough.** The properties compare at most two rows, two
charges, two callers or two drivers at a time, and the races behind them need two or
three processes on one row, window or entry, and one or two faults (an unacknowledged
call, then a retry); a job meets its retry cap after a crash, a recovery and one more.
`MaxFaults`, `MaxRecoveries`, `MaxPuts`, `MaxRecords`, `MaxAttaches`, `MaxFlips`,
`BatchSize` and `BatchCount` (the last two shrink the code's LIMIT and COUNT so that a
batch can be full) are the only bounds; amounts are chosen around the grace so that one
hold fits and two do not, and costs below and above the hold. Three requests suffice for
the budget: one is admitted, two race behind it. The tier pools start as two
floors of one slot, so that two requests fill a cluster of two and a standard one is
refused or a priority one overflows; the one change (`MaxPuts`) makes both slots shared,
or none, in one of the processes, whose requests then meet those admitted under the boot
settings, and a member past its TTL stands beside one that is not. The exception in
`ClusterCapKept`, two floors rounded up (half of 3 is 2, twice), needs four requests and
is beyond this instance; the theorem `WithinCluster` has it. `TransactionsEnd` is checked
with the top-ups, where a transaction can wait for a row's lock or for the index entry of
a key while holding another row's lock. The proofs of
section 4 hold for every value of these constants. Flushers and recoverers are
interchangeable, hence the symmetry set of `pipeline_recovery`, which checks no liveness;
no other run uses one.

**Deadlock** is checked in `ledger_topups` and the two pipeline runs. Elsewhere a
complete history may stop: each request, item, job or attach call of the instance
happens once (`tier_slots`, `admission`, `budget_guard`, `batch_*`, `vector_*`), and
without top-ups nothing is left to do once every hold is finalised (`ledger_holds`).

**Fairness.** Ledger: waiters of a PostgreSQL row lock are queued, so a transaction
that is again and again able to take the lock does (strong fairness of
`LockBalanceRow`); statements and commits that can proceed do (weak fairness); time
passes for open holds; the sweep loop, on by default every 60 s with a hold timeout
of 600 s, keeps cycling. Nothing makes a caller settle. Pipeline: `run_forever`
never ends, so a flusher that can take its next step does, and one whose process
died starts again; delivered entries grow old; record tasks are scheduled. Nothing
is assumed of recoveries. Tiers and budget: time passes and Redis expires keys; no
request need ever be released or end, and no later admission need come to prune.
Admission: the event loop runs the record tasks and those their callbacks start; the
sweep and the TTL are not counted on, and no request need go on or end. Batch window:
the deadlines of a waiting caller are timers of its event loop, windows grow old, and
`run_forever` of the flusher never ends. Jobs and ingestion: runners go on, a processor
returns or times out (`batch_job_timeout_seconds`), workers claim, and a process that
went down is started again by its supervisor; nothing makes a user attach, delete or
change a policy.

## 4. What is proved

TLAPS checks every proof from nothing. The theorems hold for every set of tenants,
requests, keys, sessions, sweepers, events, flushers, recoverers, counters,
processes, tier settings, items, jobs, stores and rows, for every amount in the
naturals and any number of faults, under the named assumptions of the modules alone
(`CreditAssumption`, `PipelineAssumption`, `TierAssumption`, `AdmissionAssumption`,
`BudgetAssumption`, `WindowAssumption`, `JobsAssumption`, `IngestAssumption`).

**CreditLedgerProofs.** `Typed`, `CacheIsSum` (`BalanceIsLedgerSum`),
`OneFinalization` (`FinalizedOnce`), `OneCreditPerKey` (`KeyAppliedOnce`)
and `NoOverdraftByAdmission` (`OverdraftOnlyByOverrun`) all follow from `Inductive`:
`Spec => []IInv`. The safety properties are not inductive by themselves, because what matters happens while a
row is staged and invisible. `IInv` adds:

- `LockDiscipline`: past the lock, a session owns its tenant's row and the balance
  it read is still the committed one. Hence the staged snapshot is right.
- `AdmittedOnce`: one call admits a request, and the request has no hold before
  that call commits. Hence one hold per request.
- `StagedSound`: what a staged row will still satisfy when it commits: a
  finalisation's hold is open, a top-up's key is in no committed row and staged by
  nobody else, a hold leaves the balance at or above the grace. The lock keeps the
  first and third stable while other sessions commit, the unique index the second.
- `CallsOwned`, `RowsOwned`, `SignSound`: calls and rows belong to their request's
  tenant, and holds subtract while releases and top-ups add.

Most actions leave the ledger alone and fall under frame lemmas; `Commit` and
`CommitUnacknowledged` share `Apply`, where the argument is.

A second invariant on top of the first, `ExactPart`, is about amounts, locks and
answers. `CallsOffered` and `StagedExact` say that a call's amount is one the program
may ask for and that the row it stages bears that amount; hence `AmountsExact`
(`AmountsSound`) and, since rows are never removed, `AnswersTrue` (`AnswersHonest`).
`LocksOwned` says that a row lock belongs to a transaction past it that has yet to end;
hence `NoWaitCycle` (`WaitsEnd`): waits for locks and for the insert of one key are at
most two deep and end at a transaction that waits for nobody, the safety half of
`TransactionsEnd`.

`LedgerRefines` proves `Spec => AccountRefined`. Only a commit changes what the mapping
reads (`ViewsRest`), and it adds one row, so there is a lemma per kind of row
(`HoldRefines`, `SettleRefines`, `ReleaseRefines`, `TopupRefines`). The mapping takes a
request's rows with CHOOSE; `FinalizedOnce` and `KeyAppliedOnce` make the choice unique
(`OneRowOf`), and `StagedSound` and `StagedExact` give each operation's guard and amount.

**UsagePipelineProofs.** `Typed`, `NoDoubleBilling` (`BilledOnce`), `AtLeastOnce`
(`NothingLost`), `CorrectionsExact` (`RecoveredTotal`) and `NoDoubleCounting`
(`CountedOnce`) follow from `PipelineInvariant`: `Spec => []PInv`; and
`PipelineRefines` proves `Spec => ChargesRefined`, the implementation of
`UsageCharges`. The strengthenings:

- `RowsKeyed`: a flushed row is keyed by the id its event carries, not by the
  stream's id; so a redelivery, a second flusher and a fallback collide.
- `AckAfterInsert`: an entry about to be acknowledged is in the ledger; so leaving
  the pending list loses nothing.
- `PricedRight`: every entry and row of a charge bears one price, a correction's
  being the target minus what was recorded, and a recovery beyond its first look has
  found the anchor row; so duplicate recoveries compute the same delta and whichever
  lands first is right.
- `CountsInOrder`, `CorrectionsInOrder`: a counter not yet reached is untouched; one
  caller counts a correction, the one that set its marker.

**TierCapacityProofs.** `Capped` (`PoolWithinCap`), `SingleSlot` (`OneSlot`),
`HoldsAreSlots` (`HeldIsSlot`), `PriorityNeverUnearned` (`PriorityEarned`) and the
action property `SlotsNeverTaken` (`SlotsKept`) follow from `TierInvariant`:
`Spec => []TInv`. The strengthenings are `SlotAfterAdmission` (a request not yet
admitted is in no pool, so the script that adds it gives it its only slot and adds
one to the count) and `ReleaseKnowsPool` (the hold leaves `_holds` before the
ZREM, so no remembered hold is being released). The argument needs two facts about
steps: only the script adds to a pool (`PoolChange`), and what leaves a pool is past
its TTL or released by its own request (`Losses`). That a pool stays within the caps
whatever settings the processes have rests on the script alone: it never adds to a
pool at or above the cap it is given, and removing keeps what held before.

That bound is of one pool and does not say against whose settings. `CountedTogether`
(`OwnCaps`) is the strengthening that adds up: of any members of a pool, however chosen,
one was admitted against settings whose cap is no less than their number, because the
last of them to come was counted with the others. For requests of the same settings it
bounds each pool by its own cap, and `FloorsBound`, a fact about rounding to even, bounds
the sum of the caps: hence `WithinCluster` (`ClusterCapKept`).

**AdmissionProofs.** `RefusalGivesBack` (`RefusedGivesBack`), `CreditsWithinBill`
(`NeverOvercharged`), `SlotWhileServed` (`ServedInSlot`) and `ChargedAsBilled`
(`OneRecordExact`) follow from `AdmissionInvariant`: `Spec => []AInv`. `SettlesBilled`
is what keeps the credits within the bill: a settle is started by a record that has
added its cost. `OneRecord` follows the only record of a request through its task, its
outcome and its settle, as long as nothing has hit the request; `HoldsByStage` says
which stages have a hold that is still open.

**BudgetGuardProofs.** `RaceClosed` (`ReservationsBounded`) and `KeptWithinBudget`
(`BudgetKept`) follow from `BudgetInvariant`: `Spec => []BInv`. The script compares
what its caller has read earlier, so the induction needs `Covered`: what a waiting
check has not read is an estimate per request counted since, and each of those still
has a live reservation, as does every running request; and `SumIsHolds`: the companion
sum is an estimate per member, so that the comparison sees them all.

**BatchWindowProofs.** `AbandonedNeverBatched` (`NeverBoth`), `InOneJob` (`OneJob`),
`Pollable` (`SubmittedIsPollable`), `FailedStaysUndispatched` (`FailedNotDispatched`)
and `OnceWithoutFault` (`TwiceOnlyByFault`) follow from `WindowInvariant`:
`Spec => []WInv`. `Fresh` says that an item in its window is nowhere else, `Carrying`
that flushers have disjoint groups and how far each item of a group is, `Marked` that a
taken item keeps a marker while its caller waits, so that no abandonment can succeed, and
`Awaited` the converse: an item without a marker whose caller waits is still in its window.
`DiversionRefines` proves `Spec => DiversionRefined`. Every step of a flusher moves its
whole group from one owner to the next (`GroupPasses`) or moves nothing; a claim moves
the unmarked items of a window (`ClaimDueRefines`, and `ClaimLostRefines` when its answer
is lost); an abandonment moves one item, which by `Awaited` was in its window
(`AbandonMoves`); and an outcome is told only when `Marked` says the item is where that
outcome puts it (`OutcomeRefines`).

**BatchJobsProofs.** `NoPendingLeft` (`TerminalLeavesNoPending`), `NotForgotten`
(`NeverForgotten`) and the action property `FirstEndIsFinal` (`TerminalIsFinal`) follow
from `JobsInvariant`: `Spec => []JInv`, whose `RunnersHold` ties a runner's stage to the
job it drives: whoever lets go of a job that has not ended puts it back or into `lost`. `JobsRefine`
proves `Spec => WorkRefined`. Most steps show through the mapping as a hand-over at most,
which needs no more than `NeverForgotten` after the step (`HandOverRefines`); an end is by
a guarded update on an open row, of a runner that has the job (`FinishRefines`), and ends
the items with it.

**VectorIngestProofs.** `NeverHalfIndexed` (`ChunksMatchStatus`), `BilledAtMostOnce`
(`BilledOnce`), `UsageAddsUp` (`UsageIsSum`), `NotStranded` (`NeverStranded`) and the
action properties `NoWriteUnderZdr` (`ZdrNeverWrites`) and `CompletedStays`
(`CompletedIsFinal`) follow from `IngestInvariant`: `Spec => []VInv`. `DriversHold` says
that a driver about to write has its tenant's lock and that the flag was off under it;
`BillsLeft` that one drive is left to bill a row, the one whose compare-and-set won.
`IngestRefines` proves `Spec => WorkRefined` along the same lines as `JobsRefine`, with
`NeverStranded` for the hand-overs; a row that failed may be offered again, and the rows
of a deleted store are withdrawn together.

**Only model-checked.** Liveness (`HoldsEventuallyFinalized`, `TransactionsEnd`,
`EveryChargeBilled`, `SlotsReclaimed`, `RecordsResolve`, `HoldsExpire`, `CallersAnswered`,
`WindowsDrained`, `JobsEnd`, `RowsEnd`), which needs ENABLED and is beyond the prover, and
the two disagreements of section 5, which are counterexamples. Every other property of a
run is a theorem.

## 5. Where code and documents disagree

| run | property | the text | the code |
|---|---|---|---|
| `vector_purge` | `ZdrChunksPurged` | `G/tenants/application/retention_policy.py:120-123`: a flip after the write is harmless, "the rows are written, then removed by the RetentionSweeper's ZDR purge pass" | the ZDR pass (`G/usage/application/retention_sweep.py:992-1102`) deletes the files, and no vector store, row or chunk: the text of the file stays in `vector_store_chunks` |
| `budget_undercount` | `NeverUndercounts` | `G/budgets/infrastructure/redis_guard.py:44-45`: reservations "can never UNDER-count (never lets spend silently exceed budget)" | a reservation past its TTL is dropped although its request still runs, and later checks admit as if it cost nothing |

Smaller ones were met while modelling and have no run of their own:

- `src/FEATURES.md:120` calls the credit gate fail-closed; `check_and_hold` swallows
  database errors and admits without a hold (`G/credits/infrastructure/postgres_guard.py:98`).
- `G/usage/application/recorder.py:805` has a correction's counters moved "exactly-once
  even across replicas"; a failure between the marker and the increments leaves them
  unmoved for good: at most once (`MarkUnanswered`, `CountCorrectionUnanswered`).
- `G/proxy/domain/tier_capacity.py:46` refuses only when "every applicable pool is
  genuinely full"; pools are tried one after another, and one that comes free behind the
  request is not looked at again (`Full`).
- `G/core/config.py:718` "guarantees standard is never starved by a priority surge";
  priority requests overflow into the standard floor (`PoolsToTry`).
- `G/proxy/infrastructure/batch_diversion.py:51` has a failed append "leave nothing
  buffered"; one whose answer was lost has buffered the item (`DivertFails`).
- `G/vector_stores/api/router.py:451` calls a duplicate drive a no-op; it embeds the file
  again, and a row that failed and was attached again in between can be finalised by the
  older drive.
- `G/batches/infrastructure/repository.py:229` calls a count of 0 harmless; a job that ended
  between the worker's load and its count is then handed to the processor again (`Count`).
- `G/credits/infrastructure/ledger_store.py:199-201` calls two tenants racing with one key a
  residual gap; the unique index (`G/credits/infrastructure/orm.py:78-85`) is over the key
  alone, and the loser answers from the winner's row (`InsertConflict`, `KeyAppliedOnce`).
- `G/credits/domain/ports.py:46` has a settle post `actual_cost_usd -
  hold_estimate_usd`; the code posts the opposite, which is what keeps the balance
  right (`StageFinalization`).
- `G/usage/application/recorder.py:672` calls the spend counters reconstructable by
  the reconciliation job; the job only reports drift (`CountFails`).
- `G/proxy/infrastructure/tier_capacity_guard.py:121` bounds `_holds` by the requests
  in flight; a request refused after its admission, for instance by
  `_check_input_modalities`, leaves its entry (`NeverReleased`).
- `G/core/config.py:708` has the pools carve up the cluster cap; the floors are
  rounded separately and can add up to one more (`Rounded`). `ClusterCapKept` says when,
  and that it is never more than one.

## 6. Abstractions and what is left out

- **Money** is integers; decimals and rounding are not modelled. The floats of the
  spend counters are replaced by how often each charge was added to each.
- **Time** appears as events: a hold passes the timeout (`HoldAges`), an entry the
  minimum idle time (`Idles`), a poll ends (`GiveUp`). The thirty days of a
  correction marker exceed the sweep's window of one day, so its expiry is left out.
- **Missing balance rows** are created with balance 0 by the locking statement, so
  balance 0 stands for them; the grace then is the configured one.
- **A request's price** is a constant, and so is the authoritative cost of a
  generation: a rate card that changes between two recoveries is left out.
- **Malformed events**, which the flusher acknowledges and drops, are not written by
  the recorder and are not modelled.
- **A failed XADD has landed, or has not, by the time its caller sees the error.**
- Two counters stand for the list a request moves: what can differ is how far the
  list was walked.
- **Clocks** of the gateway processes agree well enough that a member is past the TTL
  for all of them or for none; a key outlives its youngest member by one TTL, as the
  code sets it. A request that outlives its TTL runs on without a slot, which the
  configuration documents as soft over-admission.
- **Tier percentages** are hundredths, rounded as Python rounds (ties to even); the
  code multiplies floats, whose error at exact ties is left out.
- **Request ids are unique**, and each is admitted once. A second `release` finds
  nothing in `_holds` and changes nothing.
- **Admission.** What precedes the first hold (expiry, allowlists, catalog, budgets)
  reserves nothing in this module; `BudgetGuard` has the budget's own reservation, which
  nobody gives back. Routing and streaming lie between `RatesPass` and the records. A
  check that refuses after governance is `Finish` without a record: it gives nothing back
  until the sweep and the TTL. Corrections never reach the credits. A crash stops all
  requests, as in one process.
- **Credits against usage.** Records of one request share its hold: the first settles it
  and the others are billed in the usage ledger only, so `OneRecordExact` is about one
  record, and `NeverOvercharged` about any number. The first record also frees the slot,
  hence the exception in `ServedInSlot`.
- **Budget.** A key with a hard budget of its own bypasses the tenant's guard
  (`G/proxy/application/use_cases.py:2053-2060`): its requests reserve
  nothing and can take the tenant's spend past its budget. The model, and `BudgetKept`,
  are about the requests that are checked. One tenant and one month; the clocks of processes agree about the TTL. A
  request without a budget is admitted unread. Failing open is what the docstring accepts.
- **Batch window.** The deployed program wires no batch processor (`G/main.py:1156`), so
  every request takes `NotDiverted` until one is; the rest is modelled as it is written.
  An abandoned marker (4 h) outlives its window, as its comment assumes. `Missed` counts a
  flush slower than the ceiling among the faults. A job whose commit was not acknowledged
  is not dispatched, though orphan recovery may drive it later (`BatchJobs`).
- **Batch jobs.** Ends of a job are `completed` by the external processor or `failed`; items
  are pending or not. Inline jobs of a process without the durable queue die with it, and
  restarts use up retries; both are in the model. The video worker is a structural copy.
- **Ingestion.** One chunk and one unit of bytes stand for those of a file; attach is one
  step, and so is the loop of `recover_orphans`. The ingestion worker is on, as by default.
  A crash between the commit and the usage record leaves a completed row unbilled, which
  `BilledOnce` allows. Not modelled: a PUT that writes back columns it read before another
  PUT, and the deadlocks PostgreSQL would resolve between a store's deletion and a
  finalisation.
- **Redis** keeps what it acknowledged: a failover that loses writes is left out.
- Logging, metrics and price computation are left out.

**Not modelled**, by component and with the reason, is listed in `PROJECT.json`. Of the
parts that keep state under concurrency these remain: the rate-limit scripts, circuit
breaker and fallback router, checkout webhooks, device codes and refresh tokens, domain
claims, invoices and seats, alert delivery. Most of the repository is request-response
code over single rows, conversions between provider formats, settings, migrations and the
dashboard, about which a state machine says little.

## 7. Plan

Done in the order of the system's core: `CreditLedger` over `CreditAccount`,
`UsagePipeline` over `UsageCharges`, `TierCapacity`, then `Admission` composed with
`CreditAccount`, `BudgetGuard`, `BatchWindow`, `BatchJobs` and `VectorIngest`, each with
its proofs; then the abstract specifications that the workers and the diversion implement,
and the proofs of the refinements. What would come next:

1. `RateLimiter`: window and bucket scripts as operators against a reference count.
2. `CircuitBreaker` and `FallbackRouter`, over an abstract pool with a cap.
3. `DeviceFlow` and `Checkout` over an abstract single-use token; `DomainClaim`.
4. Seat proration and invoices as pure operators against a reference.
5. An abstract slot, taken and ended once, that `TierCapacity` implements and `Admission`
   uses in place of its value `slot`, as it uses `CreditAccount`.
6. `BatchWindow` and `BatchJobs` composed: a shelved job that orphan recovery picks up.
