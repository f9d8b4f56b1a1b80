----------------------------- MODULE VectorIngest -----------------------------
(***************************************************************************)
(* Ingestion of files into vector stores: the attach endpoint, the Redis   *)
(* queue, the drives of VectorStoreIngestWorker, the rows, chunks and      *)
(* usage bytes in Postgres, and the tenant's zero-data-retention (ZDR)     *)
(* flag, which a PUT flips while files are being ingested.                 *)
(*                                                                         *)
(* A driver is a worker, which claims from the queue, or a task: the       *)
(* request that attaches a file, which drives it inline when it cannot     *)
(* enqueue it.  A row is one file attached to one store.                   *)
(***************************************************************************)
EXTENDS Integers, FiniteSets

CONSTANTS
    Tenants, Stores, Rows,
    Processes, Drivers,
    Workers,        \* drivers that claim from the queue
    Host,           \* process of each driver
    StoreOf, TenantOf,
    MaxAttaches,    \* bound on attach calls
    MaxFlips,       \* bound on PUTs of the retention policy
    MaxFaults,      \* bound on failed calls and crashes
    None

Statuses == {"in_progress", "completed", "failed"}

ASSUME IngestAssumption ==
    /\ Workers \subseteq Drivers /\ Host \in [Drivers -> Processes]
    /\ StoreOf \in [Rows -> Stores] /\ TenantOf \in [Stores -> Tenants]
    /\ IsFiniteSet(Rows)
    /\ MaxAttaches \in Nat /\ MaxFlips \in Nat /\ MaxFaults \in Nat
    /\ None \notin Statuses \cup Rows \cup Drivers

VARIABLES
    zdr,            \* tenants.zdr_enabled
    locked,         \* driver that holds the row lock of each tenant, or None
    stores,         \* vector_stores rows that were not deleted
    files,          \* attached files whose source is still there
    status,         \* vector_store_files rows
    chunks,         \* how often the chunks of each row are stored
    usage,          \* usage_bytes of each store, in files
    billed,         \* usage records of each row
    queue,          \* entries of each row in vector_store:ingest:pending
    stage, row,     \* what each driver does, and to which row
    up,             \* processes that run
    lost,           \* rows an error has left to nobody
    attaches, flips, faults

storeVars == <<stores, status, chunks, usage>>
driverVars == <<stage, row>>
bounds == <<attaches, flips, faults>>
vars == <<zdr, locked, stores, files, status, chunks, usage, billed, queue, stage, row, up,
          lost, attaches, flips, faults>>

Stages == {"idle", "attached", "claimed", "gate", "reading", "embedding", "embedded",
           "finalizing", "recording", "failing"}

Tasks == Drivers \ Workers
Owner(r) == TenantOf[StoreOf[r]]
RowsOf(s) == {r \in Rows : StoreOf[r] = s}
Completed(s) == {r \in RowsOf(s) : status[r] = "completed"}

Fails == faults < MaxFaults /\ faults' = faults + 1 /\ UNCHANGED <<attaches, flips>>

Takes(d, s, r) == stage' = [stage EXCEPT ![d] = s] /\ row' = [row EXCEPT ![d] = r]
Goes(d, s) == stage' = [stage EXCEPT ![d] = s] /\ UNCHANGED row
Leaves(d) == Takes(d, "idle", None)
Idle(d) == stage[d] = "idle" /\ Host[d] \in up

Push(r) == queue' = [queue EXCEPT ![r] = @ + 1]
Pop(r) == queue[r] > 0 /\ queue' = [queue EXCEPT ![r] = @ - 1]

OrNot(A, v) == A \/ UNCHANGED v

-----------------------------------------------------------------------------
(* The updates of VectorStoreFileRepository.                               *)

\* Fault for sensitivity: the update has no guard on the status.
SetFailedUnguarded(r) ==
    /\ status' = [status EXCEPT ![r] = IF @ = None THEN @ ELSE "failed"]
    /\ UNCHANGED <<stores, chunks, usage>>

SetFailed(r) ==
    /\ status' = [status EXCEPT ![r] = IF @ = "in_progress" THEN "failed" ELSE @]
    /\ UNCHANGED <<stores, chunks, usage>>

\* The compare-and-set of finalize_completed: a racer has not finalized the row.
Finalizable(r) == status[r] = "in_progress"

\* Replace the chunks, flip the status and add the bytes, or roll all of it back.
FinalizeCompleted(r) ==
    /\ chunks' = [chunks EXCEPT ![r] = IF Finalizable(r) THEN 1 ELSE @]
    /\ status' = [status EXCEPT ![r] = IF Finalizable(r) THEN "completed" ELSE @]
    /\ usage' = [usage EXCEPT ![StoreOf[r]] = IF Finalizable(r) THEN @ + 1 ELSE @]
    /\ UNCHANGED stores

-----------------------------------------------------------------------------
Init ==
    /\ zdr = [t \in Tenants |-> FALSE] /\ locked = [t \in Tenants |-> None]
    /\ stores = Stores /\ files = Rows
    /\ status = [r \in Rows |-> None] /\ chunks = [r \in Rows |-> 0]
    /\ usage = [s \in Stores |-> 0] /\ billed = [r \in Rows |-> 0]
    /\ queue = [r \in Rows |-> 0]
    /\ stage = [d \in Drivers |-> "idle"] /\ row = [d \in Drivers |-> None]
    /\ up = Processes /\ lost = {}
    /\ attaches = 0 /\ flips = 0 /\ faults = 0

-----------------------------------------------------------------------------
(* The attach, retention-policy and delete endpoints, and the sweep.       *)

\* Create the row, or retry it if it failed; one in progress is enqueued again.
Attach(d, r) ==
    /\ d \in Tasks /\ Idle(d)
    /\ attaches < MaxAttaches /\ attaches' = attaches + 1
    /\ StoreOf[r] \in stores /\ r \in files /\ ~zdr[Owner(r)]
    /\ status[r] # "completed"
    /\ status' = [status EXCEPT ![r] = "in_progress"]
    /\ Takes(d, "attached", r)
    /\ UNCHANGED <<zdr, locked, stores, files, chunks, usage, billed, queue, up, lost, flips, faults>>

\* The commit took effect and raised: the request ends in an error, and the row it made
\* or retried is not enqueued.
AttachUnacknowledged(d, r) ==
    /\ d \in Tasks /\ Idle(d)
    /\ Fails
    /\ StoreOf[r] \in stores /\ r \in files /\ ~zdr[Owner(r)]
    /\ status[r] \in {None, "failed"}
    /\ status' = [status EXCEPT ![r] = "in_progress"]
    /\ lost' = lost \cup {r}
    /\ UNCHANGED <<zdr, locked, stores, files, chunks, usage, billed, queue, driverVars, up>>

Enqueue(d) ==
    /\ stage[d] = "attached"
    /\ Push(row[d])
    /\ Leaves(d)
    /\ UNCHANGED <<zdr, locked, storeVars, files, billed, up, lost, bounds>>

\* The push raised or timed out: drive the row in this process.
EnqueueFails(d) ==
    /\ stage[d] = "attached"
    /\ Fails
    /\ OrNot(Push(row[d]), queue)
    /\ Goes(d, "claimed")
    /\ UNCHANGED <<zdr, locked, storeVars, files, billed, up, lost>>

\* The UPDATE of the tenant's row waits for the transaction that locked it.
PutZdr(t) ==
    /\ flips < MaxFlips /\ flips' = flips + 1
    /\ locked[t] = None
    /\ zdr' = [zdr EXCEPT ![t] = ~@]
    /\ UNCHANGED <<locked, storeVars, files, billed, queue, driverVars, up, lost, attaches, faults>>

\* Foreign keys cascade to the rows and the chunks.
DeleteStore(s) ==
    /\ s \in stores
    /\ stores' = stores \ {s}
    /\ status' = [r \in Rows |-> IF StoreOf[r] = s THEN None ELSE status[r]]
    /\ chunks' = [r \in Rows |-> IF StoreOf[r] = s THEN 0 ELSE chunks[r]]
    /\ usage' = [usage EXCEPT ![s] = 0]
    /\ UNCHANGED <<zdr, locked, files, billed, queue, driverVars, up, lost, bounds>>

\* The ZDR pass of the retention sweep: of what ingestion uses, it deletes the files.
Sweep(t) ==
    /\ zdr[t] /\ \E r \in files : Owner(r) = t
    /\ files' = {r \in files : Owner(r) # t}
    /\ UNCHANGED <<zdr, locked, storeVars, billed, queue, driverVars, up, lost, bounds>>

-----------------------------------------------------------------------------
(* drive, by a worker or a task.                                           *)

Claim(d, r) ==
    /\ d \in Workers /\ Idle(d)
    /\ Pop(r)
    /\ Takes(d, "claimed", r)
    /\ UNCHANGED <<zdr, locked, storeVars, files, billed, up, lost, bounds>>

Drives == UNCHANGED <<zdr, storeVars, files, billed, queue, up, lost, bounds>>

\* A row that is terminal, or was deleted, is skipped.
Load(d) ==
    /\ stage[d] = "claimed"
    /\ IF status[row[d]] = "in_progress" THEN Goes(d, "gate") ELSE Leaves(d)
    /\ Drives /\ UNCHANGED locked

\* raise_if_zdr at the entry.
Gate(d) ==
    /\ stage[d] = "gate"
    /\ Goes(d, IF zdr[Owner(row[d])] THEN "failing" ELSE "reading")
    /\ Drives /\ UNCHANGED locked

\* A missing, unreadable, empty or too large file fails the row; a deleted store ends
\* the drive.
Read(d) ==
    /\ stage[d] = "reading"
    /\ \/ Goes(d, "failing")
       \/ row[d] \in files /\ StoreOf[row[d]] \in stores /\ Goes(d, "embedding")
       \/ StoreOf[row[d]] \notin stores /\ Leaves(d)
    /\ Drives /\ UNCHANGED locked

\* The embedder answers, or is unavailable or not configured.
Embed(d) ==
    /\ stage[d] = "embedding"
    /\ Goes(d, "embedded") \/ Goes(d, "failing")
    /\ Drives /\ UNCHANGED locked

\* Fault for sensitivity: the second check is a plain read.
LockTenantPlain(d) ==
    /\ stage[d] = "embedded"
    /\ Goes(d, IF zdr[Owner(row[d])] THEN "failing" ELSE "finalizing")
    /\ Drives /\ UNCHANGED locked

\* raise_if_zdr_locked: the lock is kept when the write goes on, and else rolled back.
LockTenant(d) ==
    /\ stage[d] = "embedded"
    /\ locked[Owner(row[d])] = None
    /\ IF zdr[Owner(row[d])]
       THEN Goes(d, "failing") /\ UNCHANGED locked
       ELSE Goes(d, "finalizing") /\ locked' = [locked EXCEPT ![Owner(row[d])] = d]
    /\ Drives

\* Fault for sensitivity: the lock outlives the transaction.
UnlocksNone(D) == UNCHANGED locked

Unlocks(D) == locked' = [t \in Tenants |-> IF locked[t] \in D THEN None ELSE locked[t]]

\* Fault for sensitivity: the drive bills whether it has won or not.
OutcomeBilled(d) == Goes(d, "recording")

Outcome(d) == IF Finalizable(row[d]) THEN Goes(d, "recording") ELSE Leaves(d)

Finalize(d) ==
    /\ stage[d] = "finalizing"
    /\ FinalizeCompleted(row[d])
    /\ Outcome(d)
    /\ Unlocks({d})
    /\ UNCHANGED <<zdr, files, billed, queue, up, lost, bounds>>

Fail(d) ==
    /\ stage[d] = "failing"
    /\ SetFailed(row[d])
    /\ Leaves(d)
    /\ UNCHANGED <<zdr, locked, files, billed, queue, up, lost, bounds>>

\* An error of recording is swallowed, whether or not the record was written.
Record(d) ==
    /\ stage[d] = "recording"
    /\ billed' = [billed EXCEPT ![row[d]] = @ + 1]
    /\ Leaves(d)
    /\ UNCHANGED <<zdr, locked, storeVars, files, queue, up, lost, bounds>>

RecordFails(d) ==
    /\ stage[d] = "recording"
    /\ Fails
    /\ OrNot(billed' = [billed EXCEPT ![row[d]] = @ + 1], billed)
    /\ Leaves(d)
    /\ UNCHANGED <<zdr, locked, storeVars, files, queue, up, lost>>

\* The error of any other step is swallowed: the row is left as it is.
DriveFails(d) ==
    /\ stage[d] \notin {"idle", "attached", "recording"}
    /\ Fails
    /\ \/ UNCHANGED storeVars
       \/ stage[d] = "failing" /\ SetFailed(row[d])
       \/ stage[d] = "finalizing" /\ FinalizeCompleted(row[d])
    /\ lost' = lost \cup {row[d]}
    /\ Leaves(d) /\ Unlocks({d})
    /\ UNCHANGED <<zdr, files, billed, queue, up>>

-----------------------------------------------------------------------------
(* Crash or shutdown of a process; its start, with recover_orphans.        *)

Crash(p) ==
    /\ p \in up
    /\ Fails
    /\ up' = up \ {p}
    /\ stage' = [d \in Drivers |-> IF Host[d] = p THEN "idle" ELSE stage[d]]
    /\ row' = [d \in Drivers |-> IF Host[d] = p THEN None ELSE row[d]]
    /\ Unlocks({d \in Drivers : Host[d] = p})
    /\ UNCHANGED <<zdr, storeVars, files, billed, queue, lost>>

Orphans == {r \in Rows : status[r] = "in_progress"}

Enqueues(S) == queue' = [r \in Rows |-> IF r \in S THEN queue[r] + 1 ELSE queue[r]]

Restart(p) ==
    /\ p \notin up
    /\ up' = up \cup {p}
    /\ Enqueues(Orphans)
    /\ lost' = lost \ Orphans
    /\ UNCHANGED <<zdr, locked, storeVars, files, billed, driverVars, bounds>>

\* An orphan that cannot be enqueued is logged and passed over.
RestartFails(p) ==
    /\ p \notin up
    /\ Fails
    /\ up' = up \cup {p}
    /\ \E S \in SUBSET Orphans : Enqueues(S) /\ lost' = (lost \ S) \cup (Orphans \ S)
    /\ UNCHANGED <<zdr, locked, storeVars, files, billed, driverVars>>

-----------------------------------------------------------------------------
Drive(d) ==
    \/ Enqueue(d) \/ EnqueueFails(d) \/ Load(d) \/ Gate(d) \/ Read(d) \/ Embed(d)
    \/ LockTenant(d) \/ Finalize(d) \/ Fail(d) \/ Record(d) \/ RecordFails(d) \/ DriveFails(d)

Next ==
    \/ \E d \in Drivers : Drive(d)
    \/ \E d \in Drivers, r \in Rows : Attach(d, r) \/ AttachUnacknowledged(d, r) \/ Claim(d, r)
    \/ \E t \in Tenants : PutZdr(t) \/ Sweep(t)
    \/ \E s \in Stores : DeleteStore(s)
    \/ \E p \in Processes : Crash(p) \/ Restart(p) \/ RestartFails(p)

Spec == Init /\ [][Next]_vars

\* Event loops run what is ready, workers claim, the sweep runs on its interval, and a
\* process that went down is started again.  Users do as they like.
FairSpec ==
    /\ Spec
    /\ \A d \in Drivers : WF_vars(Drive(d)) /\ WF_vars(\E r \in Rows : Claim(d, r))
    /\ \A t \in Tenants : WF_vars(Sweep(t))
    /\ \A p \in Processes : WF_vars(Restart(p) \/ RestartFails(p))

-----------------------------------------------------------------------------
TypeOK ==
    /\ zdr \in [Tenants -> BOOLEAN] /\ locked \in [Tenants -> Drivers \cup {None}]
    /\ stores \subseteq Stores /\ files \subseteq Rows
    /\ status \in [Rows -> Statuses \cup {None}] /\ chunks \in [Rows -> Nat]
    /\ usage \in [Stores -> Nat] /\ billed \in [Rows -> Nat]
    /\ queue \in [Rows -> Nat]
    /\ stage \in [Drivers -> Stages] /\ row \in [Drivers -> Rows \cup {None}]
    /\ up \subseteq Processes /\ lost \subseteq Rows
    /\ attaches \in Nat /\ flips \in Nat /\ faults \in Nat

\* A driver that is not idle has a row, and a driver that is about to write has the lock.
DriversHold ==
    /\ \A d \in Drivers : IF stage[d] = "idle" THEN row[d] = None ELSE row[d] \in Rows
    /\ \A d \in Drivers : stage[d] = "finalizing" =>
            locked[Owner(row[d])] = d /\ ~zdr[Owner(row[d])]
    /\ \A t \in Tenants : locked[t] # None =>
            stage[locked[t]] = "finalizing" /\ Owner(row[locked[t]]) = t

\* Completed rows have their chunks once, and other rows have none: never half indexed,
\* never twice, whichever drives race and wherever one dies.
ChunksMatchStatus == \A r \in Rows : chunks[r] = IF status[r] = "completed" THEN 1 ELSE 0

\* The drives that may still bill a row.
Recording(r) == {d \in Drivers : stage[d] = "recording" /\ row[d] = r}

\* A row is billed at most once, and only when it is completed or was deleted since.
BilledOnce ==
    \A r \in Rows :
        /\ billed[r] <= 1
        /\ billed[r] = 1 => status[r] = "completed" \/ StoreOf[r] \notin stores

\* At most one drive is left to bill a row, and none before the row is completed.
BillsLeft ==
    \A r \in Rows :
        /\ \A d, e \in Recording(r) : d = e
        /\ Recording(r) # {} => billed[r] = 0
        /\ StoreOf[r] \in stores /\ status[r] # "completed" => Recording(r) = {}
        /\ StoreOf[r] \notin stores => status[r] = None

\* A store counts the bytes of the rows that are completed in it, and of no others.
UsageIsSum == \A s \in Stores : usage[s] = Cardinality(Completed(s))

\* What may take a row up: a queue entry, a driver, or the start of a process.
Reachable(r) == queue[r] > 0 \/ (\E d \in Drivers : row[d] = r) \/ up # Processes

\* A row in progress is somewhere it will be taken up from, or among those an error
\* dropped, at the attach or later in a drive.
NeverStranded ==
    \A r \in Rows : status[r] = "in_progress" => Reachable(r) \/ r \in lost

\* The inductive invariant.
VInv ==
    /\ TypeOK /\ DriversHold /\ ChunksMatchStatus /\ BilledOnce /\ BillsLeft
    /\ UsageIsSum /\ NeverStranded

\* Chunks are written only while the tenant is not ZDR, however the PUT that makes it
\* so interleaves with the checks and the write.
ZdrNeverWrites ==
    [][\A r \in Rows : chunks'[r] > chunks[r] => ~zdr[Owner(r)] /\ ~zdr'[Owner(r)]]_vars

\* A completed row stays completed until its store is deleted.
CompletedIsFinal ==
    [][\A r \in Rows : status[r] = "completed" =>
            status'[r] = "completed" \/ StoreOf[r] \notin stores']_vars

\* How a row looks to somebody who only cares whether it is done.
StateView ==
    [r \in Rows |-> IF status[r] = "in_progress" THEN "open"
                    ELSE IF status[r] = None THEN "none" ELSE status[r]]
EffectsView == {r \in Rows : chunks[r] > 0}
CareView == {r \in Rows : status[r] = "in_progress" /\ Reachable(r)}
DroppedView == {r \in lost : status[r] = "in_progress"}

Work == INSTANCE DurableWork WITH
    Work <- Rows, Ends <- {"completed", "failed"}, Effective <- {"completed"},
    Retried <- {"failed"}, Groups <- {RowsOf(s) : s \in Stores},
    state <- StateView, effects <- EffectsView, care <- CareView, dropped <- DroppedView

\* Attaching, indexing and recovering keep what DurableWork promises: a row ends once for
\* each attempt, by a driver that has it and with its chunks if it is completed, it is
\* offered again only after a failure, and it is never silently stranded.
WorkRefined == Work!WorkSpec

\* A row in progress ends, unless an error dropped it.
RowsEnd ==
    \A r \in Rows : status[r] = "in_progress" ~> status[r] # "in_progress" \/ r \in lost

\* What the comment on the locked check says of a flip that comes after the write: the
\* sweep's ZDR pass removes the rows.
ZdrChunksPurged ==
    \A t \in Tenants : zdr[t] ~> ~zdr[t] \/ \A r \in Rows : Owner(r) = t => chunks[r] = 0

==============================================================================
