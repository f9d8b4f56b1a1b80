---------------------------- MODULE UsagePipeline ----------------------------
(***************************************************************************)
(* Usage metering: RecordingUsageRecorder writes each request's charge to  *)
(* a Redis stream or, when Redis fails, straight to usage_records, and     *)
(* moves the advisory spend counters; a UsageLedgerFlusher in every        *)
(* gateway process drains the stream into usage_records; the cost recovery *)
(* service appends one signed correction for a request whose client went   *)
(* away.                                                                   *)
(*                                                                         *)
(* Every Redis and database call is one step, and may fail with or without *)
(* having taken effect.  All processes read as the same consumer, so the   *)
(* pending entries list (PEL) is one set of delivered, unacknowledged      *)
(* entries.                                                                *)
(***************************************************************************)
EXTENDS Integers, Sequences, FiniteSets, FiniteSetsExt

CONSTANTS
    Events, Disconnected,
    Cost, Target,
    Workers,        \* gateway processes, each with a flusher
    Recoverers,     \* recover() calls under way: inline tasks and sweeps
    Scopes,         \* the spend counters of a request, in increment order
    BatchCount,     \* COUNT of XREADGROUP and XAUTOCLAIM
    MaxRecoveries,  \* bound on the corrections computed
    MaxFaults,      \* bound on failed calls and process deaths
    None

ScopeSet == {Scopes[i] : i \in 1..Len(Scopes)}

ASSUME PipelineAssumption ==
    /\ Disconnected \subseteq Events
    /\ Cost \in [Events -> Nat] /\ Target \in [Disconnected -> Nat]
    /\ Scopes \in Seq(ScopeSet) /\ Scopes # << >>
    /\ \A i, j \in DOMAIN Scopes : Scopes[i] = Scopes[j] => i = j
    /\ BatchCount \in Nat \ {0}
    /\ MaxRecoveries \in Nat /\ MaxFaults \in Nat
    /\ None \notin Events

VARIABLES
    task,           \* progress of each request's record task
    stream,         \* usage:events, in XADD order
    cursor,         \* last entry delivered to the consumer group
    pel,            \* delivered entries not yet acknowledged
    stale,          \* those of the PEL past the reclaim idle time
    rows,           \* usage_records
    sum,            \* SUM(cost_usd) of the rows of each charge, kept up to date
    phase, batch,   \* each flusher's place in its cycle and entries in hand
    inserted,       \* the entry a flusher has inserted and not yet acknowledged
    recovery,       \* each recover() call
    recoveries,     \* corrections computed so far
    marked,         \* usage:correction:counted markers
    applied,        \* times each charge was added to each spend counter
    faults

ledgerVars == <<rows, sum>>
flusherVars == <<phase, batch, inserted>>
recoveryVars == <<recovery, recoveries, marked>>
vars == <<task, stream, cursor, pel, stale, rows, sum, phase, batch, inserted,
          recovery, recoveries, marked, applied, faults>>

Charge == (Events \X {"usage"}) \cup (Disconnected \X {"correction"})
Usage(e) == <<e, "usage">>
Correction(e) == <<e, "correction">>

Entry == [charge: Charge, cost: Int]
UsageRow == [id: Charge, charge: Charge, cost: Int]

Task == [pc: {"new", "fallback", "counting", "done", "failed"}, scope: 1..Len(Scopes)]
Recovery == [pc: {"polling", "adding", "marking", "counting"}, event: Disconnected,
             delta: Int, scope: 1..Len(Scopes)]
NoRecovery == [pc |-> "idle", event |-> None, delta |-> 0, scope |-> 1]

-----------------------------------------------------------------------------
(* Redis and database calls.                                               *)

XAdded(c, cost) == Append(stream, [charge |-> c, cost |-> cost])

\* Fault for sensitivity: a row keyed by the stream id, not by the event's id.
RecordIdOfStream(i) == <<i>>

\* The primary key a flushed entry gets is the id the event carries.
RecordId(i) == stream[i].charge

\* Fault for sensitivity: the INSERT has no ON CONFLICT clause.
InsertAnyway(id, c, cost) ==
    /\ rows' = rows \cup {[id |-> id, charge |-> c, cost |-> cost]}
    /\ sum' = [sum EXCEPT ![c] = @ + cost]

\* INSERT ... ON CONFLICT (id) DO NOTHING.
Insert(id, c, cost) ==
    IF \E x \in rows : x.id = id THEN UNCHANGED ledgerVars
    ELSE /\ rows' = rows \cup {[id |-> id, charge |-> c, cost |-> cost]}
         /\ sum' = [sum EXCEPT ![c] = @ + cost]

InsertEntry(i) == Insert(RecordId(i), stream[i].charge, stream[i].cost)

Increment(sc, c) == [applied EXCEPT ![sc][c] = @ + 1]

Billed(c) == \E x \in rows : x.charge = c

Fails == faults < MaxFaults /\ faults' = faults + 1

-----------------------------------------------------------------------------
Init ==
    /\ task = [e \in Events |-> [pc |-> "new", scope |-> 1]]
    /\ stream = << >> /\ cursor = 0 /\ pel = {} /\ stale = {}
    /\ rows = {} /\ sum = [c \in Charge |-> 0]
    /\ phase = [w \in Workers |-> "wait"]
    /\ batch = [w \in Workers |-> {}]
    /\ inserted = [w \in Workers |-> 0]
    /\ recovery = [x \in Recoverers |-> NoRecovery]
    /\ recoveries = 0 /\ marked = {}
    /\ applied = [sc \in ScopeSet |-> [c \in Charge |-> 0]]
    /\ faults = 0

(* The record task of a request.                                           *)

MoveTask(e, pc) == task' = [task EXCEPT ![e].pc = pc]

\* The XADD lands; a free request moves no counter.
XAdd(e) ==
    /\ task[e].pc = "new"
    /\ stream' = XAdded(Usage(e), Cost[e])
    /\ MoveTask(e, IF Cost[e] > 0 THEN "counting" ELSE "done")
    /\ UNCHANGED <<cursor, pel, stale, ledgerVars, flusherVars, recoveryVars, applied, faults>>

\* The XADD fails or times out, possibly after it landed.
XAddFails(e) ==
    /\ task[e].pc = "new"
    /\ Fails
    /\ stream' \in {stream, XAdded(Usage(e), Cost[e])}
    /\ MoveTask(e, "fallback")
    /\ UNCHANGED <<cursor, pel, stale, ledgerVars, flusherVars, recoveryVars, applied>>

\* The event goes straight to the ledger under its own id; no counter moves.
FallbackInsert(e) ==
    /\ task[e].pc = "fallback"
    /\ Insert(Usage(e), Usage(e), Cost[e])
    /\ MoveTask(e, "done")
    /\ UNCHANGED <<stream, cursor, pel, stale, flusherVars, recoveryVars, applied, faults>>

FallbackFails(e) ==
    /\ task[e].pc = "fallback"
    /\ Fails
    /\ UNCHANGED ledgerVars \/ Insert(Usage(e), Usage(e), Cost[e])
    /\ MoveTask(e, "failed")
    /\ UNCHANGED <<stream, cursor, pel, stale, flusherVars, recoveryVars, applied>>

\* INCRBYFLOAT of the next counter.
Count(e) ==
    LET i == task[e].scope IN
    /\ task[e].pc = "counting"
    /\ applied' = Increment(Scopes[i], Usage(e))
    /\ task' = [task EXCEPT ![e] = IF i = Len(Scopes) THEN [@ EXCEPT !.pc = "done"]
                                   ELSE [@ EXCEPT !.scope = i + 1]]
    /\ UNCHANGED <<stream, cursor, pel, stale, ledgerVars, flusherVars, recoveryVars, faults>>

\* A counter fails or times out: the rest are skipped, nothing makes up for them.
CountFails(e) ==
    /\ task[e].pc = "counting"
    /\ Fails
    /\ applied' \in {applied, Increment(Scopes[task[e].scope], Usage(e))}
    /\ MoveTask(e, "done")
    /\ UNCHANGED <<stream, cursor, pel, stale, ledgerVars, flusherVars, recoveryVars>>

\* The pricing query fails, or the process dies under the task.
RecordDies(e) ==
    /\ task[e].pc \in {"new", "fallback", "counting"}
    /\ Fails
    /\ MoveTask(e, "failed")
    /\ UNCHANGED <<stream, cursor, pel, stale, ledgerVars, flusherVars, recoveryVars, applied>>

-----------------------------------------------------------------------------
(* A flusher's cycle: reclaim, process, read new, process.                 *)

Oldest(S) == {i \in S : Cardinality({j \in S : j < i}) < BatchCount}

Unread == {i \in 1..Len(stream) : i > cursor /\ i <= cursor + BatchCount}

Busy(w) == batch[w] # {} \/ inserted[w] # 0

\* An entry of the PEL passes the min-idle time; a shutdown drain ignores it.
Idles(i) ==
    /\ i \in pel \ stale
    /\ stale' = stale \cup {i}
    /\ UNCHANGED <<task, stream, cursor, pel, ledgerVars, flusherVars, recoveryVars, applied, faults>>

\* Fault for sensitivity: a flusher never reclaims.
ClaimNothing(w) ==
    /\ phase[w] = "wait"
    /\ phase' = [phase EXCEPT ![w] = "claimed"]
    /\ UNCHANGED <<task, stream, cursor, pel, stale, ledgerVars, batch, inserted, recoveryVars,
                   applied, faults>>

\* XAUTOCLAIM takes the oldest idle entries over and restarts their idle time.
Claim(w) ==
    /\ phase[w] = "wait"
    /\ batch' = [batch EXCEPT ![w] = Oldest(stale)]
    /\ stale' = stale \ Oldest(stale)
    /\ phase' = [phase EXCEPT ![w] = "claimed"]
    /\ UNCHANGED <<task, stream, cursor, pel, ledgerVars, inserted, recoveryVars, applied, faults>>

ClaimFails(w) ==
    /\ phase[w] = "wait"
    /\ Fails
    /\ stale' \in {stale, stale \ Oldest(stale)}
    /\ phase' = [phase EXCEPT ![w] = "claimed"]
    /\ UNCHANGED <<task, stream, cursor, pel, ledgerVars, batch, inserted, recoveryVars, applied>>

\* XREADGROUP '>' moves the next entries into the PEL.
ReadNew(w) ==
    /\ phase[w] = "claimed" /\ ~Busy(w)
    /\ batch' = [batch EXCEPT ![w] = Unread]
    /\ pel' = pel \cup Unread
    /\ cursor' = cursor + Cardinality(Unread)
    /\ phase' = [phase EXCEPT ![w] = "read"]
    /\ UNCHANGED <<task, stream, stale, ledgerVars, inserted, recoveryVars, applied, faults>>

\* The read fails, possibly after the entries were delivered.
ReadFails(w) ==
    /\ phase[w] = "claimed" /\ ~Busy(w)
    /\ Fails
    /\ \/ UNCHANGED <<pel, cursor>>
       \/ pel' = pel \cup Unread /\ cursor' = cursor + Cardinality(Unread)
    /\ phase' = [phase EXCEPT ![w] = "wait"]
    /\ UNCHANGED <<task, stream, stale, ledgerVars, batch, inserted, recoveryVars, applied>>

\* The entries in hand are processed in stream order.
NextInHand(w, i) ==
    inserted[w] = 0 /\ i \in batch[w] /\ \A j \in batch[w] : i <= j

\* Fault for sensitivity: the entry is acknowledged before its row is inserted.
InsertRowAckedFirst(w) == \E i \in batch[w] :
    /\ NextInHand(w, i)
    /\ pel' = pel \ {i} /\ stale' = stale \ {i}
    /\ inserted' = [inserted EXCEPT ![w] = i]
    /\ batch' = [batch EXCEPT ![w] = @ \ {i}]
    /\ UNCHANGED <<task, stream, cursor, ledgerVars, phase, recoveryVars, applied, faults>>

\* Each entry is inserted in a transaction of its own.
InsertRow(w) == \E i \in batch[w] :
    /\ NextInHand(w, i)
    /\ InsertEntry(i)
    /\ inserted' = [inserted EXCEPT ![w] = i]
    /\ batch' = [batch EXCEPT ![w] = @ \ {i}]
    /\ UNCHANGED <<task, stream, cursor, pel, stale, phase, recoveryVars, applied, faults>>

\* A database error, possibly after the commit: no acknowledgement, next entry.
InsertFails(w) == \E i \in batch[w] :
    /\ NextInHand(w, i)
    /\ Fails
    /\ UNCHANGED ledgerVars \/ InsertEntry(i)
    /\ batch' = [batch EXCEPT ![w] = @ \ {i}]
    /\ UNCHANGED <<task, stream, cursor, pel, stale, phase, inserted, recoveryVars, applied>>

\* XACK.
Ack(w) ==
    /\ inserted[w] # 0
    /\ pel' = pel \ {inserted[w]}
    /\ stale' = stale \ {inserted[w]}
    /\ inserted' = [inserted EXCEPT ![w] = 0]
    /\ UNCHANGED <<task, stream, cursor, ledgerVars, phase, batch, recoveryVars, applied, faults>>

AckFails(w) ==
    /\ inserted[w] # 0
    /\ Fails
    /\ inserted' = [inserted EXCEPT ![w] = 0]
    /\ UNCHANGED <<task, stream, cursor, pel, stale, ledgerVars, phase, batch, recoveryVars, applied>>

EndCycle(w) ==
    /\ phase[w] = "read" /\ ~Busy(w)
    /\ phase' = [phase EXCEPT ![w] = "wait"]
    /\ UNCHANGED <<task, stream, cursor, pel, stale, ledgerVars, batch, inserted, recoveryVars,
                   applied, faults>>

\* The process dies with entries in hand, and restarts.
WorkerDies(w) ==
    /\ phase[w] # "wait"
    /\ Fails
    /\ phase' = [phase EXCEPT ![w] = "wait"]
    /\ batch' = [batch EXCEPT ![w] = {}]
    /\ inserted' = [inserted EXCEPT ![w] = 0]
    /\ UNCHANGED <<task, stream, cursor, pel, stale, ledgerVars, recoveryVars, applied>>

-----------------------------------------------------------------------------
(* recover(): inline when a stream aborts, or one of the sweep's.          *)

\* Fault for sensitivity: a recovery does not wait for the record it corrects.
AnchorIgnored(e) == e \in Events

\* The usage record of the aborted stream has reached the ledger.
AnchorFlushed(e) == Billed(Usage(e))

AlreadyBilled(e) == sum[Usage(e)]

Step(x, pc) == recovery' = [recovery EXCEPT ![x].pc = pc]
Leave(x) == recovery' = [recovery EXCEPT ![x] = NoRecovery]

Correcting(x) == stream' = XAdded(Correction(recovery[x].event), recovery[x].delta)

\* The first look at the ledger; until the anchor is there nothing changes.
StartRecovery(x, e) ==
    /\ recovery[x].pc = "idle" /\ recoveries < MaxRecoveries
    /\ AnchorFlushed(e) /\ ~Billed(Correction(e))
    /\ recovery' = [recovery EXCEPT ![x] =
                        [pc |-> "polling", event |-> e, delta |-> 0, scope |-> 1]]
    /\ recoveries' = recoveries + 1
    /\ UNCHANGED <<task, stream, cursor, pel, stale, ledgerVars, flusherVars, marked,
                   applied, faults>>

\* The upstream never settles the cost, or a query fails, or the process dies.
GiveUp(x) ==
    /\ recovery[x].pc # "idle"
    /\ recovery[x].pc # "polling" => faults < MaxFaults
    /\ faults' = IF recovery[x].pc = "polling" THEN faults ELSE faults + 1
    /\ Leave(x)
    /\ UNCHANGED <<task, stream, cursor, pel, stale, ledgerVars, flusherVars, recoveries,
                   marked, applied>>

\* The cost has settled: the second look at the ledger fixes the signed delta.
BillDelta(x) ==
    LET e == recovery[x].event IN
    /\ recovery[x].pc = "polling"
    /\ IF Billed(Correction(e)) THEN Leave(x)
       ELSE recovery' = [recovery EXCEPT ![x] =
                [@ EXCEPT !.pc = "adding", !.delta = Target[e] - AlreadyBilled(e)]]
    /\ UNCHANGED <<task, stream, cursor, pel, stale, ledgerVars, flusherVars, recoveries,
                   marked, applied, faults>>

\* XADD of the correction; a zero delta moves no counter.
AddCorrection(x) ==
    /\ recovery[x].pc = "adding"
    /\ Correcting(x)
    /\ IF recovery[x].delta = 0 THEN Leave(x) ELSE Step(x, "marking")
    /\ UNCHANGED <<task, cursor, pel, stale, ledgerVars, flusherVars, recoveries, marked,
                   applied, faults>>

\* A correction has no fallback: unless it landed, a later sweep tries again.
AddCorrectionUnanswered(x) ==
    /\ recovery[x].pc = "adding"
    /\ Fails
    /\ Correcting(x)
    /\ Leave(x)
    /\ UNCHANGED <<task, cursor, pel, stale, ledgerVars, flusherVars, recoveries, marked,
                   applied>>

\* Fault for sensitivity: the marker is set without NX.
MarkAlways(x) ==
    /\ recovery[x].pc = "marking"
    /\ marked' = marked \cup {recovery[x].event}
    /\ Step(x, "counting")
    /\ UNCHANGED <<task, stream, cursor, pel, stale, ledgerVars, flusherVars, recoveries,
                   applied, faults>>

\* SET NX of usage:correction:counted: one caller counts, the others leave.
Mark(x) ==
    LET e == recovery[x].event IN
    /\ recovery[x].pc = "marking"
    /\ marked' = marked \cup {e}
    /\ IF e \in marked THEN Leave(x) ELSE Step(x, "counting")
    /\ UNCHANGED <<task, stream, cursor, pel, stale, ledgerVars, flusherVars, recoveries,
                   applied, faults>>

MarkUnanswered(x) ==
    /\ recovery[x].pc = "marking"
    /\ Fails
    /\ marked' = marked \cup {recovery[x].event}
    /\ Leave(x)
    /\ UNCHANGED <<task, stream, cursor, pel, stale, ledgerVars, flusherVars, recoveries,
                   applied>>

CountCorrection(x) ==
    LET i == recovery[x].scope IN
    /\ recovery[x].pc = "counting"
    /\ applied' = Increment(Scopes[i], Correction(recovery[x].event))
    /\ IF i = Len(Scopes) THEN Leave(x)
       ELSE recovery' = [recovery EXCEPT ![x].scope = i + 1]
    /\ UNCHANGED <<task, stream, cursor, pel, stale, ledgerVars, flusherVars, recoveries,
                   marked, faults>>

CountCorrectionUnanswered(x) ==
    /\ recovery[x].pc = "counting"
    /\ Fails
    /\ applied' = Increment(Scopes[recovery[x].scope], Correction(recovery[x].event))
    /\ Leave(x)
    /\ UNCHANGED <<task, stream, cursor, pel, stale, ledgerVars, flusherVars, recoveries,
                   marked>>

-----------------------------------------------------------------------------
RecorderNext == \E e \in Events :
    \/ XAdd(e) \/ XAddFails(e)
    \/ FallbackInsert(e) \/ FallbackFails(e)
    \/ Count(e) \/ CountFails(e)
    \/ RecordDies(e)

FlusherNext == \E w \in Workers :
    \/ Claim(w) \/ ClaimFails(w)
    \/ ReadNew(w) \/ ReadFails(w)
    \/ InsertRow(w) \/ InsertFails(w)
    \/ Ack(w) \/ AckFails(w)
    \/ EndCycle(w) \/ WorkerDies(w)

RecoveryNext == \E x \in Recoverers :
    \/ \E e \in Disconnected : StartRecovery(x, e)
    \/ GiveUp(x) \/ BillDelta(x)
    \/ AddCorrection(x) \/ AddCorrectionUnanswered(x)
    \/ Mark(x) \/ MarkUnanswered(x)
    \/ CountCorrection(x) \/ CountCorrectionUnanswered(x)

Next ==
    \/ RecorderNext
    \/ FlusherNext
    \/ \E i \in pel : Idles(i)
    \/ RecoveryNext

Spec == Init /\ [][Next]_vars

\* The flusher's loop never ends, delivered entries grow old, tasks are scheduled.
Fairness ==
    /\ \A e \in Events : WF_vars(XAdd(e) \/ FallbackInsert(e) \/ Count(e))
    /\ \A w \in Workers :
          WF_vars(Claim(w) \/ ReadNew(w) \/ InsertRow(w) \/ Ack(w) \/ EndCycle(w))
    /\ WF_vars(\E i \in pel : Idles(i))

FairSpec == Spec /\ Fairness

-----------------------------------------------------------------------------
TypeOK ==
    /\ task \in [Events -> Task]
    /\ stream \in Seq(Entry)
    /\ cursor \in 0..Len(stream)
    /\ pel \subseteq 1..cursor /\ stale \subseteq pel
    /\ rows \subseteq UsageRow /\ sum \in [Charge -> Int]
    /\ phase \in [Workers -> {"wait", "claimed", "read"}]
    /\ batch \in [Workers -> SUBSET (1..cursor)]
    /\ inserted \in [Workers -> 0..cursor]
    /\ recovery \in [Recoverers -> Recovery \cup {NoRecovery}]
    /\ recoveries \in Nat /\ faults \in Nat
    /\ marked \subseteq Disconnected
    /\ applied \in [ScopeSet -> [Charge -> Nat]]

InStream(c) == \E i \in 1..Len(stream) : stream[i].charge = c
Durable(c) == InStream(c) \/ Billed(c)

\* However often an entry is delivered, a process restarts, or an XADD that
\* timed out has landed beside its fallback, a charge has one ledger row, and it
\* says what was charged (insert_usage_row's ON CONFLICT on the event's id).
BilledOnce == \A x, y \in rows : x.charge = y.charge => x = y

\* At least once: a charge that reached the stream is billed, still unread, or in
\* the PEL whence it is reclaimed; and a request whose record task ended well
\* has reached the stream or the ledger (XACK follows the insert's commit).
NothingLost ==
    /\ \A i \in 1..Len(stream) : i > cursor \/ i \in pel \/ Billed(stream[i].charge)
    /\ \A e \in Events : task[e].pc \in {"counting", "done"} => Durable(Usage(e))

\* A corrected generation has cost its tenant the upstream's authoritative cost,
\* whatever order the anchor row, the duplicate recoveries and the flushers ran in
\* (recover()'s two looks at the ledger).
RecoveredTotal ==
    \A e \in Disconnected : Billed(Correction(e)) =>
        sum[Usage(e)] + sum[Correction(e)] = Target[e]

\* No spend counter takes a charge twice, although INCRBYFLOAT is not idempotent
\* and recoveries of one generation race; and none moves for a charge that was
\* never made durable (the SET NX marker, and the XADD before the counters).
CountedOnce ==
    \A sc \in ScopeSet, c \in Charge :
        applied[sc][c] <= 1 /\ (applied[sc][c] = 1 => Durable(c))

\* The rest of what the proofs carry.  A flushed row is keyed by its event's id.
RowsKeyed ==
    /\ \A x \in rows : x.id = x.charge
    /\ \A x, y \in rows : x.id = y.id => x = y

\* A flusher acknowledges an entry only after its row is in the ledger.
AckAfterInsert ==
    \A w \in Workers : inserted[w] # 0 => Billed(stream[inserted[w]].charge)

\* A request's counters move in order, after its charge is durable.
CountsInOrder ==
    \A e \in Events, i \in 1..Len(Scopes) :
        (task[e].pc \in {"new", "fallback"} \/ (task[e].pc = "counting" /\ task[e].scope <= i))
            => applied[Scopes[i]][Usage(e)] = 0

\* A correction is counted by the one caller that set its marker.
CorrectionsInOrder ==
    /\ \A x \in Recoverers : recovery[x].pc \in {"marking", "counting"} =>
          InStream(Correction(recovery[x].event))
    /\ \A x \in Recoverers : recovery[x].pc = "counting" => recovery[x].event \in marked
    /\ \A x, y \in Recoverers :
          recovery[x].pc = "counting" /\ recovery[y].pc = "counting"
            /\ recovery[x].event = recovery[y].event => x = y
    /\ \A e \in Disconnected, i \in 1..Len(Scopes) :
          \/ e \notin marked
          \/ \E x \in Recoverers :
                recovery[x].pc = "counting" /\ recovery[x].event = e /\ recovery[x].scope <= i
          => applied[Scopes[i]][Correction(e)] = 0

\* Every entry and row of a charge bears its price, and a correction's price is
\* what its generation's usage record leaves to the authoritative cost.
Price(c) == IF c[2] = "usage" THEN Cost[c[1]] ELSE Target[c[1]] - Cost[c[1]]

PricedRight ==
    /\ \A i \in 1..Len(stream) : stream[i].cost = Price(stream[i].charge)
    /\ \A x \in rows : x.cost = Price(x.charge)
    /\ \A c \in Charge : sum[c] = IF Billed(c) THEN Price(c) ELSE 0
    /\ \A x \in Recoverers : recovery[x].pc # "idle" => Billed(Usage(recovery[x].event))
    /\ \A x \in Recoverers : recovery[x].pc \notin {"idle", "polling"} =>
          recovery[x].delta = Price(Correction(recovery[x].event))
    /\ \A e \in Disconnected : Durable(Correction(e)) => Billed(Usage(e))

PInv == TypeOK /\ RowsKeyed /\ PricedRight /\ AckAfterInsert /\ NothingLost
          /\ CountsInOrder /\ CorrectionsInOrder /\ CountedOnce

\* The ledger implements the abstract account of charges.
Charges == INSTANCE UsageCharges WITH
    owed <- {c \in Charge : Durable(c)},
    billed <- {c \in Charge : Billed(c)},
    total <- [e \in Events |->
                 sum[Usage(e)] + IF e \in Disconnected THEN sum[Correction(e)] ELSE 0]

\* Each step of a recorder, flusher or recovery owes a charge, bills one, or
\* leaves the account of charges as it was.
ChargesRefined == Charges!ChargesSpec

\* A durable charge reaches the ledger although flushers die with it in hand, as
\* long as one keeps cycling (flush_once reclaims what was left in the PEL).
EveryChargeBilled == Charges!EveryOwedBilled

=============================================================================
