---------------------------- MODULE CreditLedger ----------------------------
(***************************************************************************)
(* The prepaid credit ledger of the gateway: PostgresCreditGuard           *)
(* (check_and_hold / settle / release), topup() and the sweep that         *)
(* releases orphaned holds, as concurrent database transactions.           *)
(*                                                                         *)
(* A session is one transaction.  It begins, waits for the FOR UPDATE lock *)
(* of its tenant's balance row, reads the balance, decides, stages its     *)
(* ledger row and commits; rows become visible to others at commit (READ   *)
(* COMMITTED).  A missing balance row is created with balance 0 by the     *)
(* locking statement itself, so balance[t] = 0 stands for it.              *)
(***************************************************************************)
EXTENDS Integers, Sequences, FiniteSets

CONSTANTS
    Tenants, Requests, Keys,
    Sessions,       \* concurrent transactions of the gateway processes
    Sweepers,       \* the sessions of the sweep tasks, one per gateway worker
    TenantOf, Grace, Estimates, Costs, Amounts,
    BatchSize,      \* LIMIT of the sweep's candidate query
    SweepOn,        \* credits_recovery_sweep_interval_seconds > 0
    MaxFaults,      \* bound on database errors and process deaths
    None            \* SQL NULL, and the holder of a free lock

ASSUME CreditAssumption ==
    /\ TenantOf \in [Requests -> Tenants]
    /\ Grace \in [Tenants -> Nat]
    /\ Estimates \subseteq Nat /\ Costs \subseteq Nat /\ Amounts \subseteq Nat
    /\ BatchSize \in Nat \ {0} /\ MaxFaults \in Nat
    /\ SweepOn \in BOOLEAN
    /\ Sweepers \subseteq Sessions
    /\ None \notin Sessions \cup Requests \cup Keys \cup Tenants

VARIABLES
    balance,        \* tenant_credit_balances.balance_usd
    ledger,         \* committed credit_ledger rows of each tenant, in commit order
    lock,           \* the session that holds the tenant's balance row
    pc,             \* where each session is in its transaction
    op,             \* the call the session executes
    seen,           \* the balance the session read under the lock
    row,            \* the row the session has inserted and not yet committed
    request,        \* what the request that owns a hold is doing
    aged,           \* requests whose hold is older than hold_timeout_s
    sweep,          \* candidates each sweep's cycle has still to release
    answers,        \* top-up responses sent to callers
    faults          \* database errors and deaths so far

vars == <<balance, ledger, lock, pc, op, seen, row, request, aged, sweep,
          answers, faults>>

Phases == {"idle", "begin", "locked", "looked", "staged", "requery"}
OwnsLock == {"locked", "looked", "staged"}

Op == [kind: {"hold", "settle", "release", "topup"}, tenant: Tenants,
       req: Requests \cup {None}, amount: Nat, key: Keys \cup {None}]
NoOp == [kind |-> "none", tenant |-> None, req |-> None, amount |-> 0, key |-> None]

Row == [type: {"hold", "settle", "release", "topup"}, tenant: Tenants, amount: Int,
        after: Int, req: Requests \cup {None}, key: Keys \cup {None}]
NoRow == [type |-> "none", tenant |-> None, amount |-> 0, after |-> 0,
          req |-> None, key |-> None]

Answer == [key: Keys, tenant: Tenants, amount: Nat,
           outcome: {"created", "replayed", "conflict"}]

-----------------------------------------------------------------------------
(* Queries of ledger_store.                                                *)

Rows(t) == {ledger[t][i] : i \in 1..Len(ledger[t])}

Finalized(t, r) == \E f \in Rows(t) : f.req = r /\ f.type \in {"settle", "release"}

\* Fault for sensitivity: the sibling test forgets releases.
FindOpenHoldSettleOnly(t, r) ==
    {h \in Rows(t) : /\ h.type = "hold" /\ h.req = r
                     /\ ~\E f \in Rows(t) : f.req = r /\ f.type = "settle"}

\* The hold of the request, while it has no settle or release sibling.
FindOpenHold(t, r) ==
    {h \in Rows(t) : h.type = "hold" /\ h.req = r /\ ~Finalized(t, r)}

HoldOpen(r) == FindOpenHold(TenantOf[r], r) # {}

\* The committed top-up under a key, looked up across all tenants.
FindTopup(k) == {x \in UNION {Rows(t) : t \in Tenants} : x.type = "topup" /\ x.key = k}

-----------------------------------------------------------------------------
Init ==
    /\ balance = [t \in Tenants |-> 0]
    /\ ledger = [t \in Tenants |-> << >>]
    /\ lock = [t \in Tenants |-> None]
    /\ pc = [s \in Sessions |-> "idle"]
    /\ op = [s \in Sessions |-> NoOp]
    /\ seen = [s \in Sessions |-> 0]
    /\ row = [s \in Sessions |-> NoRow]
    /\ request = [r \in Requests |-> "new"]
    /\ aged = {}
    /\ sweep = [s \in Sweepers |-> {}]
    /\ answers = {}
    /\ faults = 0

\* A call opens its transaction.
Open(s, o) ==
    /\ pc[s] = "idle"
    /\ pc' = [pc EXCEPT ![s] = "begin"]
    /\ op' = [op EXCEPT ![s] = o]
    /\ UNCHANGED <<balance, ledger, lock, seen, row, faults>>

\* The transaction of s ends, by commit or rollback, and gives the row lock up.
Unlock(s) == lock' = [t \in Tenants |-> IF lock[t] = s THEN None ELSE lock[t]]

Close(s) ==
    /\ Unlock(s)
    /\ pc' = [pc EXCEPT ![s] = "idle"]
    /\ op' = [op EXCEPT ![s] = NoOp]
    /\ seen' = [seen EXCEPT ![s] = 0]
    /\ row' = [row EXCEPT ![s] = NoRow]

CheckAndHold(s, r, e) ==
    /\ s \notin Sweepers
    /\ request[r] = "new"
    /\ request' = [request EXCEPT ![r] = "admitting"]
    /\ Open(s, [kind |-> "hold", tenant |-> TenantOf[r], req |-> r, amount |-> e,
                key |-> None])
    /\ UNCHANGED <<aged, sweep, answers>>

\* The record callback of an admitted request; more than one may be dispatched.
Settle(s, r, c) ==
    /\ s \notin Sweepers
    /\ request[r] = "running"
    /\ Open(s, [kind |-> "settle", tenant |-> TenantOf[r], req |-> r, amount |-> c,
                key |-> None])
    /\ UNCHANGED <<request, aged, sweep, answers>>

ReleaseOp(r) == [kind |-> "release", tenant |-> TenantOf[r], req |-> r, amount |-> 0,
                 key |-> None]

Release(s, r) ==
    /\ s \notin Sweepers
    /\ request[r] = "running"
    /\ Open(s, ReleaseOp(r))
    /\ UNCHANGED <<request, aged, sweep, answers>>

Topup(s, k, t, a) ==
    /\ s \notin Sweepers
    /\ Open(s, [kind |-> "topup", tenant |-> t, req |-> None, amount |-> a, key |-> k])
    /\ UNCHANGED <<request, aged, sweep, answers>>

-----------------------------------------------------------------------------
(* The steps of a transaction.                                             *)

\* Fault for sensitivity: SELECT without FOR UPDATE.
LockBalanceRowUnlocked(s) ==
    /\ pc[s] = "begin"
    /\ seen' = [seen EXCEPT ![s] = balance[op[s].tenant]]
    /\ pc' = [pc EXCEPT ![s] = "locked"]
    /\ UNCHANGED <<balance, ledger, lock, op, row, request, aged, sweep, answers, faults>>

\* SELECT ... FOR UPDATE: wait for the row, then read what is committed.
LockBalanceRow(s) ==
    LET t == op[s].tenant IN
    /\ pc[s] = "begin"
    /\ lock[t] = None
    /\ lock' = [lock EXCEPT ![t] = s]
    /\ seen' = [seen EXCEPT ![s] = balance[t]]
    /\ pc' = [pc EXCEPT ![s] = "locked"]
    /\ UNCHANGED <<balance, ledger, op, row, request, aged, sweep, answers, faults>>

\* INSERT INTO credit_ledger and UPDATE of the balance, not yet committed.
Stage(s, type, amount) ==
    /\ row' = [row EXCEPT ![s] =
                 [type |-> type, tenant |-> op[s].tenant, amount |-> amount,
                  after |-> seen[s] + amount, req |-> op[s].req, key |-> op[s].key]]
    /\ pc' = [pc EXCEPT ![s] = "staged"]
    /\ UNCHANGED <<balance, ledger, lock, op, seen, request, aged, sweep, answers, faults>>

\* Fault for sensitivity: the balance is tested before the hold is subtracted.
AffordableBeforeHold(s) == seen[s] >= -Grace[op[s].tenant]

Affordable(s) == seen[s] - op[s].amount >= -Grace[op[s].tenant]

StageHold(s) ==
    /\ pc[s] = "locked" /\ op[s].kind = "hold"
    /\ Affordable(s)
    /\ Stage(s, "hold", -op[s].amount)

\* ERR_CREDITS_EXHAUSTED: the transaction rolls back and no hold is written.
RefuseHold(s) ==
    /\ pc[s] = "locked" /\ op[s].kind = "hold"
    /\ ~Affordable(s)
    /\ request' = [request EXCEPT ![op[s].req] = "refused"]
    /\ Close(s)
    /\ UNCHANGED <<balance, ledger, aged, sweep, answers, faults>>

\* Fault for sensitivity: the settle posts actual cost - hold.
StageFinalizationSignSwapped(s) ==
    /\ pc[s] = "locked" /\ op[s].kind \in {"settle", "release"}
    /\ \E h \in FindOpenHold(op[s].tenant, op[s].req) :
         Stage(s, op[s].kind, op[s].amount - (-h.amount))

\* settle() and release(): the hold is looked up under the lock; a settle posts
\* hold - actual cost, a release the whole hold.
StageFinalization(s) ==
    /\ pc[s] = "locked" /\ op[s].kind \in {"settle", "release"}
    /\ \E h \in FindOpenHold(op[s].tenant, op[s].req) :
         Stage(s, op[s].kind, (-h.amount) - op[s].amount)

\* No open hold: already finalised, or never placed.
NothingToFinalize(s) ==
    /\ pc[s] = "locked" /\ op[s].kind \in {"settle", "release"}
    /\ FindOpenHold(op[s].tenant, op[s].req) = {}
    /\ Close(s)
    /\ UNCHANGED <<balance, ledger, request, aged, sweep, answers, faults>>

\* The pre-check found no top-up under the key.
LookupMiss(s) ==
    /\ pc[s] = "locked" /\ op[s].kind = "topup"
    /\ FindTopup(op[s].key) = {}
    /\ pc' = [pc EXCEPT ![s] = "looked"]
    /\ UNCHANGED <<balance, ledger, lock, op, seen, row, request, aged, sweep,
                   answers, faults>>

AnswerOf(s, outcome) ==
    [key |-> op[s].key, tenant |-> op[s].tenant, amount |-> op[s].amount,
     outcome |-> outcome]

\* Fault for sensitivity: a replay is recognised by its amount alone.
ReplayByAmount(s, x) == IF x.amount = op[s].amount THEN "replayed" ELSE "conflict"

ReplayOrConflict(s, x) ==
    IF x.tenant = op[s].tenant /\ x.amount = op[s].amount THEN "replayed" ELSE "conflict"

\* An existing top-up answers the call: by the pre-check, or by the fresh read
\* after the insert lost.
AnswerExisting(s) ==
    /\ pc[s] \in {"locked", "requery"} /\ op[s].kind = "topup"
    /\ \E x \in FindTopup(op[s].key) :
         answers' = answers \cup {AnswerOf(s, ReplayOrConflict(s, x))}
    /\ Close(s)
    /\ UNCHANGED <<balance, ledger, request, aged, sweep, faults>>

\* Fault for sensitivity: the key is reserved by the pre-check already.
KeyReserved(s) ==
    \E o \in Sessions \ {s} : pc[o] \in {"looked", "staged"} /\ op[o].key = op[s].key

\* The global unique index: an insert waits for an uncommitted row with its key.
KeyContended(s) ==
    \E o \in Sessions \ {s} : pc[o] = "staged" /\ row[o].key = op[s].key

\* Fault for sensitivity: no global unique index on the key.
StageTopupNoIndex(s) ==
    /\ pc[s] = "looked"
    /\ Stage(s, "topup", op[s].amount)

StageTopup(s) ==
    /\ pc[s] = "looked"
    /\ ~KeyContended(s)
    /\ FindTopup(op[s].key) = {}
    /\ Stage(s, "topup", op[s].amount)

\* IntegrityError: another top-up committed the key after the pre-check.
InsertConflict(s) ==
    /\ pc[s] = "looked"
    /\ FindTopup(op[s].key) # {}
    /\ Unlock(s)
    /\ pc' = [pc EXCEPT ![s] = "requery"]
    /\ seen' = [seen EXCEPT ![s] = 0]
    /\ UNCHANGED <<balance, ledger, op, row, request, aged, sweep, answers, faults>>

\* COMMIT publishes the row and the balance together.
Apply(s) ==
    LET t == op[s].tenant IN
    /\ pc[s] = "staged"
    /\ ledger' = [ledger EXCEPT ![t] = Append(@, row[s])]
    /\ balance' = [balance EXCEPT ![t] = row[s].after]
    /\ request' = [r \in Requests |->
                     IF op[s].kind = "hold" /\ op[s].req = r THEN "running" ELSE request[r]]
    /\ Close(s)
    /\ UNCHANGED <<aged, sweep>>

Commit(s) ==
    /\ Apply(s)
    /\ answers' = IF op[s].kind = "topup"
                  THEN answers \cup {AnswerOf(s, "created")} ELSE answers
    /\ UNCHANGED faults

\* The commit took effect and its acknowledgement was lost: the caller of a
\* top-up gets an error and may retry; the other calls swallow it.
CommitUnacknowledged(s) ==
    /\ faults < MaxFaults
    /\ Apply(s)
    /\ faults' = faults + 1
    /\ UNCHANGED answers

\* The database fails the transaction: nothing is written; an admission fails
\* open and the request runs without a hold.
FailTransaction(s) ==
    /\ pc[s] # "idle"
    /\ faults < MaxFaults
    /\ faults' = faults + 1
    /\ request' = [r \in Requests |->
                     IF op[s].kind = "hold" /\ op[s].req = r THEN "running" ELSE request[r]]
    /\ Close(s)
    /\ UNCHANGED <<balance, ledger, aged, sweep, answers>>

\* The process of an admitted request dies: nothing will finalise its hold.
CrashRequest(r) ==
    /\ request[r] = "running"
    /\ faults < MaxFaults
    /\ faults' = faults + 1
    /\ request' = [request EXCEPT ![r] = "dead"]
    /\ UNCHANGED <<balance, ledger, lock, pc, op, seen, row, aged, sweep, answers>>

-----------------------------------------------------------------------------
(* The reconciliation sweep.                                               *)

HoldAges(r) ==
    /\ HoldOpen(r)
    /\ r \notin aged
    /\ aged' = aged \cup {r}
    /\ UNCHANGED <<balance, ledger, lock, pc, op, seen, row, request, sweep, answers, faults>>

SweepCandidates == {r \in aged : HoldOpen(r)}

\* One cycle reads its candidates outside any lock: all of them, or some batch.
IsBatch(b) ==
    /\ b \subseteq SweepCandidates
    /\ \/ b = SweepCandidates /\ Cardinality(b) <= BatchSize
       \/ Cardinality(b) = BatchSize

SweepScan(s, b) ==
    /\ SweepOn
    /\ sweep[s] = {} /\ pc[s] = "idle"
    /\ b # {} /\ IsBatch(b)
    /\ sweep' = [sweep EXCEPT ![s] = b]
    /\ UNCHANGED <<balance, ledger, lock, pc, op, seen, row, request, aged, answers, faults>>

\* Fault for sensitivity: the release coroutine is never awaited.
SweepReleaseUnawaited(s, r) ==
    /\ r \in sweep[s]
    /\ sweep' = [sweep EXCEPT ![s] = @ \ {r}]
    /\ UNCHANGED <<balance, ledger, lock, pc, op, seen, row, request, aged, answers, faults>>

\* It releases them one at a time, each in a transaction of its own, however
\* long ago it read them.
SweepRelease(s, r) ==
    /\ r \in sweep[s]
    /\ sweep' = [sweep EXCEPT ![s] = @ \ {r}]
    /\ Open(s, ReleaseOp(r))
    /\ UNCHANGED <<request, aged, answers>>

-----------------------------------------------------------------------------
Call(s) ==
    \/ \E r \in Requests, e \in Estimates : CheckAndHold(s, r, e)
    \/ \E r \in Requests, c \in Costs : Settle(s, r, c)
    \/ \E r \in Requests : Release(s, r)
    \/ \E k \in Keys, t \in Tenants, a \in Amounts : Topup(s, k, t, a)

Decide(s) ==
    \/ StageHold(s)
    \/ RefuseHold(s)
    \/ StageFinalization(s)
    \/ NothingToFinalize(s)
    \/ LookupMiss(s)
    \/ AnswerExisting(s)
    \/ StageTopup(s)
    \/ InsertConflict(s)

Fault ==
    \/ \E s \in Sessions : CommitUnacknowledged(s)
    \/ \E s \in Sessions : FailTransaction(s)
    \/ \E r \in Requests : CrashRequest(r)

SweepStep(s) ==
    \/ \E b \in SUBSET Requests : SweepScan(s, b)
    \/ \E r \in Requests : SweepRelease(s, r)

Next ==
    \/ \E s \in Sessions : Call(s)
    \/ \E s \in Sessions : LockBalanceRow(s)
    \/ \E s \in Sessions : Decide(s)
    \/ \E s \in Sessions : Commit(s)
    \/ Fault
    \/ \E r \in Requests : HoldAges(r)
    \/ \E s \in Sweepers : SweepStep(s)

Spec == Init /\ [][Next]_vars

\* A transaction that can go on goes on; the waiters of a row lock are queued,
\* so none is passed over for ever; time passes; the sweep loop keeps cycling.
Fairness ==
    /\ \A s \in Sessions : SF_vars(LockBalanceRow(s))
    /\ \A s \in Sessions : WF_vars(Decide(s)) /\ WF_vars(Commit(s))
    /\ \A r \in Requests : WF_vars(HoldAges(r))
    /\ \A s \in Sweepers : WF_vars(SweepStep(s))

FairSpec == Spec /\ Fairness

-----------------------------------------------------------------------------
(* Properties.                                                             *)

TypeOK ==
    /\ balance \in [Tenants -> Int]
    /\ ledger \in [Tenants -> Seq(Row)]
    /\ lock \in [Tenants -> Sessions \cup {None}]
    /\ pc \in [Sessions -> Phases]
    /\ op \in [Sessions -> Op \cup {NoOp}]
    /\ seen \in [Sessions -> Int]
    /\ row \in [Sessions -> Row \cup {NoRow}]
    /\ request \in [Requests -> {"new", "admitting", "refused", "running", "dead"}]
    /\ aged \subseteq Requests
    /\ sweep \in [Sweepers -> SUBSET Requests]
    /\ answers \subseteq Answer
    /\ faults \in 0..MaxFaults

\* The cached balance is the sum of the tenant's ledger: every row's snapshot is
\* the previous snapshot plus its amount, and the balance is the last snapshot.
BalanceBefore(t, i) == IF i = 1 THEN 0 ELSE ledger[t][i - 1].after

RunningSum ==
    \A t \in Tenants : \A i \in 1..Len(ledger[t]) :
        ledger[t][i].after = BalanceBefore(t, i) + ledger[t][i].amount

BalanceCached ==
    \A t \in Tenants :
        balance[t] = IF ledger[t] = << >> THEN 0 ELSE ledger[t][Len(ledger[t])].after

BalanceIsLedgerSum == RunningSum /\ BalanceCached

\* A request has at most one hold and at most one settle or release, and both
\* are rows of its own tenant, the finalisation after the hold.
FinalizedOnce ==
    \A t \in Tenants : \A i, j \in 1..Len(ledger[t]) :
        LET x == ledger[t][i]
            y == ledger[t][j]
        IN  /\ x.req # None => TenantOf[x.req] = t
            /\ (x.req = y.req /\ x.type = "hold" /\ y.type = "hold") => i = j
            /\ (x.req = y.req /\ {x.type, y.type} \subseteq {"settle", "release"}) => i = j
            /\ (x.type \in {"settle", "release"}) =>
                   \E h \in 1..(i - 1) : ledger[t][h].type = "hold" /\ ledger[t][h].req = x.req

\* A key credits at most once, over all tenants.
KeyAppliedOnce ==
    \A t, u \in Tenants : \A i \in 1..Len(ledger[t]), j \in 1..Len(ledger[u]) :
        (ledger[t][i].key # None /\ ledger[t][i].key = ledger[u][j].key)
            => t = u /\ i = j

\* A caller told "created" or "replayed" has the top-up it asked for in the
\* ledger, and one told "conflict" reused a key of a different top-up.
AnswersHonest ==
    \A a \in answers : \E x \in FindTopup(a.key) :
        (a.outcome # "conflict") <=> (x.tenant = a.tenant /\ x.amount = a.amount)

\* No volume of concurrent admissions overdraws the grace: a balance below it is
\* owed to a settle that cost more than its hold.
OverdraftOnlyByOverrun ==
    \A t \in Tenants :
        balance[t] < -Grace[t] => \E x \in Rows(t) : x.type = "settle" /\ x.amount < 0

\* An orphaned hold does not starve its tenant: every hold is finalised.
HoldsEventuallyFinalized == \A r \in Requests : HoldOpen(r) ~> ~HoldOpen(r)

\* No transaction is blocked for ever: not by the lock of its tenant's row, not by an
\* insert of its key by another tenant, whose own row lock it may hold others up with.
TransactionsEnd == \A s \in Sessions : pc[s] # "idle" ~> pc[s] = "idle"

-----------------------------------------------------------------------------
(* The inductive invariant behind the safety properties.                   *)

IsFinalization(type) == type \in {"settle", "release"}

\* A session's call is of its request's tenant; a top-up has a key, no request.
CallsOwned ==
    \A s \in Sessions :
        /\ pc[s] = "idle" <=> op[s] = NoOp
        /\ op[s].kind = "topup" => op[s].req = None /\ op[s].key \in Keys
        /\ (pc[s] # "idle" /\ op[s].kind # "topup") =>
               op[s].req \in Requests /\ op[s].key = None /\ op[s].tenant = TenantOf[op[s].req]
        /\ pc[s] \in {"looked", "requery"} => op[s].kind = "topup"
        /\ op[s].kind = "release" => op[s].amount = 0

\* Past the lock and before its end, a transaction owns its tenant's row and
\* the balance it read is still the committed one.
LockDiscipline ==
    \A s \in Sessions : pc[s] \in OwnsLock =>
        lock[op[s].tenant] = s /\ seen[s] = balance[op[s].tenant]

\* A request is admitted by one call, and has no hold before that call commits.
AdmittedOnce ==
    /\ \A s \in Sessions : op[s].kind = "hold" => request[op[s].req] = "admitting"
    /\ \A s, o \in Sessions :
          (op[s].kind = "hold" /\ op[o].kind = "hold" /\ op[s].req = op[o].req) => s = o
    /\ \A t \in Tenants : \A i \in 1..Len(ledger[t]) :
          ledger[t][i].type = "hold" =>
              request[ledger[t][i].req] \notin {"new", "admitting"}

\* Holds take from the balance, releases and top-ups add to it.
SignSound(x) ==
    /\ x.type = "hold" => x.amount <= 0
    /\ x.type \in {"release", "topup"} => x.amount >= 0

\* Committed rows are those of calls.
RowsOwned ==
    \A t \in Tenants : \A i \in 1..Len(ledger[t]) :
        LET x == ledger[t][i] IN
        /\ x.tenant = t /\ SignSound(x)
        /\ IF x.type = "topup" THEN x.req = None /\ x.key \in Keys
           ELSE x.req \in Requests /\ x.key = None /\ TenantOf[x.req] = t

\* What is still true of a staged row when it commits.
StagedRowSound(s) ==
    LET x == row[s]
        t == op[s].tenant
    IN  /\ x \in Row /\ SignSound(x)
        /\ x.type = op[s].kind /\ x.tenant = t /\ x.req = op[s].req /\ x.key = op[s].key
        /\ x.after = balance[t] + x.amount
        /\ x.type = "hold" => x.after >= -Grace[t]
        /\ IsFinalization(x.type) => FindOpenHold(t, x.req) # {}
        /\ x.type = "topup" => FindTopup(x.key) = {} /\ ~KeyContended(s)

StagedSound == \A s \in Sessions : pc[s] = "staged" => StagedRowSound(s)

IInv ==
    /\ TypeOK /\ CallsOwned /\ LockDiscipline /\ AdmittedOnce /\ RowsOwned /\ StagedSound
    /\ BalanceIsLedgerSum /\ FinalizedOnce /\ KeyAppliedOnce /\ OverdraftOnlyByOverrun

\* Calls charge what their callers offered, and a staged row carries the amount
\* its call owes: the hold, the hold less the actual cost, or the top-up.
CallsOffered ==
    \A s \in Sessions :
        /\ op[s].kind = "hold" => op[s].amount \in Estimates
        /\ op[s].kind = "settle" => op[s].amount \in Costs
        /\ op[s].kind = "topup" => op[s].amount \in Amounts

StagedExact ==
    \A s \in Sessions : pc[s] = "staged" =>
        LET x == row[s] IN
        /\ x.type = "hold" => x.amount = -op[s].amount
        /\ x.type = "topup" => x.amount = op[s].amount
        /\ IsFinalization(x.type) =>
               \E h \in FindOpenHold(op[s].tenant, x.req) :
                   x.amount = (-h.amount) - op[s].amount

AmountsSound == CallsOffered /\ StagedExact

\* A row lock is owned by a transaction that is past it and has yet to end, so
\* none outlives its owner.
LocksOwned ==
    \A t \in Tenants : lock[t] # None =>
        pc[lock[t]] \in OwnsLock /\ op[lock[t]].tenant = t

\* A transaction waits for the owner of its row lock, or for the end of the
\* insert that has its key.  Waits are at most two deep and end at a transaction
\* that waits for nobody, so they form no cycle.
WaitsFor(s, o) ==
    \/ pc[s] = "begin" /\ lock[op[s].tenant] = o
    \/ pc[s] = "looked" /\ o # s /\ pc[o] = "staged" /\ row[o].key = op[s].key

Waits(s) == \E o \in Sessions : WaitsFor(s, o)

WaitsEnd ==
    \A s, o, p \in Sessions : WaitsFor(s, o) /\ WaitsFor(o, p) => ~Waits(p)

-----------------------------------------------------------------------------
(* The ledger implements CreditAccount.                                    *)

RowOf(r, types) == {x \in Rows(TenantOf[r]) : x.req = r /\ x.type \in types}

AmountOf(r, types) == (CHOOSE x \in RowOf(r, types) : TRUE).amount

StatusView ==
    [r \in Requests |->
        IF RowOf(r, {"settle"}) # {} THEN "settled"
        ELSE IF RowOf(r, {"release"}) # {} THEN "released"
        ELSE IF RowOf(r, {"hold"}) # {} THEN "open"
        ELSE "none"]

HeldView ==
    [r \in Requests |-> IF RowOf(r, {"hold"}) = {} THEN 0 ELSE -AmountOf(r, {"hold"})]

CostView ==
    [r \in Requests |-> IF RowOf(r, {"settle"}) = {} THEN 0
                        ELSE HeldView[r] - AmountOf(r, {"settle"})]

TopupsView ==
    [k \in Keys |-> IF FindTopup(k) = {} THEN None
                    ELSE LET x == CHOOSE x \in FindTopup(k) : TRUE
                         IN  [tenant |-> x.tenant, amount |-> x.amount]]

Account == INSTANCE CreditAccount WITH
    funds <- balance, status <- StatusView, held <- HeldView, cost <- CostView,
    topups <- TopupsView

AccountRefined == Account!AccountSpec

=============================================================================
