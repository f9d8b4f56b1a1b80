------------------------- MODULE CreditLedgerProofs -------------------------
(***************************************************************************)
(* Proofs about CreditLedger, for any tenants, requests, keys, sessions,   *)
(* amounts and bounds that satisfy CreditAssumption.                       *)
(***************************************************************************)
EXTENDS CreditLedger, TLAPS

\* The invariant splits into what it says of the committed rows and of sessions.
LedgerPart ==
    RowsOwned /\ BalanceIsLedgerSum /\ FinalizedOnce /\ KeyAppliedOnce
        /\ OverdraftOnlyByOverrun

SessionPart == TypeOK /\ CallsOwned /\ LockDiscipline /\ AdmittedOnce /\ StagedSound

\* The invariant in two parts: what a commit changes, and what sessions know.
LEMMA IInvParts == IInv <=> LedgerPart /\ SessionPart
BY DEF IInv, LedgerPart, SessionPart

-----------------------------------------------------------------------------
(* Sequences and queries.                                                  *)

\* Appending a row keeps the earlier rows and adds the new one last.
LEMMA AppendRow ==
    ASSUME NEW S, NEW q \in Seq(S), NEW e \in S
    PROVE  /\ Append(q, e) \in Seq(S)
           /\ Len(Append(q, e)) = Len(q) + 1
           /\ Len(q) \in Nat
           /\ \A i \in 1..Len(q) : Append(q, e)[i] = q[i] /\ q[i] \in S
           /\ Append(q, e)[Len(q) + 1] = e
OBVIOUS

\* The queries depend on the committed rows only.
LEMMA QueriesFrame ==
    ASSUME ledger' = ledger
    PROVE  /\ \A t : Rows(t)' = Rows(t)
           /\ \A t, r : FindOpenHold(t, r)' = FindOpenHold(t, r)
           /\ \A k : FindTopup(k)' = FindTopup(k)
BY DEF Rows, FindOpenHold, Finalized, FindTopup

\* While no row is committed the ledger part stands.
LEMMA LedgerFrame ==
    ASSUME LedgerPart, UNCHANGED <<ledger, balance>>
    PROVE  LedgerPart'
BY DEF LedgerPart, RowsOwned, BalanceIsLedgerSum, RunningSum, BalanceBefore, BalanceCached,
       FinalizedOnce, KeyAppliedOnce, OverdraftOnlyByOverrun, Rows

-----------------------------------------------------------------------------
(* Calls.                                                                  *)

\* A step that opens a transaction keeps the session part.
LEMMA OpenStep ==
    ASSUME LedgerPart, SessionPart, CreditAssumption,
           NEW s \in Sessions, NEW o \in Op, Open(s, o), UNCHANGED answers,
           o.kind = "topup" => o.req = None /\ o.key \in Keys,
           o.kind # "topup" => o.req \in Requests /\ o.key = None /\ o.tenant = TenantOf[o.req],
           o.kind = "release" => o.amount = 0,
           \/ o.kind # "hold" /\ UNCHANGED request
           \/ /\ o.kind = "hold" /\ request[o.req] = "new"
              /\ request' = [request EXCEPT ![o.req] = "admitting"],
           aged' \subseteq Requests, sweep' \in [Sweepers -> SUBSET Requests]
    PROVE  SessionPart'
<1> USE DEF SessionPart
<1>1. TypeOK'
  <2>1. request' \in [Requests -> {"new", "admitting", "refused", "running", "dead"}]
    BY DEF TypeOK
  <2>2. pc' \in [Sessions -> Phases] /\ op' \in [Sessions -> Op \cup {NoOp}]
    BY DEF TypeOK, Open, Phases
  <2>3. QED
    BY <2>1, <2>2 DEF TypeOK, Open
<1>2. CallsOwned'
  BY DEF TypeOK, CallsOwned, Open, NoOp, Op, Phases
<1>3. LockDiscipline'
  BY DEF TypeOK, LockDiscipline, Open, OwnsLock, Phases
<1>4. AdmittedOnce'
  <2>1. \A p \in Sessions : op[p].kind = "hold" => op[p].req \in Requests
    BY DEF CallsOwned, NoOp
  <2>2. ASSUME NEW p \in Sessions, op'[p].kind = "hold"
        PROVE  request'[op'[p].req] = "admitting"
    BY <2>1, <2>2 DEF AdmittedOnce, Open, TypeOK
  <2>3. ASSUME NEW p \in Sessions, NEW q \in Sessions, op'[p].kind = "hold",
               op'[q].kind = "hold", op'[p].req = op'[q].req
        PROVE  p = q
    BY <2>1, <2>3 DEF AdmittedOnce, Open, TypeOK
  <2>4. ASSUME NEW t \in Tenants, NEW i \in 1..Len(ledger'[t]), ledger'[t][i].type = "hold"
        PROVE  request'[ledger'[t][i].req] \notin {"new", "admitting"}
    <3>1. ledger' = ledger
      BY DEF Open
    <3>2. request[ledger[t][i].req] \notin {"new", "admitting"}
      BY <2>4, <3>1 DEF AdmittedOnce
    <3>3. ledger[t][i].req \in Requests
      BY <2>4, <3>1 DEF LedgerPart, RowsOwned
    <3>4. QED
      BY <3>1, <3>2, <3>3 DEF TypeOK
  <2>5. QED
    BY <2>2, <2>3, <2>4 DEF AdmittedOnce
<1>5. StagedSound'
  <2>1. ledger' = ledger /\ balance' = balance /\ row' = row
    BY DEF Open
  <2>2. ASSUME NEW p \in Sessions, pc'[p] = "staged"
        PROVE  /\ pc[p] = "staged" /\ op'[p] = op[p]
               /\ ~KeyContended(p) => ~KeyContended(p)'
    BY <2>2 DEF Open, TypeOK, KeyContended
  <2>3. ASSUME NEW p \in Sessions, pc'[p] = "staged"
        PROVE  StagedRowSound(p)'
    <3>1. StagedRowSound(p)
      BY <2>2, <2>3 DEF StagedSound
    <3>2. QED
      BY <2>1, <2>2, <2>3, <3>1, QueriesFrame DEF StagedRowSound
  <2>4. QED
    BY <2>3 DEF StagedSound
<1>6. QED
  BY <1>1, <1>2, <1>3, <1>4, <1>5

-----------------------------------------------------------------------------
(* The steps inside a transaction.                                         *)

\* Two transactions past the lock are of different tenants.
LEMMA OneOwnerPerRow ==
    ASSUME SessionPart, NEW s \in Sessions, NEW p \in Sessions,
           pc[s] \in OwnsLock, pc[p] \in OwnsLock, op[s].tenant = op[p].tenant
    PROVE  s = p
BY DEF SessionPart, LockDiscipline

\* A call under way has its tenant.
LEMMA CallTyped ==
    ASSUME SessionPart, NEW s \in Sessions, pc[s] # "idle"
    PROVE  /\ op[s] \in Op
           /\ op[s].tenant \in Tenants /\ op[s].amount \in Nat
           /\ op[s].req \in Requests \cup {None} /\ op[s].key \in Keys \cup {None}
<1>1. op[s] \in Op
  BY DEF SessionPart, TypeOK, CallsOwned
<1>2. QED
  BY <1>1 DEF Op

\* Taking the row lock keeps the session part.
LEMMA LockStep ==
    ASSUME SessionPart, CreditAssumption, NEW s \in Sessions, LockBalanceRow(s)
    PROVE  SessionPart'
<1> USE DEF SessionPart
<1>1. op[s].tenant \in Tenants
  BY CallTyped DEF LockBalanceRow
<1>2. TypeOK'
  BY <1>1 DEF TypeOK, LockBalanceRow, Phases
<1>3. CallsOwned'
  BY DEF TypeOK, CallsOwned, LockBalanceRow, Phases
<1>4. LockDiscipline'
  <2>1. ASSUME NEW p \in Sessions, pc'[p] \in OwnsLock
        PROVE  lock'[op'[p].tenant] = p /\ seen'[p] = balance'[op'[p].tenant]
    <3>1. CASE p = s
      BY <1>1, <3>1 DEF LockBalanceRow, TypeOK
    <3>2. CASE p # s
      <4>1. pc[p] \in OwnsLock /\ lock[op[p].tenant] = p /\ seen[p] = balance[op[p].tenant]
        BY <2>1, <3>2 DEF LockBalanceRow, TypeOK, LockDiscipline
      <4>2. op[p].tenant # op[s].tenant
        BY <4>1 DEF LockBalanceRow, CreditAssumption
      <4>3. op[p].tenant \in Tenants
        BY <4>1, CallTyped DEF OwnsLock
      <4>4. QED
        BY <1>1, <3>2, <4>1, <4>2, <4>3 DEF LockBalanceRow, TypeOK
    <3>3. QED
      BY <3>1, <3>2
  <2>2. QED
    BY <2>1 DEF LockDiscipline
<1>5. AdmittedOnce'
  BY DEF AdmittedOnce, LockBalanceRow
<1>6. StagedSound'
  <2>1. ledger' = ledger /\ balance' = balance /\ row' = row /\ op' = op
    BY DEF LockBalanceRow
  <2>2. ASSUME NEW p \in Sessions, pc'[p] = "staged"
        PROVE  pc[p] = "staged" /\ (~KeyContended(p) => ~KeyContended(p)')
    BY <2>2 DEF LockBalanceRow, TypeOK, KeyContended
  <2>3. ASSUME NEW p \in Sessions, pc'[p] = "staged"
        PROVE  StagedRowSound(p)'
    <3>1. StagedRowSound(p)
      BY <2>2, <2>3 DEF StagedSound
    <3>2. QED
      BY <2>1, <2>2, <2>3, <3>1, QueriesFrame DEF StagedRowSound
  <2>4. QED
    BY <2>3 DEF StagedSound
<1>7. QED
  BY <1>2, <1>3, <1>4, <1>5, <1>6

\* Staging a row that fits its call and the committed rows keeps the session part.
LEMMA StageStep ==
    ASSUME SessionPart, CreditAssumption, NEW s \in Sessions, NEW amount \in Int,
           pc[s] \in {"locked", "looked"}, Stage(s, op[s].kind, amount),
           op[s].kind = "hold" => amount <= 0,
           op[s].kind \in {"release", "topup"} => amount >= 0,
           op[s].kind = "hold" => seen[s] + amount >= -Grace[op[s].tenant],
           IsFinalization(op[s].kind) => FindOpenHold(op[s].tenant, op[s].req) # {},
           op[s].kind = "topup" => FindTopup(op[s].key) = {} /\ ~KeyContended(s)
    PROVE  SessionPart'
<1> USE DEF SessionPart
<1>0. /\ op[s] \in Op /\ op[s].tenant \in Tenants /\ seen[s] \in Int
      /\ op[s].req \in Requests \cup {None} /\ op[s].key \in Keys \cup {None}
      /\ op[s].kind \in {"hold", "settle", "release", "topup"}
      /\ seen[s] = balance[op[s].tenant] /\ pc[s] \in OwnsLock /\ pc[s] # "idle"
  <2>1. pc[s] \in OwnsLock /\ pc[s] # "idle"
    BY DEF OwnsLock
  <2>2. op[s] \in Op /\ op[s].tenant \in Tenants
    BY <2>1, CallTyped
  <2>3. QED
    BY <2>1, <2>2, CallTyped DEF TypeOK, LockDiscipline, Op
<1>1. row'[s] = [type |-> op[s].kind, tenant |-> op[s].tenant, amount |-> amount,
                 after |-> seen[s] + amount, req |-> op[s].req, key |-> op[s].key]
  BY DEF Stage, TypeOK
<1>2. row'[s] \in Row
  BY <1>0, <1>1 DEF Row
<1>3. TypeOK'
  BY <1>2 DEF TypeOK, Stage, Phases
<1>4. CallsOwned'
  BY <1>0 DEF TypeOK, CallsOwned, Stage, Phases
<1>5. LockDiscipline'
  BY <1>0 DEF TypeOK, LockDiscipline, Stage, OwnsLock
<1>6. AdmittedOnce'
  BY DEF AdmittedOnce, Stage
<1>7. StagedSound'
  <2>1. UNCHANGED <<ledger, balance, op>>
    BY DEF Stage
  <2>2. ASSUME NEW p \in Sessions, pc'[p] = "staged", p # s
        PROVE  /\ pc[p] = "staged" /\ row'[p] = row[p]
               /\ (row[p].type = "topup" /\ ~KeyContended(p)) => ~KeyContended(p)'
    <3>1. pc[p] = "staged" /\ row'[p] = row[p]
      BY <2>2 DEF Stage, TypeOK
    <3>2. ASSUME row[p].type = "topup", ~KeyContended(p), KeyContended(p)'
          PROVE  FALSE
      <4>1. PICK o \in Sessions \ {p} : pc'[o] = "staged" /\ row'[o].key = op'[p].key
        BY <3>2 DEF KeyContended
      <4>2. CASE o = s
        <5>1. op[s].key = op[p].key
          BY <1>1, <2>1, <4>1, <4>2
        <5>2. row[p].key = op[p].key /\ op[p].kind = "topup"
          BY <3>1, <3>2 DEF StagedSound, StagedRowSound
        <5>3. op[s].kind = "topup"
          <6>1. op[p].key \in Keys /\ op[p].key # None
            BY <5>2 DEF CallsOwned, CreditAssumption
          <6>2. QED
            BY <1>0, <5>1, <6>1 DEF CallsOwned
        <5>4. KeyContended(s)
          BY <2>2, <3>1, <5>1, <5>2 DEF KeyContended
        <5>5. QED
          BY <5>3, <5>4
      <4>3. CASE o # s
        BY <2>1, <3>2, <4>1, <4>3 DEF KeyContended, Stage, TypeOK
      <4>4. QED
        BY <4>2, <4>3
    <3>3. QED
      BY <3>1, <3>2
  <2>3. ~KeyContended(s) => ~KeyContended(s)'
    BY <2>1 DEF KeyContended, Stage, TypeOK
  <2>4. StagedRowSound(s)'
    <3>1. op'[s] = op[s] /\ balance' = balance
      BY <2>1
    <3>2. row'[s].after = balance'[op'[s].tenant] + row'[s].amount
      BY <1>0, <1>1, <3>1
    <3>3. row'[s].type = "hold" => row'[s].after >= -Grace[op'[s].tenant]
      BY <1>1, <3>1
    <3>4. IsFinalization(row'[s].type) => FindOpenHold(op[s].tenant, op[s].req)' # {}
      BY <1>1, <2>1, QueriesFrame
    <3>5. row'[s].type = "topup" => FindTopup(op[s].key)' = {} /\ ~KeyContended(s)'
      BY <1>1, <2>1, <2>3, QueriesFrame
    <3>6. /\ row'[s].type = op'[s].kind /\ row'[s].tenant = op'[s].tenant
          /\ row'[s].req = op'[s].req /\ row'[s].key = op'[s].key
      BY <1>1, <3>1
    <3>7. SignSound(row'[s])
      BY <1>1 DEF SignSound
    <3>8. QED
      BY <1>2, <3>2, <3>3, <3>4, <3>5, <3>6, <3>7 DEF StagedRowSound
  <2>5. ASSUME NEW p \in Sessions, pc'[p] = "staged", p # s
        PROVE  StagedRowSound(p)'
    <3>1. StagedRowSound(p)
      BY <2>2, <2>5 DEF StagedSound
    <3>2. QED
      BY <2>1, <2>2, <2>5, <3>1, QueriesFrame DEF StagedRowSound
  <2>6. QED
    BY <2>4, <2>5 DEF StagedSound
<1>8. QED
  BY <1>3, <1>4, <1>5, <1>6, <1>7

\* Ending a transaction without a commit keeps the session part; an admission
\* that ends is decided.
LEMMA CloseStep ==
    ASSUME LedgerPart, SessionPart, CreditAssumption, NEW s \in Sessions,
           pc[s] # "idle", Close(s), UNCHANGED <<balance, ledger, aged, sweep>>,
           answers' \subseteq Answer, faults' \in 0..MaxFaults,
           NEW d \in {"refused", "running"},
           request' = [r \in Requests |->
                         IF op[s].kind = "hold" /\ op[s].req = r THEN d ELSE request[r]]
    PROVE  SessionPart'
<1> USE DEF SessionPart
<1>1. TypeOK'
  <2>1. lock' \in [Tenants -> Sessions \cup {None}]
    BY DEF TypeOK, Close, Unlock
  <2>2. request' \in [Requests -> {"new", "admitting", "refused", "running", "dead"}]
    BY DEF TypeOK
  <2>3. QED
    BY <2>1, <2>2 DEF TypeOK, Close, Phases
<1>2. CallsOwned'
  BY DEF TypeOK, CallsOwned, Close, NoOp
<1>3. LockDiscipline'
  <2>1. ASSUME NEW p \in Sessions, pc'[p] \in OwnsLock
        PROVE  lock'[op'[p].tenant] = p /\ seen'[p] = balance'[op'[p].tenant]
    <3>1. p # s
      BY <2>1 DEF Close, TypeOK, OwnsLock
    <3>2. pc[p] \in OwnsLock /\ op'[p] = op[p] /\ seen'[p] = seen[p]
      BY <2>1, <3>1 DEF Close, TypeOK
    <3>3. lock[op[p].tenant] = p /\ op[p].tenant \in Tenants
      BY <3>2, CallTyped DEF LockDiscipline, OwnsLock
    <3>4. lock'[op[p].tenant] = p
      BY <3>1, <3>3 DEF Close, Unlock
    <3>5. QED
      BY <3>2, <3>4 DEF LockDiscipline
  <2>2. QED
    BY <2>1 DEF LockDiscipline
<1>4. AdmittedOnce'
  <2>1. ASSUME NEW p \in Sessions, op'[p].kind = "hold"
        PROVE  p # s /\ op[p].kind = "hold" /\ op'[p] = op[p] /\ op[p].req \in Requests
    <3>1. p # s
      BY <2>1 DEF Close, TypeOK, NoOp
    <3>2. op'[p] = op[p]
      BY <3>1 DEF Close, TypeOK
    <3>3. QED
      BY <2>1, <3>1, <3>2 DEF CallsOwned, NoOp
  <2>2. ASSUME NEW p \in Sessions, op'[p].kind = "hold"
        PROVE  request'[op'[p].req] = "admitting"
    BY <2>1, <2>2 DEF AdmittedOnce
  <2>3. ASSUME NEW t \in Tenants, NEW i \in 1..Len(ledger'[t]), ledger'[t][i].type = "hold"
        PROVE  request'[ledger'[t][i].req] \notin {"new", "admitting"}
    <3>1. request[ledger[t][i].req] \notin {"new", "admitting"} /\ ledger[t][i].req \in Requests
      BY <2>3 DEF AdmittedOnce, LedgerPart, RowsOwned
    <3>2. QED
      BY <3>1
  <2>4. ASSUME NEW p \in Sessions, NEW q \in Sessions, op'[p].kind = "hold",
               op'[q].kind = "hold", op'[p].req = op'[q].req
        PROVE  p = q
    BY <2>1, <2>4 DEF AdmittedOnce
  <2>5. QED
    BY <2>2, <2>3, <2>4 DEF AdmittedOnce
<1>5. StagedSound'
  <2>0. ledger' = ledger /\ balance' = balance
    OBVIOUS
  <2>1. ASSUME NEW p \in Sessions, pc'[p] = "staged"
        PROVE  /\ pc[p] = "staged" /\ op'[p] = op[p] /\ row'[p] = row[p]
               /\ ~KeyContended(p) => ~KeyContended(p)'
    BY <2>1 DEF Close, TypeOK, KeyContended
  <2>2. ASSUME NEW p \in Sessions, pc'[p] = "staged"
        PROVE  StagedRowSound(p)'
    <3>1. StagedRowSound(p)
      BY <2>1, <2>2 DEF StagedSound
    <3>2. QED
      BY <2>0, <2>1, <2>2, <3>1, QueriesFrame DEF StagedRowSound
  <2>3. QED
    BY <2>2 DEF StagedSound
<1>6. QED
  BY <1>1, <1>2, <1>3, <1>4, <1>5

\* A step that moves one session, keeping its call, and touches neither ledger
\* nor requests: the pre-check's miss and the lost insert.
LEMMA LookupMissStep ==
    ASSUME SessionPart, NEW s \in Sessions, LookupMiss(s)
    PROVE  SessionPart'
<1> USE DEF SessionPart
<1>1. TypeOK'
  BY DEF TypeOK, LookupMiss, Phases
<1>2. CallsOwned'
  BY DEF CallsOwned, LookupMiss, TypeOK
<1>3. LockDiscipline'
  BY DEF LockDiscipline, LookupMiss, TypeOK, OwnsLock
<1>4. AdmittedOnce'
  BY DEF AdmittedOnce, LookupMiss
<1>5. StagedSound'
  <2>1. ledger' = ledger /\ balance' = balance /\ row' = row /\ op' = op
    BY DEF LookupMiss
  <2>2. ASSUME NEW p \in Sessions, pc'[p] = "staged"
        PROVE  pc[p] = "staged" /\ (~KeyContended(p) => ~KeyContended(p)')
    BY <2>2 DEF LookupMiss, TypeOK, KeyContended
  <2>3. ASSUME NEW p \in Sessions, pc'[p] = "staged"
        PROVE  StagedRowSound(p)'
    <3>1. StagedRowSound(p)
      BY <2>2, <2>3 DEF StagedSound
    <3>2. QED
      BY <2>1, <2>2, <2>3, <3>1, QueriesFrame DEF StagedRowSound
  <2>4. QED
    BY <2>3 DEF StagedSound
<1>6. QED
  BY <1>1, <1>2, <1>3, <1>4, <1>5

\* A top-up that loses the unique index keeps what sessions know (IntegrityError).
LEMMA InsertConflictStep ==
    ASSUME SessionPart, NEW s \in Sessions, InsertConflict(s)
    PROVE  SessionPart'
<1> USE DEF SessionPart
<1>1. TypeOK'
  BY DEF TypeOK, InsertConflict, Unlock, Phases
<1>2. CallsOwned'
  BY DEF CallsOwned, InsertConflict, TypeOK
<1>3. LockDiscipline'
  <2>1. ASSUME NEW p \in Sessions, pc'[p] \in OwnsLock
        PROVE  lock'[op'[p].tenant] = p /\ seen'[p] = balance'[op'[p].tenant]
    <3>1. p # s
      BY <2>1 DEF InsertConflict, TypeOK, OwnsLock
    <3>2. pc[p] \in OwnsLock /\ op'[p] = op[p] /\ seen'[p] = seen[p]
      BY <2>1, <3>1 DEF InsertConflict, TypeOK
    <3>3. lock[op[p].tenant] = p /\ op[p].tenant \in Tenants
      BY <3>2, CallTyped DEF LockDiscipline, OwnsLock
    <3>4. lock'[op[p].tenant] = p /\ balance' = balance
      BY <3>1, <3>3 DEF InsertConflict, Unlock
    <3>5. QED
      BY <3>2, <3>4 DEF LockDiscipline
  <2>2. QED
    BY <2>1 DEF LockDiscipline
<1>4. AdmittedOnce'
  BY DEF AdmittedOnce, InsertConflict
<1>5. StagedSound'
  <2>1. ledger' = ledger /\ balance' = balance /\ row' = row /\ op' = op
    BY DEF InsertConflict
  <2>2. ASSUME NEW p \in Sessions, pc'[p] = "staged"
        PROVE  pc[p] = "staged" /\ (~KeyContended(p) => ~KeyContended(p)')
    BY <2>2 DEF InsertConflict, TypeOK, KeyContended
  <2>3. ASSUME NEW p \in Sessions, pc'[p] = "staged"
        PROVE  StagedRowSound(p)'
    <3>1. StagedRowSound(p)
      BY <2>2, <2>3 DEF StagedSound
    <3>2. QED
      BY <2>1, <2>2, <2>3, <3>1, QueriesFrame DEF StagedRowSound
  <2>4. QED
    BY <2>3 DEF StagedSound
<1>6. QED
  BY <1>1, <1>2, <1>3, <1>4, <1>5

-----------------------------------------------------------------------------
(* A commit.                                                               *)

\* What a commit does to the tenant's ledger and balance, and what is known of
\* the row it publishes.
LEMMA ApplyFacts ==
    ASSUME SessionPart, NEW s \in Sessions, Apply(s)
    PROVE  LET t == op[s].tenant
               n == Len(ledger[t])
           IN  /\ t \in Tenants /\ row[s] \in Row /\ StagedRowSound(s)
               /\ n \in Nat
               /\ Len(ledger'[t]) = n + 1
               /\ \A i \in 1..n : ledger'[t][i] = ledger[t][i] /\ ledger[t][i] \in Row
               /\ ledger'[t][n + 1] = row[s]
               /\ ledger' \in [Tenants -> Seq(Row)]
               /\ \A u \in Tenants \ {t} : ledger'[u] = ledger[u] /\ balance'[u] = balance[u]
               /\ balance'[t] = row[s].after
<1> DEFINE t == op[s].tenant
<1>1. pc[s] = "staged" /\ t \in Tenants
  BY CallTyped DEF Apply
<1>2. StagedRowSound(s) /\ row[s] \in Row
  BY <1>1 DEF SessionPart, StagedSound, StagedRowSound
<1>3. ledger[t] \in Seq(Row) /\ ledger'[t] = Append(ledger[t], row[s])
  BY <1>1 DEF SessionPart, TypeOK, Apply
<1>4. /\ Len(ledger[t]) \in Nat /\ Len(ledger'[t]) = Len(ledger[t]) + 1
      /\ \A i \in 1..Len(ledger[t]) : ledger'[t][i] = ledger[t][i] /\ ledger[t][i] \in Row
      /\ ledger'[t][Len(ledger[t]) + 1] = row[s]
      /\ ledger'[t] \in Seq(Row)
  BY <1>2, <1>3, AppendRow
<1>5. /\ \A u \in Tenants \ {t} : ledger'[u] = ledger[u] /\ balance'[u] = balance[u]
      /\ balance'[t] = row[s].after
  BY <1>1 DEF SessionPart, TypeOK, Apply
<1>6. ledger' \in [Tenants -> Seq(Row)]
  BY <1>1, <1>4, <1>5 DEF SessionPart, TypeOK, Apply
<1>7. QED
  BY <1>1, <1>2, <1>4, <1>5, <1>6

\* The tenant's set of rows gains exactly the committed row.
LEMMA RowsGrow ==
    ASSUME SessionPart, NEW s \in Sessions, Apply(s), NEW t, t = op[s].tenant
    PROVE  /\ Rows(t)' = Rows(t) \cup {row[s]}
           /\ \A u \in Tenants \ {t} : Rows(u)' = Rows(u)
<1> DEFINE n == Len(ledger[t])
<1>1. /\ n \in Nat /\ Len(ledger'[t]) = n + 1 /\ ledger'[t][n + 1] = row[s]
      /\ \A i \in 1..n : ledger'[t][i] = ledger[t][i]
      /\ \A u \in Tenants \ {t} : ledger'[u] = ledger[u]
  BY ApplyFacts
<1> HIDE DEF n
<1>2. ASSUME NEW x, x \in Rows(t)'
      PROVE  x \in Rows(t) \cup {row[s]}
  <2>1. PICK i \in 1..(n + 1) : x = ledger'[t][i]
    BY <1>1, <1>2 DEF Rows
  <2>2. CASE i \in 1..n
    BY <1>1, <2>1, <2>2 DEF Rows, n
  <2>3. CASE i = n + 1
    BY <1>1, <2>1, <2>3
  <2>4. QED
    BY <1>1, <2>2, <2>3
<1>3. ASSUME NEW x \in Rows(t)
      PROVE  x \in Rows(t)'
  <2>1. PICK i \in 1..n : x = ledger[t][i]
    BY <1>3 DEF Rows, n
  <2>2. x = ledger'[t][i] /\ i \in 1..(n + 1)
    BY <1>1, <2>1
  <2>3. QED
    BY <1>1, <2>2 DEF Rows
<1>4. row[s] \in Rows(t)'
  <2>1. n + 1 \in 1..(n + 1)
    BY <1>1
  <2>2. QED
    BY <1>1, <2>1 DEF Rows
<1>5. \A u \in Tenants \ {t} : Rows(u)' = Rows(u)
  BY <1>1 DEF Rows
<1>6. QED
  BY <1>2, <1>3, <1>4, <1>5

\* Every row after a commit is the committed one or was there, at its place.
LEMMA EntryOldOrNew ==
    ASSUME SessionPart, NEW s \in Sessions, Apply(s), NEW t, t = op[s].tenant,
           NEW n, n = Len(ledger[t]),
           NEW u \in Tenants, NEW i \in 1..Len(ledger'[u])
    PROVE  \/ u = t /\ i = n + 1 /\ ledger'[u][i] = row[s]
           \/ /\ i \in 1..Len(ledger[u]) /\ ledger'[u][i] = ledger[u][i]
              /\ u = t => i \in 1..n
<1>1. /\ n \in Nat /\ Len(ledger'[t]) = n + 1 /\ ledger'[t][n + 1] = row[s]
      /\ \A k \in 1..n : ledger'[t][k] = ledger[t][k]
      /\ \A w \in Tenants \ {t} : ledger'[w] = ledger[w]
  BY ApplyFacts
<1>2. CASE u = t /\ i = n + 1
  BY <1>1, <1>2
<1>3. CASE u = t /\ i \in 1..n
  BY <1>1, <1>3
<1>4. CASE u # t
  BY <1>1, <1>4
<1>5. QED
  BY <1>1, <1>2, <1>3, <1>4

\* What a commit publishes, by the kind of its call.
LEMMA CommittedRow ==
    ASSUME SessionPart, CreditAssumption, NEW s \in Sessions, Apply(s),
           NEW t, t = op[s].tenant, NEW x, x = row[s]
    PROVE  /\ t \in Tenants /\ x \in Row /\ x.type = op[s].kind /\ x.tenant = t
           /\ x.req = op[s].req /\ x.key = op[s].key
           /\ x.type \in {"hold", "settle", "release", "topup"}
           /\ x.amount \in Int /\ x.after \in Int /\ balance[t] \in Int /\ Grace[t] \in Nat
           /\ x.after = balance[t] + x.amount /\ balance'[t] = x.after /\ SignSound(x)
           /\ x.type = "hold" => x.after >= -Grace[t]
           /\ x.type = "topup" => x.req = None /\ x.key \in Keys
           /\ x.type # "topup" => x.req \in Requests /\ x.key = None /\ TenantOf[x.req] = t
<1>1. t \in Tenants /\ x \in Row /\ StagedRowSound(s) /\ balance'[t] = x.after
  BY ApplyFacts
<1>2. /\ x.type = op[s].kind /\ x.tenant = t /\ x.req = op[s].req /\ x.key = op[s].key
      /\ x.after = balance[t] + x.amount /\ SignSound(x)
      /\ x.type = "hold" => x.after >= -Grace[t]
  BY <1>1 DEF StagedRowSound
<1>3. pc[s] = "staged"
  BY DEF Apply
<1>4. /\ op[s].kind = "topup" => op[s].req = None /\ op[s].key \in Keys
      /\ op[s].kind # "topup" =>
           op[s].req \in Requests /\ op[s].key = None /\ op[s].tenant = TenantOf[op[s].req]
  BY <1>3 DEF SessionPart, CallsOwned
<1>5. /\ x.type \in {"hold", "settle", "release", "topup"} /\ x.amount \in Int
      /\ x.after \in Int /\ balance[t] \in Int /\ Grace[t] \in Nat
  BY <1>1 DEF Row, SessionPart, TypeOK, CreditAssumption
<1>6. QED
  BY <1>1, <1>2, <1>4, <1>5

\* Commits keep what each part of the invariant says of the committed rows.
LEMMA ApplyRowsOwned ==
    ASSUME RowsOwned, SessionPart, CreditAssumption, NEW s \in Sessions, Apply(s)
    PROVE  RowsOwned'
<1> SUFFICES ASSUME NEW t, t = op[s].tenant, NEW n, n = Len(ledger[t]), NEW x, x = row[s],
                    NEW u \in Tenants, NEW i \in 1..Len(ledger'[u])
             PROVE  /\ ledger'[u][i].tenant = u /\ SignSound(ledger'[u][i])
                    /\ IF ledger'[u][i].type = "topup"
                       THEN ledger'[u][i].req = None /\ ledger'[u][i].key \in Keys
                       ELSE /\ ledger'[u][i].req \in Requests /\ ledger'[u][i].key = None
                            /\ TenantOf[ledger'[u][i].req] = u
  BY DEF RowsOwned
<1>1. CASE u = t /\ ledger'[u][i] = x
  BY <1>1, CommittedRow
<1>2. CASE i \in 1..Len(ledger[u]) /\ ledger'[u][i] = ledger[u][i]
  BY <1>2 DEF RowsOwned
<1>3. QED
  BY <1>1, <1>2, EntryOldOrNew

\* A commit keeps the balance the sum of the ledger: its row carries the amount.
LEMMA ApplyBalance ==
    ASSUME BalanceIsLedgerSum, SessionPart, CreditAssumption, NEW s \in Sessions, Apply(s)
    PROVE  BalanceIsLedgerSum'
<1> SUFFICES ASSUME NEW t, t = op[s].tenant, NEW n, n = Len(ledger[t]), NEW x, x = row[s]
             PROVE  BalanceIsLedgerSum'
  OBVIOUS
<1>1. /\ n \in Nat /\ Len(ledger'[t]) = n + 1 /\ ledger'[t][n + 1] = x
      /\ \A i \in 1..n : ledger'[t][i] = ledger[t][i]
      /\ ledger[t] \in Seq(Row)
  BY ApplyFacts DEF SessionPart, TypeOK
<1>2. \A u \in Tenants : u # t => ledger'[u] = ledger[u] /\ balance'[u] = balance[u]
  BY ApplyFacts
<1>3. x.after = balance[t] + x.amount /\ balance'[t] = x.after /\ t \in Tenants
  BY CommittedRow
<1>4. ASSUME NEW u \in Tenants, NEW i \in 1..Len(ledger'[u])
      PROVE  ledger'[u][i].after = BalanceBefore(u, i)' + ledger'[u][i].amount
  <2>1. CASE u # t
    <3>1. ledger'[u] = ledger[u]
      BY <1>2, <2>1
    <3>2. QED
      BY <3>1 DEF BalanceIsLedgerSum, RunningSum, BalanceBefore
  <2>2. CASE u = t /\ i \in 1..n
    <3>1. i = 1 \/ i - 1 \in 1..n
      BY <1>1, <2>2
    <3>2. BalanceBefore(u, i)' = BalanceBefore(u, i)
      BY <1>1, <2>2, <3>1 DEF BalanceBefore
    <3>3. QED
      BY <1>1, <2>2, <3>2 DEF BalanceIsLedgerSum, RunningSum
  <2>3. CASE u = t /\ i = n + 1
    <3>1. BalanceBefore(u, i)' = IF n = 0 THEN 0 ELSE ledger[t][n].after
      BY <1>1, <2>3 DEF BalanceBefore
    <3>2. n = 0 <=> ledger[t] = << >>
      BY <1>1
    <3>3. balance[t] = BalanceBefore(u, i)'
      BY <1>3, <3>1, <3>2 DEF BalanceIsLedgerSum, BalanceCached
    <3>4. QED
      BY <1>1, <1>3, <2>3, <3>3
  <2>4. QED
    BY <1>1, <2>1, <2>2, <2>3
<1>5. ASSUME NEW u \in Tenants
      PROVE  balance'[u] = IF ledger'[u] = << >> THEN 0 ELSE ledger'[u][Len(ledger'[u])].after
  <2>1. CASE u # t
    BY <1>2, <2>1 DEF BalanceIsLedgerSum, BalanceCached
  <2>2. CASE u = t
    <3>1. ledger'[t] # << >>
      BY <1>1
    <3>2. QED
      BY <1>1, <1>3, <2>2, <3>1
  <2>3. QED
    BY <2>1, <2>2
<1>6. QED
  BY <1>4, <1>5 DEF BalanceIsLedgerSum, RunningSum, BalanceCached

\* A commit keeps each key applied once: the index lets one insert of a key through.
LEMMA ApplyKeys ==
    ASSUME KeyAppliedOnce, RowsOwned, SessionPart, CreditAssumption,
           NEW s \in Sessions, Apply(s)
    PROVE  KeyAppliedOnce'
<1>0. row[s].type # "topup" => row[s].key = None
  BY CommittedRow
<1> SUFFICES ASSUME NEW u \in Tenants, NEW v \in Tenants,
                    NEW i \in 1..Len(ledger'[u]), NEW j \in 1..Len(ledger'[v]),
                    ledger'[u][i].key # None, ledger'[u][i].key = ledger'[v][j].key
             PROVE  u = v /\ i = j
  BY DEF KeyAppliedOnce
<1> SUFFICES ASSUME NEW t, t = op[s].tenant, NEW n, n = Len(ledger[t]), NEW x, x = row[s]
             PROVE  u = v /\ i = j
  OBVIOUS
<1>1. ASSUME NEW w \in Tenants, NEW k \in 1..Len(ledger[w]), ledger[w][k].key = x.key,
             x.key # None
      PROVE  FALSE
  <2>0. x.type = "topup"
    BY <1>0, <1>1
  <2>1. FindTopup(x.key) = {}
    <3>1. StagedRowSound(s)
      BY ApplyFacts
    <3>2. QED
      BY <2>0, <3>1 DEF StagedRowSound
  <2>2. ledger[w][k].type = "topup"
    BY <1>1, CommittedRow DEF RowsOwned, CreditAssumption
  <2>3. ledger[w][k] \in FindTopup(x.key)
    BY <1>1, <2>2 DEF FindTopup, Rows
  <2>4. QED
    BY <2>1, <2>3
<1>2. CASE ledger'[u][i] = x /\ ledger'[v][j] = x /\ u = t /\ v = t /\ i = n + 1 /\ j = n + 1
  BY <1>2
<1>3. CASE ledger'[u][i] = x /\ j \in 1..Len(ledger[v]) /\ ledger'[v][j] = ledger[v][j]
  BY <1>1, <1>3
<1>4. CASE ledger'[v][j] = x /\ i \in 1..Len(ledger[u]) /\ ledger'[u][i] = ledger[u][i]
  BY <1>1, <1>4
<1>5. CASE /\ i \in 1..Len(ledger[u]) /\ ledger'[u][i] = ledger[u][i]
           /\ j \in 1..Len(ledger[v]) /\ ledger'[v][j] = ledger[v][j]
  BY <1>5 DEF KeyAppliedOnce
<1>6. QED
  BY <1>2, <1>3, <1>4, <1>5, EntryOldOrNew

\* A commit takes a balance below the grace only by a settle above its hold.
LEMMA ApplyOverdraft ==
    ASSUME OverdraftOnlyByOverrun, SessionPart, CreditAssumption,
           NEW s \in Sessions, Apply(s)
    PROVE  OverdraftOnlyByOverrun'
<1> SUFFICES ASSUME NEW t, t = op[s].tenant, NEW x, x = row[s],
                    NEW u \in Tenants, balance'[u] < -Grace[u]
             PROVE  \E y \in Rows(u)' : y.type = "settle" /\ y.amount < 0
  BY DEF OverdraftOnlyByOverrun
<1>1. Rows(t)' = Rows(t) \cup {x} /\ \A w \in Tenants \ {t} : Rows(w)' = Rows(w)
  BY RowsGrow
<1>2. CASE u # t
  <2>1. balance'[u] = balance[u]
    BY <1>2, ApplyFacts
  <2>2. QED
    BY <1>1, <1>2, <2>1 DEF OverdraftOnlyByOverrun
<1>3. CASE u = t /\ x.type = "settle" /\ x.amount < 0
  BY <1>1, <1>3
<1>4. CASE u = t /\ ~(x.type = "settle" /\ x.amount < 0)
  <2>1. x.amount >= 0
    BY <1>4, CommittedRow DEF SignSound
  <2>2. balance[t] < -Grace[t]
    BY <1>4, <2>1, CommittedRow
  <2>3. QED
    BY <1>1, <1>4, <2>2 DEF OverdraftOnlyByOverrun
<1>5. QED
  BY <1>2, <1>3, <1>4

\* A commit keeps each hold finalised at most once: the lock covers look and insert.
LEMMA ApplyFinalized ==
    ASSUME FinalizedOnce, SessionPart, CreditAssumption, NEW s \in Sessions, Apply(s)
    PROVE  FinalizedOnce'
<1> SUFFICES ASSUME NEW t, t = op[s].tenant, NEW n, n = Len(ledger[t]), NEW x, x = row[s]
             PROVE  FinalizedOnce'
  OBVIOUS
<1>0. n \in Nat /\ t \in Tenants
  BY ApplyFacts
<1>1. ASSUME NEW i \in 1..n, ledger[t][i].req = x.req
      PROVE  /\ ~(ledger[t][i].type = "hold" /\ x.type = "hold")
             /\ ~(IsFinalization(ledger[t][i].type) /\ IsFinalization(x.type))
  <2>1. ledger[t][i] \in Rows(t)
    BY DEF Rows
  <2>2. ASSUME ledger[t][i].type = "hold", x.type = "hold"
        PROVE  FALSE
    <3>1. request[x.req] \notin {"new", "admitting"}
      BY <1>0, <1>1, <2>2 DEF SessionPart, AdmittedOnce
    <3>2. op[s].kind = "hold" /\ op[s].req = x.req
      BY <2>2, CommittedRow
    <3>3. request[x.req] = "admitting"
      BY <3>2 DEF SessionPart, AdmittedOnce
    <3>4. QED
      BY <3>1, <3>3
  <2>3. ASSUME IsFinalization(ledger[t][i].type), IsFinalization(x.type)
        PROVE  FALSE
    <3>1. FindOpenHold(t, x.req) # {}
      BY <2>3, ApplyFacts DEF StagedRowSound
    <3>2. QED
      BY <1>1, <2>1, <2>3, <3>1 DEF FindOpenHold, Finalized, IsFinalization
  <2>4. QED
    BY <2>2, <2>3
<1>2. ASSUME IsFinalization(x.type)
      PROVE  \E h \in 1..n : ledger[t][h].type = "hold" /\ ledger[t][h].req = x.req
  <2>1. FindOpenHold(t, x.req) # {}
    BY <1>2, ApplyFacts DEF StagedRowSound
  <2>2. QED
    BY <2>1 DEF FindOpenHold, Rows
<1>3. \A h \in 1..n : ledger'[t][h] = ledger[t][h]
  BY ApplyFacts
<1>4. ASSUME NEW u \in Tenants, NEW i \in 1..Len(ledger'[u]), ledger'[u][i].req # None
      PROVE  TenantOf[ledger'[u][i].req] = u
  <2>1. CASE u = t /\ ledger'[u][i] = x
    BY <1>4, <2>1, CommittedRow
  <2>2. CASE i \in 1..Len(ledger[u]) /\ ledger'[u][i] = ledger[u][i]
    BY <1>4, <2>2 DEF FinalizedOnce
  <2>3. QED
    BY <2>1, <2>2, EntryOldOrNew
<1>5. ASSUME NEW u \in Tenants, NEW i \in 1..Len(ledger'[u]), IsFinalization(ledger'[u][i].type)
      PROVE  \E h \in 1..(i - 1) : /\ ledger'[u][h].type = "hold"
                                   /\ ledger'[u][h].req = ledger'[u][i].req
  <2>1. CASE u = t /\ i = n + 1 /\ ledger'[u][i] = x
    <3>1. PICK h \in 1..n : ledger[t][h].type = "hold" /\ ledger[t][h].req = x.req
      BY <1>2, <1>5, <2>1
    <3>2. h \in 1..(i - 1)
      BY <1>0, <2>1
    <3>3. QED
      BY <1>3, <2>1, <3>1, <3>2
  <2>2. CASE i \in 1..Len(ledger[u]) /\ ledger'[u][i] = ledger[u][i] /\ (u = t => i \in 1..n)
    <3>1. PICK h \in 1..(i - 1) : ledger[u][h].type = "hold" /\ ledger[u][h].req = ledger[u][i].req
      BY <1>5, <2>2 DEF FinalizedOnce, IsFinalization
    <3>2. ledger'[u][h] = ledger[u][h]
      <4>1. CASE u # t
        BY <4>1, ApplyFacts
      <4>2. CASE u = t
        BY <1>0, <1>3, <2>2, <4>2
      <4>3. QED
        BY <4>1, <4>2
    <3>3. QED
      BY <2>2, <3>1, <3>2
  <2>3. QED
    BY <2>1, <2>2, EntryOldOrNew
<1>6. ASSUME NEW u \in Tenants, NEW i \in 1..Len(ledger'[u]), NEW j \in 1..Len(ledger'[u]),
             ledger'[u][i].req = ledger'[u][j].req,
             \/ ledger'[u][i].type = "hold" /\ ledger'[u][j].type = "hold"
             \/ IsFinalization(ledger'[u][i].type) /\ IsFinalization(ledger'[u][j].type)
      PROVE  i = j
  <2>1. CASE u = t /\ i = n + 1 /\ j = n + 1
    BY <2>1
  <2>2. CASE u = t /\ ledger'[u][i] = x /\ j \in 1..n /\ ledger'[u][j] = ledger[u][j]
    BY <1>1, <1>6, <2>2
  <2>3. CASE u = t /\ ledger'[u][j] = x /\ i \in 1..n /\ ledger'[u][i] = ledger[u][i]
    BY <1>1, <1>6, <2>3
  <2>4. CASE /\ i \in 1..Len(ledger[u]) /\ ledger'[u][i] = ledger[u][i]
             /\ j \in 1..Len(ledger[u]) /\ ledger'[u][j] = ledger[u][j]
    BY <1>6, <2>4 DEF FinalizedOnce, IsFinalization
  <2>5. QED
    BY <2>1, <2>2, <2>3, <2>4, EntryOldOrNew
<1>7. QED
  BY <1>4, <1>5, <1>6 DEF FinalizedOnce, IsFinalization

\* What a commit leaves of the other staged transactions.
LEMMA OtherStaged ==
    ASSUME SessionPart, CreditAssumption, NEW s \in Sessions, Apply(s),
           NEW p \in Sessions, pc'[p] = "staged",
           NEW u, u = op[p].tenant, NEW r, NEW k, k = op[p].key
    PROVE  /\ p # s /\ pc[p] = "staged" /\ op'[p] = op[p] /\ row'[p] = row[p]
           /\ u \in Tenants /\ u # op[s].tenant /\ balance'[u] = balance[u]
           /\ FindOpenHold(u, r)' = FindOpenHold(u, r)
           /\ (FindTopup(k) = {} /\ ~KeyContended(p)) => FindTopup(k)' = {}
           /\ ~KeyContended(p) => ~KeyContended(p)'
<1>1. p # s /\ pc[p] = "staged" /\ op'[p] = op[p] /\ row'[p] = row[p]
  BY DEF Apply, Close, SessionPart, TypeOK
<1>2. pc[s] = "staged" /\ {pc[s], pc[p]} \subseteq OwnsLock
  BY <1>1 DEF Apply, OwnsLock
<1>3. u \in Tenants
  BY <1>1, CallTyped
<1>4. u # op[s].tenant
  BY <1>1, <1>2, OneOwnerPerRow
<1>5. balance'[u] = balance[u] /\ ledger'[u] = ledger[u]
  BY <1>3, <1>4, ApplyFacts
<1>6. FindOpenHold(u, r)' = FindOpenHold(u, r)
  BY <1>5 DEF FindOpenHold, Finalized, Rows
<1>7. ASSUME FindTopup(k) = {}, ~KeyContended(p), NEW x \in FindTopup(k)'
      PROVE  FALSE
  <2>1. PICK v \in Tenants : x \in Rows(v)'
    BY <1>7 DEF FindTopup
  <2>2. x.type = "topup" /\ x.key = k
    BY <1>7 DEF FindTopup
  <2>3. x = row[s] \/ x \in Rows(v)
    BY <2>1, RowsGrow
  <2>4. x \notin Rows(v)
    BY <1>7, <2>2 DEF FindTopup
  <2>5. row[s].key = op[p].key
    BY <2>2, <2>3, <2>4
  <2>6. KeyContended(p)
    BY <1>1, <1>2, <2>5 DEF KeyContended
  <2>7. QED
    BY <1>7, <2>6
<1>8. ~KeyContended(p) => ~KeyContended(p)'
  BY <1>1 DEF Apply, Close, SessionPart, TypeOK, KeyContended
<1>9. QED
  BY <1>1, <1>3, <1>4, <1>5, <1>6, <1>7, <1>8

\* A commit keeps what the other sessions know true of their own tenants.
LEMMA ApplySessionPart ==
    ASSUME LedgerPart, SessionPart, CreditAssumption, NEW s \in Sessions, Apply(s),
           answers' \subseteq Answer, faults' \in 0..MaxFaults
    PROVE  SessionPart'
<1> USE DEF SessionPart
<1>1. pc[s] = "staged" /\ Close(s) /\ UNCHANGED <<aged, sweep>>
  BY DEF Apply
<1>2. TypeOK'
  <2>1. lock' \in [Tenants -> Sessions \cup {None}]
    BY <1>1 DEF TypeOK, Close, Unlock
  <2>2. request' \in [Requests -> {"new", "admitting", "refused", "running", "dead"}]
    BY DEF TypeOK, Apply
  <2>3. ledger' \in [Tenants -> Seq(Row)] /\ row[s] \in Row
    BY ApplyFacts
  <2>4. balance' \in [Tenants -> Int]
    BY <2>3 DEF TypeOK, Apply, Row
  <2>5. QED
    BY <1>1, <2>1, <2>2, <2>3, <2>4 DEF TypeOK, Close, Phases
<1>3. CallsOwned'
  BY <1>1 DEF TypeOK, CallsOwned, Close, NoOp
<1>4. LockDiscipline'
  <2>1. ASSUME NEW p \in Sessions, pc'[p] \in OwnsLock
        PROVE  lock'[op'[p].tenant] = p /\ seen'[p] = balance'[op'[p].tenant]
    <3>1. p # s
      BY <1>1, <2>1 DEF Close, TypeOK, OwnsLock
    <3>2. pc[p] \in OwnsLock /\ op'[p] = op[p] /\ seen'[p] = seen[p]
      BY <1>1, <2>1, <3>1 DEF Close, TypeOK
    <3>3. lock[op[p].tenant] = p /\ seen[p] = balance[op[p].tenant] /\ op[p].tenant \in Tenants
      BY <3>2, CallTyped DEF LockDiscipline, OwnsLock
    <3>4. lock'[op[p].tenant] = p
      BY <1>1, <3>1, <3>3 DEF Close, Unlock
    <3>5. op[p].tenant # op[s].tenant
      BY <1>1, <3>1, <3>2, OneOwnerPerRow DEF OwnsLock
    <3>6. balance'[op[p].tenant] = balance[op[p].tenant]
      BY <3>3, <3>5, ApplyFacts
    <3>7. QED
      BY <3>2, <3>3, <3>4, <3>6
  <2>2. QED
    BY <2>1 DEF LockDiscipline
<1>5. AdmittedOnce'
  <2>1. request' = [r \in Requests |->
                      IF op[s].kind = "hold" /\ op[s].req = r THEN "running" ELSE request[r]]
    BY DEF Apply
  <2>2. ASSUME NEW p \in Sessions, op'[p].kind = "hold"
        PROVE  p # s /\ op[p].kind = "hold" /\ op'[p] = op[p] /\ op[p].req \in Requests
    <3>1. p # s
      BY <1>1, <2>2 DEF Close, TypeOK, NoOp
    <3>2. op'[p] = op[p]
      BY <1>1, <3>1 DEF Close, TypeOK
    <3>3. QED
      BY <2>2, <3>1, <3>2 DEF CallsOwned, NoOp
  <2>3. ASSUME NEW p \in Sessions, op'[p].kind = "hold"
        PROVE  request'[op'[p].req] = "admitting"
    BY <2>1, <2>2, <2>3 DEF AdmittedOnce
  <2>4. ASSUME NEW p \in Sessions, NEW q \in Sessions, op'[p].kind = "hold",
               op'[q].kind = "hold", op'[p].req = op'[q].req
        PROVE  p = q
    BY <2>2, <2>4 DEF AdmittedOnce
  <2>5. ASSUME NEW v \in Tenants, NEW i \in 1..Len(ledger'[v]), ledger'[v][i].type = "hold"
        PROVE  request'[ledger'[v][i].req] \notin {"new", "admitting"}
    <3>0. ledger'[v][i] = row[s] \/ (i \in 1..Len(ledger[v]) /\ ledger'[v][i] = ledger[v][i])
      <4> SUFFICES ASSUME NEW t, t = op[s].tenant, NEW n, n = Len(ledger[t])
                   PROVE  \/ ledger'[v][i] = row[s]
                          \/ i \in 1..Len(ledger[v]) /\ ledger'[v][i] = ledger[v][i]
        OBVIOUS
      <4>1. QED
        BY EntryOldOrNew
    <3>1. CASE ledger'[v][i] = row[s]
      <4>1. op[s].kind = "hold" /\ row[s].req = op[s].req /\ row[s].req \in Requests
        BY <2>5, <3>1, CommittedRow
      <4>2. QED
        BY <2>1, <3>1, <4>1
    <3>2. CASE i \in 1..Len(ledger[v]) /\ ledger'[v][i] = ledger[v][i]
      <4>1. /\ request[ledger[v][i].req] \notin {"new", "admitting"}
            /\ ledger[v][i].req \in Requests
        BY <2>5, <3>2 DEF AdmittedOnce, LedgerPart, RowsOwned
      <4>2. QED
        BY <2>1, <3>2, <4>1
    <3>3. QED
      BY <3>0, <3>1, <3>2
  <2>6. QED
    BY <2>3, <2>4, <2>5 DEF AdmittedOnce
<1>6. StagedSound'
  <2>1. ASSUME NEW p \in Sessions, pc'[p] = "staged"
        PROVE  StagedRowSound(p)'
    <3> SUFFICES ASSUME NEW u, u = op[p].tenant, NEW r, r = row[p].req, NEW k, k = op[p].key
                 PROVE  StagedRowSound(p)'
      OBVIOUS
    <3>1. /\ p # s /\ pc[p] = "staged" /\ op'[p] = op[p] /\ row'[p] = row[p]
          /\ balance'[u] = balance[u]
          /\ FindOpenHold(u, r)' = FindOpenHold(u, r)
          /\ (FindTopup(k) = {} /\ ~KeyContended(p)) => FindTopup(k)' = {}
          /\ ~KeyContended(p) => ~KeyContended(p)'
      BY <2>1, OtherStaged
    <3>2. StagedRowSound(p)
      BY <3>1 DEF StagedSound
    <3>3. QED
      BY <3>1, <3>2 DEF StagedRowSound
  <2>2. QED
    BY <2>1 DEF StagedSound
<1>7. QED
  BY <1>2, <1>3, <1>4, <1>5, <1>6

\* Every commit keeps the invariant.
LEMMA ApplyStep ==
    ASSUME IInv, CreditAssumption, NEW s \in Sessions, Apply(s),
           answers' \subseteq Answer, faults' \in 0..MaxFaults
    PROVE  IInv'
<1>1. LedgerPart /\ SessionPart
  BY IInvParts
<1>2. LedgerPart'
  BY <1>1, ApplyRowsOwned, ApplyBalance, ApplyFinalized, ApplyKeys, ApplyOverdraft
  DEF LedgerPart
<1>3. SessionPart'
  BY <1>1, ApplySessionPart
<1>4. QED
  BY <1>2, <1>3 DEF IInv, LedgerPart, SessionPart

-----------------------------------------------------------------------------
(* The other steps commit nothing.                                         *)

\* A step that leaves the transactions alone and takes no request back to before
\* its admission's end: a death, a hold's ageing, a sweep's scan.
LEMMA FrameStep ==
    ASSUME LedgerPart, SessionPart,
           UNCHANGED <<balance, ledger, lock, pc, op, seen, row, answers>>,
           request' \in [Requests -> {"new", "admitting", "refused", "running", "dead"}],
           \A r \in Requests :
               /\ request[r] = "admitting" => request'[r] = "admitting"
               /\ request[r] \notin {"new", "admitting"} =>
                      request'[r] \notin {"new", "admitting"},
           aged' \subseteq Requests, sweep' \in [Sweepers -> SUBSET Requests],
           faults' \in 0..MaxFaults
    PROVE  SessionPart'
<1> USE DEF SessionPart
<1>1. /\ ledger' = ledger /\ balance' = balance /\ op' = op /\ pc' = pc /\ row' = row
      /\ lock' = lock /\ seen' = seen /\ answers' = answers
  OBVIOUS
<1>2. TypeOK'
  BY <1>1 DEF TypeOK
<1>3. CallsOwned' /\ LockDiscipline'
  BY <1>1 DEF CallsOwned, LockDiscipline
<1>4. AdmittedOnce'
  <2>1. ASSUME NEW p \in Sessions, op'[p].kind = "hold"
        PROVE  request'[op'[p].req] = "admitting"
    <3>1. op[p].req \in Requests /\ request[op[p].req] = "admitting"
      BY <1>1, <2>1 DEF CallsOwned, NoOp, AdmittedOnce
    <3>2. QED
      BY <1>1, <3>1
  <2>2. ASSUME NEW t \in Tenants, NEW i \in 1..Len(ledger'[t]), ledger'[t][i].type = "hold"
        PROVE  request'[ledger'[t][i].req] \notin {"new", "admitting"}
    <3>1. request[ledger[t][i].req] \notin {"new", "admitting"} /\ ledger[t][i].req \in Requests
      BY <1>1, <2>2 DEF AdmittedOnce, LedgerPart, RowsOwned
    <3>2. QED
      BY <1>1, <3>1
  <2>3. \A p, q \in Sessions :
          (op'[p].kind = "hold" /\ op'[q].kind = "hold" /\ op'[p].req = op'[q].req) => p = q
    BY <1>1 DEF AdmittedOnce
  <2>4. QED
    BY <2>1, <2>2, <2>3 DEF AdmittedOnce
<1>5. StagedSound'
  <2>1. \A p : KeyContended(p)' = KeyContended(p)
    BY <1>1 DEF KeyContended
  <2>2. QED
    BY <1>1, <2>1, QueriesFrame DEF StagedSound, StagedRowSound
<1>6. QED
  BY <1>2, <1>3, <1>4, <1>5

\* Opening any of the four calls keeps the invariant.
LEMMA CallStep ==
    ASSUME LedgerPart, SessionPart, CreditAssumption, NEW s \in Sessions, Call(s)
    PROVE  SessionPart'
<1>0. aged \subseteq Requests /\ sweep \in [Sweepers -> SUBSET Requests]
  BY DEF SessionPart, TypeOK
<1>1. ASSUME NEW r \in Requests, NEW e \in Estimates, CheckAndHold(s, r, e)
      PROVE  SessionPart'
  <2> DEFINE o == [kind |-> "hold", tenant |-> TenantOf[r], req |-> r, amount |-> e,
                   key |-> None]
  <2>1. o \in Op
    BY DEF Op, CreditAssumption
  <2>2. Open(s, o) /\ request[r] = "new" /\ UNCHANGED <<aged, sweep, answers>>
        /\ request' = [request EXCEPT ![r] = "admitting"]
    BY <1>1 DEF CheckAndHold
  <2>3. /\ o.kind = "hold" /\ o.req = r /\ o.req \in Requests /\ o.key = None
        /\ o.tenant = TenantOf[o.req]
    OBVIOUS
  <2> HIDE DEF o
  <2>4. QED
    BY <1>0, <2>1, <2>2, <2>3, OpenStep
<1>2. ASSUME NEW r \in Requests, NEW c \in Costs, Settle(s, r, c)
      PROVE  SessionPart'
  <2> DEFINE o == [kind |-> "settle", tenant |-> TenantOf[r], req |-> r, amount |-> c,
                   key |-> None]
  <2>1. o \in Op
    BY DEF Op, CreditAssumption
  <2>2. Open(s, o) /\ UNCHANGED <<request, aged, sweep, answers>>
    BY <1>2 DEF Settle
  <2>3. /\ o.kind = "settle" /\ o.req = r /\ o.req \in Requests /\ o.key = None
        /\ o.tenant = TenantOf[o.req]
    OBVIOUS
  <2> HIDE DEF o
  <2>4. QED
    BY <1>0, <2>1, <2>2, <2>3, OpenStep
<1>3. ASSUME NEW r \in Requests, Release(s, r)
      PROVE  SessionPart'
  <2>1. /\ ReleaseOp(r) \in Op /\ ReleaseOp(r).kind = "release" /\ ReleaseOp(r).req = r
        /\ ReleaseOp(r).key = None /\ ReleaseOp(r).tenant = TenantOf[r]
        /\ ReleaseOp(r).amount = 0
    BY DEF Op, ReleaseOp, CreditAssumption
  <2>2. Open(s, ReleaseOp(r)) /\ UNCHANGED <<request, aged, sweep, answers>>
    BY <1>3 DEF Release
  <2>3. QED
    BY <1>0, <2>1, <2>2, OpenStep
<1>4. ASSUME NEW k \in Keys, NEW t \in Tenants, NEW a \in Amounts, Topup(s, k, t, a)
      PROVE  SessionPart'
  <2> DEFINE o == [kind |-> "topup", tenant |-> t, req |-> None, amount |-> a, key |-> k]
  <2>1. o \in Op
    BY DEF Op, CreditAssumption
  <2>2. Open(s, o) /\ UNCHANGED <<request, aged, sweep, answers>>
    BY <1>4 DEF Topup
  <2>3. o.kind = "topup" /\ o.req = None /\ o.key \in Keys
    OBVIOUS
  <2> HIDE DEF o
  <2>4. QED
    BY <1>0, <2>1, <2>2, <2>3, OpenStep
<1>5. QED
  BY <1>1, <1>2, <1>3, <1>4 DEF Call

\* Every decision taken under the row lock keeps the session part.
LEMMA DecideStep ==
    ASSUME LedgerPart, SessionPart, CreditAssumption, NEW s \in Sessions, Decide(s)
    PROVE  SessionPart' /\ UNCHANGED <<ledger, balance>>
<1>0. /\ pc[s] \in {"locked", "looked", "requery"} =>
             pc[s] # "idle" /\ op[s].amount \in Nat /\ op[s].tenant \in Tenants
      /\ request \in [Requests -> {"new", "admitting", "refused", "running", "dead"}]
      /\ aged \subseteq Requests /\ answers \subseteq Answer /\ faults \in 0..MaxFaults
      /\ seen[s] \in Int
  BY CallTyped DEF SessionPart, TypeOK
<1>1. CASE StageHold(s)
  <2>1. Grace[op[s].tenant] \in Nat
    BY <1>0, <1>1 DEF StageHold, CreditAssumption
  <2>2. /\ pc[s] \in {"locked", "looked"} /\ op[s].kind = "hold"
        /\ Stage(s, op[s].kind, -op[s].amount) /\ -op[s].amount \in Int /\ -op[s].amount <= 0
        /\ seen[s] + (-op[s].amount) >= -Grace[op[s].tenant]
    BY <1>0, <1>1, <2>1 DEF StageHold, Affordable
  <2>3. SessionPart'
    BY <2>2, StageStep DEF IsFinalization
  <2>4. QED
    BY <2>2, <2>3 DEF Stage
<1>2. CASE RefuseHold(s)
  <2>1. /\ pc[s] = "locked" /\ op[s].kind = "hold" /\ Close(s)
        /\ UNCHANGED <<balance, ledger, aged, sweep, answers, faults>>
        /\ request' = [request EXCEPT ![op[s].req] = "refused"]
    BY <1>2 DEF RefuseHold
  <2>2. request' = [r \in Requests |->
                      IF op[s].kind = "hold" /\ op[s].req = r THEN "refused" ELSE request[r]]
    BY <1>0, <2>1
  <2>3. answers' \subseteq Answer /\ faults' \in 0..MaxFaults
    BY <1>0, <2>1
  <2>4. SessionPart'
    BY <2>1, <2>2, <2>3, CloseStep
  <2>5. QED
    BY <2>1, <2>4
<1>3. CASE StageFinalization(s)
  <2>1. PICK h \in FindOpenHold(op[s].tenant, op[s].req) :
               Stage(s, op[s].kind, (-h.amount) - op[s].amount)
    BY <1>3 DEF StageFinalization
  <2>2. h \in Rows(op[s].tenant) /\ h.type = "hold"
    BY <2>1 DEF FindOpenHold
  <2>3. h \in Row /\ h.amount \in Int /\ h.amount <= 0
    <3>1. op[s].tenant \in Tenants /\ ledger[op[s].tenant] \in Seq(Row)
      BY <1>0, <1>3 DEF StageFinalization, SessionPart, TypeOK
    <3>2. PICK i \in 1..Len(ledger[op[s].tenant]) : h = ledger[op[s].tenant][i]
      BY <2>2 DEF Rows
    <3>3. h \in Row /\ SignSound(h)
      BY <3>1, <3>2 DEF LedgerPart, RowsOwned
    <3>4. QED
      BY <2>2, <3>3 DEF Row, SignSound
  <2>4. op[s].kind = "release" => op[s].amount = 0
    BY DEF SessionPart, CallsOwned
  <2>5. /\ pc[s] \in {"locked", "looked"} /\ op[s].kind \in {"settle", "release"}
        /\ (-h.amount) - op[s].amount \in Int
        /\ op[s].kind = "release" => (-h.amount) - op[s].amount >= 0
    BY <1>0, <1>3, <2>3, <2>4 DEF StageFinalization
  <2>6. FindOpenHold(op[s].tenant, op[s].req) # {}
    BY <2>1
  <2>7. SessionPart'
    BY <2>1, <2>5, <2>6, StageStep
  <2>8. QED
    BY <2>1, <2>7 DEF Stage
<1>4. CASE NothingToFinalize(s)
  <2>1. /\ pc[s] = "locked" /\ op[s].kind # "hold" /\ Close(s)
        /\ UNCHANGED <<balance, ledger, request, aged, sweep, answers, faults>>
    BY <1>4 DEF NothingToFinalize
  <2>2. request' = [r \in Requests |->
                      IF op[s].kind = "hold" /\ op[s].req = r THEN "refused" ELSE request[r]]
    BY <1>0, <2>1
  <2>3. answers' \subseteq Answer /\ faults' \in 0..MaxFaults
    BY <1>0, <2>1
  <2>4. SessionPart'
    BY <2>1, <2>2, <2>3, CloseStep
  <2>5. QED
    BY <2>1, <2>4
<1>5. CASE LookupMiss(s)
  BY <1>5, LookupMissStep DEF LookupMiss
<1>6. CASE AnswerExisting(s)
  <2>1. /\ pc[s] # "idle" /\ op[s].kind = "topup" /\ Close(s)
        /\ UNCHANGED <<balance, ledger, request, aged, sweep, faults>>
        /\ pc[s] \in {"locked", "looked", "requery"}
    BY <1>6 DEF AnswerExisting
  <2>2. request' = [r \in Requests |->
                      IF op[s].kind = "hold" /\ op[s].req = r THEN "refused" ELSE request[r]]
    BY <1>0, <2>1
  <2>3. answers' \subseteq Answer
    <3>1. op[s].key \in Keys
      BY <2>1 DEF SessionPart, CallsOwned
    <3>2. ASSUME NEW x
          PROVE  AnswerOf(s, ReplayOrConflict(s, x)) \in Answer
      BY <1>0, <2>1, <3>1 DEF AnswerOf, ReplayOrConflict, Answer
    <3>3. QED
      BY <1>0, <1>6, <3>2 DEF AnswerExisting
  <2>4. faults' \in 0..MaxFaults
    BY <1>0, <2>1
  <2>5. SessionPart'
    BY <2>1, <2>2, <2>3, <2>4, CloseStep
  <2>6. QED
    BY <2>1, <2>5
<1>7. CASE StageTopup(s)
  <2>1. op[s].kind = "topup"
    BY <1>7 DEF StageTopup, SessionPart, CallsOwned
  <2>2. /\ pc[s] \in {"locked", "looked"} /\ op[s].amount \in Int /\ op[s].amount >= 0
        /\ Stage(s, op[s].kind, op[s].amount)
        /\ FindTopup(op[s].key) = {} /\ ~KeyContended(s)
    BY <1>0, <1>7, <2>1 DEF StageTopup
  <2>3. SessionPart'
    BY <2>1, <2>2, StageStep DEF IsFinalization
  <2>4. QED
    BY <2>2, <2>3 DEF Stage
<1>8. CASE InsertConflict(s)
  BY <1>8, InsertConflictStep DEF InsertConflict
<1>9. QED
  BY <1>1, <1>2, <1>3, <1>4, <1>5, <1>6, <1>7, <1>8 DEF Decide

\* A failed transaction, a death and a sweep's step keep the session part.
LEMMA FailStep ==
    ASSUME LedgerPart, SessionPart, CreditAssumption, NEW s \in Sessions, FailTransaction(s)
    PROVE  SessionPart' /\ UNCHANGED <<ledger, balance>>
<1>1. /\ pc[s] # "idle" /\ Close(s) /\ UNCHANGED <<balance, ledger, aged, sweep, answers>>
      /\ request' = [r \in Requests |->
                       IF op[s].kind = "hold" /\ op[s].req = r THEN "running" ELSE request[r]]
  BY DEF FailTransaction
<1>2. answers' \subseteq Answer /\ faults' \in 0..MaxFaults
  BY DEF FailTransaction, SessionPart, TypeOK, CreditAssumption
<1>3. SessionPart'
  BY <1>1, <1>2, CloseStep
<1>4. QED
  BY <1>1, <1>3

\* The death of a request's process leaves its transactions and the ledger alone.
LEMMA CrashStep ==
    ASSUME LedgerPart, SessionPart, CreditAssumption, NEW r \in Requests, CrashRequest(r)
    PROVE  SessionPart' /\ UNCHANGED <<ledger, balance>>
<1>1. /\ UNCHANGED <<balance, ledger, lock, pc, op, seen, row, answers>>
      /\ aged' = aged /\ sweep' = sweep /\ request[r] = "running"
      /\ request' = [request EXCEPT ![r] = "dead"]
  BY DEF CrashRequest
<1>2. /\ request' \in [Requests -> {"new", "admitting", "refused", "running", "dead"}]
      /\ aged' \subseteq Requests /\ sweep' \in [Sweepers -> SUBSET Requests]
      /\ faults' \in 0..MaxFaults
  BY DEF CrashRequest, SessionPart, TypeOK, CreditAssumption
<1>3. \A q \in Requests :
          /\ request[q] = "admitting" => request'[q] = "admitting"
          /\ request[q] \notin {"new", "admitting"} => request'[q] \notin {"new", "admitting"}
  BY <1>1 DEF SessionPart, TypeOK
<1>4. SessionPart'
  BY <1>1, <1>2, <1>3, FrameStep
<1>5. QED
  BY <1>1, <1>4

\* A hold that ages leaves the transactions and the ledger alone.
LEMMA AgeStep ==
    ASSUME LedgerPart, SessionPart, NEW r \in Requests, HoldAges(r)
    PROVE  SessionPart' /\ UNCHANGED <<ledger, balance>>
<1>1. /\ UNCHANGED <<balance, ledger, lock, pc, op, seen, row, answers>>
      /\ request' = request /\ sweep' = sweep /\ faults' = faults /\ aged' = aged \cup {r}
  BY DEF HoldAges
<1>2. /\ request' \in [Requests -> {"new", "admitting", "refused", "running", "dead"}]
      /\ aged' \subseteq Requests /\ sweep' \in [Sweepers -> SUBSET Requests]
      /\ faults' \in 0..MaxFaults
  BY <1>1 DEF SessionPart, TypeOK
<1>3. SessionPart'
  BY <1>1, <1>2, FrameStep
<1>4. QED
  BY <1>1, <1>3

\* The sweep's scan and its releases open transactions like any caller's (sweep_once).
LEMMA SweepStepKeeps ==
    ASSUME LedgerPart, SessionPart, CreditAssumption, NEW s \in Sweepers, SweepStep(s)
    PROVE  SessionPart' /\ UNCHANGED <<ledger, balance>>
<1>1. ASSUME NEW b \in SUBSET Requests, SweepScan(s, b)
      PROVE  SessionPart' /\ UNCHANGED <<ledger, balance>>
  <2>1. /\ UNCHANGED <<balance, ledger, lock, pc, op, seen, row, answers>>
        /\ request' = request /\ aged' = aged /\ faults' = faults
        /\ sweep' = [sweep EXCEPT ![s] = b]
    BY <1>1 DEF SweepScan
  <2>2. /\ request' \in [Requests -> {"new", "admitting", "refused", "running", "dead"}]
        /\ aged' \subseteq Requests /\ sweep' \in [Sweepers -> SUBSET Requests]
        /\ faults' \in 0..MaxFaults
    BY <2>1 DEF SessionPart, TypeOK
  <2>3. SessionPart'
    BY <2>1, <2>2, FrameStep
  <2>4. QED
    BY <2>1, <2>3
<1>2. ASSUME NEW r \in Requests, SweepRelease(s, r)
      PROVE  SessionPart' /\ UNCHANGED <<ledger, balance>>
  <2>1. s \in Sessions
    BY DEF CreditAssumption
  <2>2. /\ ReleaseOp(r) \in Op /\ ReleaseOp(r).kind = "release" /\ ReleaseOp(r).req = r
        /\ ReleaseOp(r).key = None /\ ReleaseOp(r).tenant = TenantOf[r]
        /\ ReleaseOp(r).amount = 0
    BY DEF Op, ReleaseOp, CreditAssumption
  <2>3. Open(s, ReleaseOp(r)) /\ UNCHANGED <<request, aged, answers>>
    BY <1>2 DEF SweepRelease
  <2>4. aged' \subseteq Requests /\ sweep' \in [Sweepers -> SUBSET Requests]
    BY <1>2 DEF SweepRelease, SessionPart, TypeOK
  <2>5. SessionPart'
    BY <2>1, <2>2, <2>3, <2>4, OpenStep
  <2>6. QED
    BY <2>3, <2>5 DEF Open
<1>3. QED
  BY <1>1, <1>2 DEF SweepStep

-----------------------------------------------------------------------------
(* The invariant and the theorems.                                         *)

\* Before the first call the ledger is as the invariant says.
LEMMA InitEstablishes ==
    ASSUME CreditAssumption, Init
    PROVE  IInv
<1>1. TypeOK
  BY DEF Init, TypeOK, Phases, CreditAssumption
<1>2. CallsOwned /\ LockDiscipline /\ AdmittedOnce /\ RowsOwned /\ StagedSound
  BY DEF Init, CallsOwned, LockDiscipline, AdmittedOnce, RowsOwned, StagedSound, NoOp, OwnsLock
<1>3. BalanceIsLedgerSum /\ FinalizedOnce /\ KeyAppliedOnce
  BY DEF Init, BalanceIsLedgerSum, RunningSum, BalanceCached, FinalizedOnce, KeyAppliedOnce
<1>4. OverdraftOnlyByOverrun
  BY DEF Init, OverdraftOnlyByOverrun, CreditAssumption
<1>5. QED
  BY <1>1, <1>2, <1>3, <1>4 DEF IInv

\* Every step keeps the invariant.
LEMMA NextKeeps ==
    ASSUME CreditAssumption, IInv, [Next]_vars
    PROVE  IInv'
<1>0. LedgerPart /\ SessionPart
  BY IInvParts
<1>1. ASSUME SessionPart', UNCHANGED <<ledger, balance>>
      PROVE  IInv'
  BY <1>0, <1>1, LedgerFrame DEF IInv, LedgerPart, SessionPart
<1>2. ASSUME NEW s \in Sessions, Call(s)
      PROVE  IInv'
  <2>1. SessionPart'
    BY <1>0, <1>2, CallStep
  <2>2. UNCHANGED <<ledger, balance>>
    BY <1>2 DEF Call, CheckAndHold, Settle, Release, Topup, Open
  <2>3. QED
    BY <1>1, <2>1, <2>2
<1>3. ASSUME NEW s \in Sessions, LockBalanceRow(s)
      PROVE  IInv'
  BY <1>0, <1>1, <1>3, LockStep DEF LockBalanceRow
<1>4. ASSUME NEW s \in Sessions, Decide(s)
      PROVE  IInv'
  BY <1>0, <1>1, <1>4, DecideStep
<1>5. ASSUME NEW s \in Sessions, Commit(s)
      PROVE  IInv'
  <2>1. Apply(s) /\ faults' = faults /\ pc[s] # "idle"
    BY <1>5 DEF Commit, Apply
  <2>2. op[s].kind = "topup" => AnswerOf(s, "created") \in Answer
    BY <1>0, <2>1, CallTyped DEF AnswerOf, Answer, SessionPart, CallsOwned
  <2>3. answers' \subseteq Answer /\ faults' \in 0..MaxFaults
    BY <1>0, <1>5, <2>1, <2>2 DEF Commit, SessionPart, TypeOK
  <2>4. QED
    BY <2>1, <2>3, ApplyStep
<1>6. ASSUME Fault
      PROVE  IInv'
  <2>1. ASSUME NEW s \in Sessions, CommitUnacknowledged(s)
        PROVE  IInv'
    <3>1. Apply(s) /\ answers' \subseteq Answer /\ faults' \in 0..MaxFaults
      BY <1>0, <2>1 DEF CommitUnacknowledged, SessionPart, TypeOK, CreditAssumption
    <3>2. QED
      BY <3>1, ApplyStep
  <2>2. ASSUME NEW s \in Sessions, FailTransaction(s)
        PROVE  IInv'
    BY <1>0, <1>1, <2>2, FailStep
  <2>3. ASSUME NEW r \in Requests, CrashRequest(r)
        PROVE  IInv'
    BY <1>0, <1>1, <2>3, CrashStep
  <2>4. QED
    BY <1>6, <2>1, <2>2, <2>3 DEF Fault
<1>7. ASSUME NEW r \in Requests, HoldAges(r)
      PROVE  IInv'
  BY <1>0, <1>1, <1>7, AgeStep
<1>8. ASSUME NEW s \in Sweepers, SweepStep(s)
      PROVE  IInv'
  BY <1>0, <1>1, <1>8, SweepStepKeeps
<1>9. CASE UNCHANGED vars
  <2>1. SessionPart'
    BY <1>0, <1>9 DEF vars, SessionPart, TypeOK, CallsOwned, LockDiscipline, AdmittedOnce,
       StagedSound, StagedRowSound, FindOpenHold, Finalized, FindTopup, Rows, KeyContended
  <2>2. QED
    BY <1>1, <1>9, <2>1 DEF vars
<1>10. QED
  BY <1>2, <1>3, <1>4, <1>5, <1>6, <1>7, <1>8, <1>9 DEF Next

\* The invariant holds throughout: lock discipline, one admission per request, and staged
\* rows that will be right when they commit (IInv).
THEOREM Inductive == Spec => []IInv
<1>1. Init => IInv
  BY InitEstablishes, CreditAssumption
<1>2. IInv /\ [Next]_vars => IInv'
  BY NextKeeps, CreditAssumption
<1>3. QED
  BY <1>1, <1>2, PTL DEF Spec

\* Every variable keeps its type, whatever calls, faults and sweeps interleave.
THEOREM Typed == Spec => []TypeOK
<1>1. IInv => TypeOK
  BY DEF IInv
<1>2. QED
  BY <1>1, Inductive, PTL

\* check_and_hold, settle, release and topup of any number of sessions keep the
\* cached tenant_credit_balances row equal to the running sum of the ledger.
THEOREM CacheIsSum == Spec => []BalanceIsLedgerSum
<1>1. IInv => BalanceIsLedgerSum
  BY DEF IInv
<1>2. QED
  BY <1>1, Inductive, PTL

\* settle, release and the sweep, however often each is called for a request,
\* finalise its one hold at most once.
THEOREM OneFinalization == Spec => []FinalizedOnce
<1>1. IInv => FinalizedOnce
  BY DEF IInv
<1>2. QED
  BY <1>1, Inductive, PTL

\* topup credits an idempotency key at most once, over all tenants.
THEOREM OneCreditPerKey == Spec => []KeyAppliedOnce
<1>1. IInv => KeyAppliedOnce
  BY DEF IInv
<1>2. QED
  BY <1>1, Inductive, PTL

\* A balance below the grace is owed to a settle that cost more than its hold,
\* never to concurrent admissions.
THEOREM NoOverdraftByAdmission == Spec => []OverdraftOnlyByOverrun
<1>1. IInv => OverdraftOnlyByOverrun
  BY DEF IInv
<1>2. QED
  BY <1>1, Inductive, PTL

\* A step that grows a ledger is a commit.
LEMMA GrowthIsCommit ==
    ASSUME SessionPart, CreditAssumption, [Next]_vars, NEW t \in Tenants, ledger'[t] # ledger[t]
    PROVE  \E s \in Sessions : Apply(s)
<1>1. ~UNCHANGED vars /\ ledger' # ledger
  BY DEF vars
<1>2. \A s \in Sessions : ~Call(s) /\ ~LockBalanceRow(s) /\ ~FailTransaction(s)
  BY <1>1 DEF Call, CheckAndHold, Settle, Release, Topup, Open, LockBalanceRow, FailTransaction
<1>3. \A s \in Sessions : ~Decide(s)
  BY <1>1 DEF Decide, StageHold, RefuseHold, StageFinalization, NothingToFinalize, LookupMiss,
     AnswerExisting, StageTopup, InsertConflict, Stage
<1>4. \A r \in Requests : ~CrashRequest(r) /\ ~HoldAges(r)
  BY <1>1 DEF CrashRequest, HoldAges
<1>5. \A s \in Sweepers : ~SweepStep(s)
  BY <1>1 DEF SweepStep, SweepScan, SweepRelease, Open
<1>6. QED
  BY <1>1, <1>2, <1>3, <1>4, <1>5 DEF Next, Fault, Commit, CommitUnacknowledged

-----------------------------------------------------------------------------
(* Amounts, locks and answers: a second invariant, on top of the first.    *)

ExactPart == AmountsSound /\ LocksOwned /\ AnswersHonest

\* The kinds of step, by what they do to transactions, rows and answers.
OpensOffered(s, o) ==
    /\ Open(s, o) /\ UNCHANGED answers
    /\ o.kind = "hold" => o.amount \in Estimates
    /\ o.kind = "settle" => o.amount \in Costs
    /\ o.kind = "topup" => o.amount \in Amounts

StagesExact(s, amount) ==
    /\ pc[s] \in {"locked", "looked"}
    /\ Stage(s, op[s].kind, amount)
    /\ op[s].kind = "hold" => amount = -op[s].amount
    /\ op[s].kind = "topup" => amount = op[s].amount
    /\ IsFinalization(op[s].kind) =>
           \E h \in FindOpenHold(op[s].tenant, op[s].req) : amount = (-h.amount) - op[s].amount

EndsUncommitted(s) ==
    /\ Close(s) /\ UNCHANGED <<balance, ledger>>
    /\ UNCHANGED answers \/ AnswerExisting(s)

CommitsAnswered(s) ==
    /\ Apply(s)
    /\ \/ UNCHANGED answers
       \/ op[s].kind = "topup" /\ answers' = answers \cup {AnswerOf(s, "created")}

TransactionsRest == UNCHANGED <<balance, ledger, lock, pc, op, row, answers>>

\* Every step is of one of these kinds.
LEMMA StepKinds ==
    ASSUME IInv, CreditAssumption, [Next]_vars
    PROVE  \/ \E s \in Sessions, o \in Op : OpensOffered(s, o)
           \/ \E s \in Sessions : LockBalanceRow(s)
           \/ \E s \in Sessions : \E amount : StagesExact(s, amount)
           \/ \E s \in Sessions : LookupMiss(s) \/ InsertConflict(s)
           \/ \E s \in Sessions : EndsUncommitted(s)
           \/ \E s \in Sessions : CommitsAnswered(s)
           \/ TransactionsRest
<1>0. CallsOwned /\ TypeOK
  BY DEF IInv
<1>1. ASSUME NEW s \in Sessions, Call(s)
      PROVE  \E o \in Op : OpensOffered(s, o)
  <2>1. ASSUME NEW r \in Requests, NEW e \in Estimates, CheckAndHold(s, r, e)
        PROVE  \E o \in Op : OpensOffered(s, o)
    <3> DEFINE o == [kind |-> "hold", tenant |-> TenantOf[r], req |-> r, amount |-> e,
                     key |-> None]
    <3>1. o \in Op /\ o.kind = "hold" /\ o.amount = e
      BY DEF CreditAssumption, Op
    <3>2. Open(s, o) /\ UNCHANGED answers
      BY <2>1 DEF CheckAndHold
    <3> HIDE DEF o
    <3>3. QED
      BY <3>1, <3>2 DEF OpensOffered
  <2>2. ASSUME NEW r \in Requests, NEW c \in Costs, Settle(s, r, c)
        PROVE  \E o \in Op : OpensOffered(s, o)
    <3> DEFINE o == [kind |-> "settle", tenant |-> TenantOf[r], req |-> r, amount |-> c,
                     key |-> None]
    <3>1. o \in Op /\ o.kind = "settle" /\ o.amount = c
      BY DEF CreditAssumption, Op
    <3>2. Open(s, o) /\ UNCHANGED answers
      BY <2>2 DEF Settle
    <3> HIDE DEF o
    <3>3. QED
      BY <3>1, <3>2 DEF OpensOffered
  <2>3. ASSUME NEW r \in Requests, Release(s, r)
        PROVE  \E o \in Op : OpensOffered(s, o)
    <3>1. ReleaseOp(r) \in Op /\ ReleaseOp(r).kind = "release"
      BY DEF CreditAssumption, Op, ReleaseOp
    <3>2. QED
      BY <2>3, <3>1 DEF OpensOffered, Release
  <2>4. ASSUME NEW k \in Keys, NEW t \in Tenants, NEW a \in Amounts, Topup(s, k, t, a)
        PROVE  \E o \in Op : OpensOffered(s, o)
    <3> DEFINE o == [kind |-> "topup", tenant |-> t, req |-> None, amount |-> a, key |-> k]
    <3>1. o \in Op /\ o.kind = "topup" /\ o.amount = a
      BY DEF CreditAssumption, Op
    <3>2. Open(s, o) /\ UNCHANGED answers
      BY <2>4 DEF Topup
    <3> HIDE DEF o
    <3>3. QED
      BY <3>1, <3>2 DEF OpensOffered
  <2>5. QED
    BY <1>1, <2>1, <2>2, <2>3, <2>4 DEF Call
<1>2. ASSUME NEW s \in Sessions, Decide(s)
      PROVE  \/ \E amount : StagesExact(s, amount)
             \/ LookupMiss(s) \/ InsertConflict(s) \/ EndsUncommitted(s)
  <2>1. CASE StageHold(s)
    <3>1. StagesExact(s, -op[s].amount)
      BY <2>1 DEF StageHold, StagesExact, IsFinalization
    <3>2. QED
      BY <3>1
  <2>2. CASE StageFinalization(s)
    <3>1. PICK h \in FindOpenHold(op[s].tenant, op[s].req) :
                 Stage(s, op[s].kind, (-h.amount) - op[s].amount)
      BY <2>2 DEF StageFinalization
    <3>2. StagesExact(s, (-h.amount) - op[s].amount)
      BY <2>2, <3>1 DEF StageFinalization, StagesExact
    <3>3. QED
      BY <3>2
  <2>3. CASE StageTopup(s)
    <3>1. op[s].kind = "topup"
      BY <1>0, <2>3 DEF StageTopup, CallsOwned
    <3>2. StagesExact(s, op[s].amount)
      BY <2>3, <3>1 DEF StageTopup, StagesExact, IsFinalization
    <3>3. QED
      BY <3>2
  <2>4. CASE RefuseHold(s) \/ NothingToFinalize(s) \/ AnswerExisting(s)
    BY <2>4 DEF RefuseHold, NothingToFinalize, AnswerExisting, EndsUncommitted
  <2>5. QED
    BY <1>2, <2>1, <2>2, <2>3, <2>4 DEF Decide
<1>3. ASSUME NEW s \in Sessions, Commit(s) \/ CommitUnacknowledged(s)
      PROVE  CommitsAnswered(s)
  BY <1>3 DEF Commit, CommitUnacknowledged, CommitsAnswered
<1>4. ASSUME NEW s \in Sessions, FailTransaction(s)
      PROVE  EndsUncommitted(s)
  BY <1>4 DEF FailTransaction, EndsUncommitted
<1>5. ASSUME NEW s \in Sweepers, SweepStep(s)
      PROVE  (\E o \in Op : OpensOffered(s, o)) \/ TransactionsRest
  <2>1. CASE \E b \in SUBSET Requests : SweepScan(s, b)
    BY <2>1 DEF SweepScan, TransactionsRest
  <2>2. ASSUME NEW r \in Requests, SweepRelease(s, r)
        PROVE  \E o \in Op : OpensOffered(s, o)
    <3>1. ReleaseOp(r) \in Op /\ ReleaseOp(r).kind = "release"
      BY DEF CreditAssumption, Op, ReleaseOp
    <3>2. QED
      BY <2>2, <3>1 DEF OpensOffered, SweepRelease
  <2>3. QED
    BY <1>5, <2>1, <2>2 DEF SweepStep
<1>6. ASSUME NEW r \in Requests, CrashRequest(r) \/ HoldAges(r)
      PROVE  TransactionsRest
  BY <1>6 DEF CrashRequest, HoldAges, TransactionsRest
<1>7. CASE UNCHANGED vars
  BY <1>7 DEF vars, TransactionsRest
<1>8. Sweepers \subseteq Sessions
  BY DEF CreditAssumption
<1>9. QED
  BY <1>1, <1>2, <1>3, <1>4, <1>5, <1>6, <1>7, <1>8 DEF Next, Fault

\* A transaction outside the row lock owns none, and one inside owns its tenant's.
LEMMA LocksKept ==
    ASSUME IInv, CreditAssumption, LocksOwned, [Next]_vars
    PROVE  LocksOwned'
<1>0. TypeOK /\ SessionPart
  BY IInvParts DEF IInv
<1>1. CASE \E s \in Sessions, o \in Op : OpensOffered(s, o)
  BY <1>0, <1>1 DEF OpensOffered, Open, LocksOwned, TypeOK, OwnsLock
<1>2. ASSUME NEW s \in Sessions, LockBalanceRow(s)
      PROVE  LocksOwned'
  <2>1. op[s].tenant \in Tenants
    BY <1>0, <1>2, CallTyped DEF LockBalanceRow
  <2>2. ASSUME NEW t \in Tenants, lock'[t] # None
        PROVE  pc'[lock'[t]] \in OwnsLock /\ op'[lock'[t]].tenant = t
    <3>1. CASE t = op[s].tenant
      BY <1>0, <1>2, <2>1, <3>1 DEF LockBalanceRow, TypeOK, OwnsLock
    <3>2. CASE t # op[s].tenant
      <4>1. lock'[t] = lock[t] /\ lock[t] \in Sessions
        BY <1>0, <1>2, <2>1, <2>2, <3>2 DEF LockBalanceRow, TypeOK
      <4>2. pc[lock[t]] \in OwnsLock /\ op[lock[t]].tenant = t
        BY <2>2, <4>1 DEF LocksOwned
      <4>3. lock[t] # s
        BY <1>2, <4>2 DEF LockBalanceRow, OwnsLock
      <4>4. QED
        BY <1>0, <1>2, <4>1, <4>2, <4>3 DEF LockBalanceRow, TypeOK
    <3>3. QED
      BY <3>1, <3>2
  <2>3. QED
    BY <2>2 DEF LocksOwned
<1>3. ASSUME NEW s \in Sessions, NEW amount, StagesExact(s, amount)
      PROVE  LocksOwned'
  BY <1>0, <1>3 DEF StagesExact, Stage, LocksOwned, TypeOK, OwnsLock
<1>4. ASSUME NEW s \in Sessions, LookupMiss(s)
      PROVE  LocksOwned'
  BY <1>0, <1>4 DEF LookupMiss, LocksOwned, TypeOK, OwnsLock
<1>5. ASSUME NEW s \in Sessions, \/ InsertConflict(s) \/ Close(s)
      PROVE  LocksOwned'
  <2>1. /\ lock' = [t \in Tenants |-> IF lock[t] = s THEN None ELSE lock[t]]
        /\ \A p \in Sessions \ {s} : pc'[p] = pc[p] /\ op'[p] = op[p]
    BY <1>0, <1>5 DEF InsertConflict, Close, Unlock, TypeOK
  <2>2. QED
    BY <1>0, <2>1 DEF LocksOwned, TypeOK
<1>6. CASE TransactionsRest
  BY <1>6 DEF TransactionsRest, LocksOwned
<1>7. QED
  BY <1>1, <1>2, <1>3, <1>4, <1>5, <1>6, StepKinds DEF EndsUncommitted, CommitsAnswered, Apply

\* The calls that are under way keep the amounts they were offered.
LEMMA OffersKept ==
    ASSUME IInv, CreditAssumption, CallsOffered, [Next]_vars
    PROVE  CallsOffered'
<1>0. TypeOK
  BY DEF IInv
<1>1. ASSUME NEW s \in Sessions, NEW o \in Op, OpensOffered(s, o)
      PROVE  CallsOffered'
  BY <1>0, <1>1 DEF OpensOffered, Open, CallsOffered, TypeOK
<1>2. ASSUME NEW s \in Sessions, Close(s)
      PROVE  CallsOffered'
  BY <1>0, <1>2 DEF Close, NoOp, CallsOffered, TypeOK
<1>3. CASE UNCHANGED op
  BY <1>3 DEF CallsOffered
<1>4. QED
  BY <1>1, <1>2, <1>3, StepKinds DEF EndsUncommitted, CommitsAnswered, Apply, LockBalanceRow,
     StagesExact, Stage, LookupMiss, InsertConflict, TransactionsRest

\* A staged transaction's tenant sees no commit of another one, so the hold its
\* row finalises stays the open one.
LEMMA StagedKept ==
    ASSUME IInv, CreditAssumption, StagedExact, [Next]_vars
    PROVE  StagedExact'
<1>0. TypeOK /\ SessionPart
  BY IInvParts DEF IInv
<1>1. ASSUME UNCHANGED ledger,
             \A p \in Sessions : pc'[p] = "staged" =>
                 pc[p] = "staged" /\ op'[p] = op[p] /\ row'[p] = row[p]
      PROVE  StagedExact'
  BY <1>1, QueriesFrame DEF StagedExact
<1>2. ASSUME NEW s \in Sessions, NEW o \in Op, OpensOffered(s, o)
      PROVE  StagedExact'
  BY <1>0, <1>1, <1>2 DEF OpensOffered, Open, TypeOK
<1>3. ASSUME NEW s \in Sessions, LockBalanceRow(s) \/ LookupMiss(s) \/ InsertConflict(s)
      PROVE  StagedExact'
  BY <1>0, <1>1, <1>3 DEF LockBalanceRow, LookupMiss, InsertConflict, TypeOK
<1>4. ASSUME NEW s \in Sessions, NEW amount, StagesExact(s, amount)
      PROVE  StagedExact'
  <2>1. UNCHANGED <<ledger, op>> /\ op[s].req = row'[s].req /\ row'[s].type = op[s].kind
        /\ row'[s].amount = amount
    BY <1>0, <1>4 DEF StagesExact, Stage, TypeOK
  <2>2. ASSUME NEW p \in Sessions \ {s}, pc'[p] = "staged"
        PROVE  pc[p] = "staged" /\ row'[p] = row[p]
    BY <1>0, <1>4, <2>2 DEF StagesExact, Stage, TypeOK
  <2>3. QED
    BY <1>4, <2>1, <2>2, QueriesFrame DEF StagedExact, StagesExact
<1>5. ASSUME NEW s \in Sessions, EndsUncommitted(s)
      PROVE  StagedExact'
  BY <1>0, <1>1, <1>5 DEF EndsUncommitted, Close, TypeOK
<1>6. ASSUME NEW s \in Sessions, CommitsAnswered(s)
      PROVE  StagedExact'
  <2> DEFINE t == op[s].tenant
  <2>1. Apply(s) /\ pc[s] = "staged" /\ pc'[s] = "idle"
    BY <1>0, <1>6 DEF CommitsAnswered, Apply, Close, TypeOK
  <2>2. \A u \in Tenants \ {t} : Rows(u)' = Rows(u)
    BY <1>0, <2>1, RowsGrow
  <2>3. ASSUME NEW p \in Sessions, pc'[p] = "staged"
        PROVE  /\ pc[p] = "staged" /\ op'[p] = op[p] /\ row'[p] = row[p]
               /\ op[p].tenant \in Tenants \ {t}
    <3>1. p # s /\ pc[p] = "staged" /\ op'[p] = op[p] /\ row'[p] = row[p]
      BY <1>0, <2>1, <2>3 DEF Apply, Close, TypeOK
    <3>2. op[p].tenant \in Tenants
      BY <1>0, <3>1, CallTyped
    <3>3. op[p].tenant # t
      BY <1>0, <2>1, <3>1, OneOwnerPerRow DEF OwnsLock
    <3>4. QED
      BY <3>1, <3>2, <3>3
  <2>4. ASSUME NEW u \in Tenants \ {t}, NEW r
        PROVE  FindOpenHold(u, r)' = FindOpenHold(u, r)
    BY <2>2 DEF FindOpenHold, Finalized
  <2>5. QED
    BY <2>3, <2>4 DEF StagedExact
<1>7. CASE TransactionsRest
  BY <1>1, <1>7 DEF TransactionsRest
<1>8. QED
  BY <1>2, <1>3, <1>4, <1>5, <1>6, <1>7, StepKinds

\* A top-up that is committed under a key stays committed under it.
LEMMA TopupsStay ==
    ASSUME IInv, CreditAssumption, [Next]_vars, NEW k, NEW x \in FindTopup(k)
    PROVE  x \in FindTopup(k)'
<1>0. SessionPart
  BY IInvParts
<1>1. PICK t \in Tenants : x \in Rows(t) /\ x.type = "topup" /\ x.key = k
  BY DEF FindTopup
<1>2. x \in Rows(t)'
  <2>1. CASE ledger'[t] = ledger[t]
    BY <1>1, <2>1 DEF Rows
  <2>2. CASE ledger'[t] # ledger[t]
    <3>1. PICK s \in Sessions : Apply(s)
      BY <1>0, <2>2, GrowthIsCommit
    <3>2. op[s].tenant = t
      BY <1>0, <2>2, <3>1, ApplyFacts
    <3>3. QED
      BY <1>0, <1>1, <3>1, <3>2, RowsGrow
  <2>3. QED
    BY <2>1, <2>2
<1>3. QED
  BY <1>1, <1>2 DEF FindTopup

\* A new answer is true of the ledger, and committed top-ups keep old ones true.
LEMMA AnswersKept ==
    ASSUME IInv, CreditAssumption, StagedExact, AnswersHonest, [Next]_vars
    PROVE  AnswersHonest'
<1> DEFINE Witness(a, x) == (a.outcome # "conflict") <=> (x.tenant = a.tenant /\ x.amount = a.amount)
<1>0. TypeOK /\ SessionPart
  BY IInvParts DEF IInv
<1>1. ASSUME NEW a \in answers
      PROVE  \E x \in FindTopup(a.key)' : Witness(a, x)
  <2>1. PICK x \in FindTopup(a.key) : Witness(a, x)
    BY DEF AnswersHonest
  <2>2. QED
    BY <2>1, TopupsStay
<1>2. ASSUME NEW s \in Sessions, NEW x \in FindTopup(op[s].key), NEW a,
             a = AnswerOf(s, ReplayOrConflict(s, x))
      PROVE  \E y \in FindTopup(a.key)' : Witness(a, y)
  <2>1. /\ a.key = op[s].key /\ a.tenant = op[s].tenant /\ a.amount = op[s].amount
        /\ a.outcome = ReplayOrConflict(s, x)
    BY <1>2 DEF AnswerOf
  <2>2. Witness(a, x)
    BY <2>1 DEF ReplayOrConflict
  <2>3. QED
    BY <2>1, <2>2, TopupsStay
<1>3. ASSUME NEW s \in Sessions, Apply(s), op[s].kind = "topup", NEW a,
             a = AnswerOf(s, "created")
      PROVE  \E y \in FindTopup(a.key)' : Witness(a, y)
  <2> SUFFICES ASSUME NEW x, x = row[s], NEW t, t = op[s].tenant
               PROVE  \E y \in FindTopup(a.key)' : Witness(a, y)
    OBVIOUS
  <2>1. /\ a.key = op[s].key /\ a.tenant = op[s].tenant /\ a.amount = op[s].amount
        /\ a.outcome = "created"
    BY <1>3 DEF AnswerOf
  <2>2. x.type = "topup" /\ x.key = op[s].key /\ x.tenant = t /\ t \in Tenants
    BY <1>0, <1>3, CommittedRow
  <2>3. x.amount = op[s].amount
    BY <1>3, <2>2 DEF StagedExact, Apply
  <2>4. x \in Rows(t)'
    BY <1>0, <1>3, RowsGrow
  <2>5. x \in FindTopup(a.key)'
    BY <2>1, <2>2, <2>4 DEF FindTopup
  <2>6. QED
    BY <2>1, <2>2, <2>3, <2>5
<1>4. ASSUME NEW a \in answers'
      PROVE  \E x \in FindTopup(a.key)' : Witness(a, x)
  <2>1. CASE UNCHANGED answers
    BY <1>1, <2>1
  <2>2. ASSUME NEW s \in Sessions, AnswerExisting(s)
        PROVE  \E x \in FindTopup(a.key)' : Witness(a, x)
    <3>1. PICK x \in FindTopup(op[s].key) :
                 answers' = answers \cup {AnswerOf(s, ReplayOrConflict(s, x))}
      BY <2>2 DEF AnswerExisting
    <3>2. CASE a \in answers
      BY <1>1, <3>2
    <3>3. CASE a = AnswerOf(s, ReplayOrConflict(s, x))
      BY <1>2, <3>3
    <3>4. QED
      BY <3>1, <3>2, <3>3
  <2>3. ASSUME NEW s \in Sessions, CommitsAnswered(s)
        PROVE  \E x \in FindTopup(a.key)' : Witness(a, x)
    <3>1. CASE a \in answers
      BY <1>1, <3>1
    <3>2. CASE a \notin answers
      <4>1. Apply(s) /\ op[s].kind = "topup" /\ a = AnswerOf(s, "created")
        BY <2>3, <3>2 DEF CommitsAnswered
      <4>2. QED
        BY <1>3, <4>1
    <3>3. QED
      BY <3>1, <3>2
  <2>4. QED
    BY <2>1, <2>2, <2>3, StepKinds DEF OpensOffered, LockBalanceRow, StagesExact, Stage,
       LookupMiss, InsertConflict, EndsUncommitted, TransactionsRest
<1>5. QED
  BY <1>4 DEF AnswersHonest

\* Amounts, lock owners and answers stay right together throughout every behaviour.
LEMMA ExactInductive == Spec => [](IInv /\ ExactPart)
<1>1. Init => ExactPart
  BY DEF Init, ExactPart, AmountsSound, CallsOffered, StagedExact, LocksOwned, AnswersHonest, NoOp
<1>2. IInv /\ ExactPart /\ [Next]_vars => ExactPart'
  BY CreditAssumption, OffersKept, StagedKept, LocksKept, AnswersKept
  DEF ExactPart, AmountsSound
<1>3. QED
  BY <1>1, <1>2, Inductive, PTL DEF Spec

\* topup tells its caller the truth: "created" and "replayed" of a top-up that is in
\* the ledger as asked for, "conflict" of a key that is another top-up's, whatever
\* commits, retries and lost acknowledgements came before and come after.
THEOREM AnswersTrue == Spec => []AnswersHonest
<1>1. ExactPart => AnswersHonest
  BY DEF ExactPart
<1>2. QED
  BY <1>1, ExactInductive, PTL

\* A row of credit_ledger carries the amount of its call: the hold estimate, the
\* hold less the actual cost, the whole hold, or the top-up.
THEOREM AmountsExact == Spec => []AmountsSound
<1>1. ExactPart => AmountsSound
  BY DEF ExactPart
<1>2. QED
  BY <1>1, ExactInductive, PTL

\* The row locks and the unique index of the key never make transactions wait in a
\* cycle: whoever waits, waits for one that can end, at most two waits away.
THEOREM NoWaitCycle == Spec => []WaitsEnd
<1>1. CreditAssumption /\ IInv /\ LocksOwned => WaitsEnd
  <2> SUFFICES ASSUME CreditAssumption, IInv, LocksOwned,
                      NEW s \in Sessions, NEW o \in Sessions, NEW p \in Sessions,
                      WaitsFor(s, o), WaitsFor(o, p)
               PROVE  ~Waits(p)
    BY DEF WaitsEnd
  <2>1. ASSUME NEW x \in Sessions, NEW y \in Sessions, WaitsFor(x, y)
        PROVE  /\ pc[x] = "begin" => pc[y] \in OwnsLock
               /\ pc[x] = "looked" => pc[y] = "staged"
               /\ pc[x] \in {"begin", "looked"}
    <3>1. CASE pc[x] = "begin" /\ lock[op[x].tenant] = y
      <4>1. op[x].tenant \in Tenants
        BY <3>1, CallTyped, IInvParts
      <4>2. y # None
        BY DEF CreditAssumption
      <4>3. QED
        BY <3>1, <4>1, <4>2 DEF LocksOwned
    <3>2. CASE pc[x] = "looked" /\ pc[y] = "staged"
      BY <3>2
    <3>3. QED
      BY <2>1, <3>1, <3>2 DEF WaitsFor
  <2>2. pc[o] = "looked"
    BY <2>1 DEF OwnsLock
  <2>3. pc[p] = "staged"
    BY <2>1, <2>2
  <2>4. QED
    BY <2>1, <2>3 DEF Waits
<1>2. IInv /\ ExactPart => WaitsEnd
  BY <1>1, CreditAssumption DEF ExactPart
<1>3. QED
  BY <1>2, ExactInductive, PTL

-----------------------------------------------------------------------------
(* The refinement of CreditAccount.  Only a commit changes what an account *)
(* shows, and it maps to the one operation its row stands for.             *)

accountViews == <<balance, StatusView, HeldView, CostView, TopupsView>>

RowTypes == {"hold", "settle", "release"}

\* A step that commits nothing shows nothing.
LEMMA ViewsRest ==
    ASSUME UNCHANGED <<ledger, balance>>
    PROVE  UNCHANGED accountViews
<1>1. /\ \A r, types : RowOf(r, types)' = RowOf(r, types)
      /\ \A r, types : AmountOf(r, types)' = AmountOf(r, types)
      /\ \A k : FindTopup(k)' = FindTopup(k)
  BY QueriesFrame DEF RowOf, AmountOf
<1>2. StatusView' = StatusView
  BY <1>1 DEF StatusView
<1>3. HeldView' = HeldView
  BY <1>1 DEF HeldView
<1>4. CostView' = CostView
  BY <1>1, <1>3 DEF CostView
<1>5. TopupsView' = TopupsView
  BY <1>1 DEF TopupsView
<1>6. QED
  BY <1>2, <1>3, <1>4, <1>5 DEF accountViews

\* A commit adds its row to the rows of its own request and key, and to no other.
LEMMA RowsOfCommit ==
    ASSUME IInv, CreditAssumption, NEW s \in Sessions, Apply(s), NEW x, x = row[s]
    PROVE  /\ \A r \in Requests, types \in SUBSET RowTypes :
                 RowOf(r, types)' = RowOf(r, types)
                                        \cup {y \in {x} : x.req = r /\ x.type \in types}
           /\ \A k \in Keys :
                 FindTopup(k)' = FindTopup(k) \cup {y \in {x} : x.type = "topup" /\ x.key = k}
<1> SUFFICES ASSUME NEW t, t = op[s].tenant
             PROVE  /\ \A r \in Requests, types \in SUBSET RowTypes :
                          RowOf(r, types)' = RowOf(r, types)
                                        \cup {y \in {x} : x.req = r /\ x.type \in types}
                    /\ \A k \in Keys :
                          FindTopup(k)' = FindTopup(k)
                                        \cup {y \in {x} : x.type = "topup" /\ x.key = k}
  OBVIOUS
<1>1. SessionPart
  BY IInvParts
<1>2. t \in Tenants /\ (x.type # "topup" => TenantOf[x.req] = t)
  BY <1>1, CommittedRow
<1>3. Rows(t)' = Rows(t) \cup {x} /\ \A u \in Tenants \ {t} : Rows(u)' = Rows(u)
  BY <1>1, RowsGrow
<1>4. ASSUME NEW r \in Requests, NEW types \in SUBSET RowTypes
      PROVE  RowOf(r, types)' = RowOf(r, types) \cup {y \in {x} : x.req = r /\ x.type \in types}
  <2>1. TenantOf[r] \in Tenants
    BY DEF CreditAssumption
  <2>2. CASE TenantOf[r] = t
    <3>1. Rows(TenantOf[r])' = Rows(TenantOf[r]) \cup {x}
      BY <1>3, <2>2
    <3>2. QED
      BY <3>1 DEF RowOf
  <2>3. CASE TenantOf[r] # t
    <3>1. Rows(TenantOf[r])' = Rows(TenantOf[r])
      BY <1>3, <2>1, <2>3
    <3>2. x.req # r \/ x.type \notin types
      BY <1>2, <2>3 DEF RowTypes
    <3>3. QED
      BY <3>1, <3>2 DEF RowOf
  <2>4. QED
    BY <2>2, <2>3
<1>5. ASSUME NEW k \in Keys
      PROVE  FindTopup(k)' = FindTopup(k) \cup {y \in {x} : x.type = "topup" /\ x.key = k}
  BY <1>2, <1>3 DEF FindTopup
<1>6. QED
  BY <1>4, <1>5

\* A request has at most one hold and one settle, so its views are of that row.
LEMMA OneRowOf ==
    ASSUME IInv, CreditAssumption, NEW r \in Requests
    PROVE  /\ \A x, y \in RowOf(r, {"hold"}) : x = y
           /\ \A x, y \in RowOf(r, {"settle"}) : x = y
           /\ \A x \in RowOf(r, {"hold"}) : x.amount \in Int /\ AmountOf(r, {"hold"}) = x.amount
           /\ \A x \in RowOf(r, {"settle"}) :
                 x.amount \in Int /\ AmountOf(r, {"settle"}) = x.amount
<1> DEFINE t == TenantOf[r]
<1>1. t \in Tenants /\ ledger[t] \in Seq(Row)
  BY DEF CreditAssumption, IInv, TypeOK
<1>2. ASSUME NEW x \in Rows(t)
      PROVE  x.amount \in Int /\ \E i \in 1..Len(ledger[t]) : x = ledger[t][i]
  <2>1. PICK i \in 1..Len(ledger[t]) : x = ledger[t][i]
    BY DEF Rows
  <2>2. x \in Row
    BY <1>1, <2>1
  <2>3. QED
    BY <2>1, <2>2 DEF Row
<1>3. ASSUME NEW x \in RowOf(r, {"hold"}), NEW y \in RowOf(r, {"hold"})
      PROVE  x = y
  <2>1. x \in Rows(t) /\ y \in Rows(t) /\ x.req = y.req /\ x.type = "hold" /\ y.type = "hold"
    BY DEF RowOf
  <2>2. PICK i \in 1..Len(ledger[t]), j \in 1..Len(ledger[t]) : x = ledger[t][i] /\ y = ledger[t][j]
    BY <1>2, <2>1
  <2>3. i = j
    BY <1>1, <2>1, <2>2 DEF IInv, FinalizedOnce
  <2>4. QED
    BY <2>2, <2>3
<1>4. ASSUME NEW x \in RowOf(r, {"settle"}), NEW y \in RowOf(r, {"settle"})
      PROVE  x = y
  <2>1. x \in Rows(t) /\ y \in Rows(t) /\ x.req = y.req /\ x.type = "settle" /\ y.type = "settle"
    BY DEF RowOf
  <2>2. PICK i \in 1..Len(ledger[t]), j \in 1..Len(ledger[t]) : x = ledger[t][i] /\ y = ledger[t][j]
    BY <1>2, <2>1
  <2>3. {x.type, y.type} \subseteq {"settle", "release"}
    BY <2>1
  <2>4. i = j
    BY <1>1, <2>1, <2>2, <2>3 DEF IInv, FinalizedOnce
  <2>5. QED
    BY <2>2, <2>4
<1>5. ASSUME NEW T \in {{"hold"}, {"settle"}}, NEW x \in RowOf(r, T)
      PROVE  x.amount \in Int /\ AmountOf(r, T) = x.amount
  <2>1. (CHOOSE y \in RowOf(r, T) : TRUE) = x
    BY <1>3, <1>4, <1>5
  <2>2. x.amount \in Int
    BY <1>2 DEF RowOf
  <2>3. QED
    BY <2>1, <2>2 DEF AmountOf
<1>6. QED
  BY <1>3, <1>4, <1>5

\* What a commit leaves of the views of the requests and keys it is not about.
LEMMA OtherViews ==
    ASSUME IInv, CreditAssumption, NEW s \in Sessions, Apply(s), NEW x, x = row[s]
    PROVE  /\ \A q \in Requests : q # x.req =>
                 StatusView'[q] = StatusView[q] /\ HeldView'[q] = HeldView[q]
                     /\ CostView'[q] = CostView[q]
           /\ \A k \in Keys : (x.type # "topup" \/ x.key # k) => TopupsView'[k] = TopupsView[k]
<1>1. ASSUME NEW q \in Requests, q # x.req
      PROVE  /\ StatusView'[q] = StatusView[q] /\ HeldView'[q] = HeldView[q]
             /\ CostView'[q] = CostView[q]
  <2>1. ASSUME NEW T \in SUBSET RowTypes
        PROVE  RowOf(q, T)' = RowOf(q, T) /\ AmountOf(q, T)' = AmountOf(q, T)
    <3>1. RowOf(q, T)' = RowOf(q, T) \cup {y \in {x} : x.req = q /\ x.type \in T}
      BY RowsOfCommit
    <3>2. RowOf(q, T)' = RowOf(q, T)
      BY <1>1, <3>1
    <3>3. QED
      BY <3>2 DEF AmountOf
  <2>2. {"hold"} \in SUBSET RowTypes /\ {"settle"} \in SUBSET RowTypes
        /\ {"release"} \in SUBSET RowTypes
    BY DEF RowTypes
  <2>3. StatusView'[q] = StatusView[q]
    BY <2>1, <2>2 DEF StatusView
  <2>4. HeldView'[q] = HeldView[q]
    BY <2>1, <2>2 DEF HeldView
  <2>5. CostView'[q] = CostView[q]
    BY <2>1, <2>2, <2>4 DEF CostView
  <2>6. QED
    BY <2>3, <2>4, <2>5
<1>2. ASSUME NEW k \in Keys, x.type # "topup" \/ x.key # k
      PROVE  TopupsView'[k] = TopupsView[k]
  <2>1. FindTopup(k)' = FindTopup(k) \cup {y \in {x} : x.type = "topup" /\ x.key = k}
    BY RowsOfCommit
  <2>2. FindTopup(k)' = FindTopup(k)
    BY <1>2, <2>1
  <2>3. QED
    BY <2>2 DEF TopupsView
<1>3. QED
  BY <1>1, <1>2

\* The views are functions of the requests and the keys.
LEMMA ViewFunctions ==
    /\ StatusView = [q \in Requests |-> StatusView[q]]
    /\ StatusView' = [q \in Requests |-> StatusView'[q]]
    /\ HeldView = [q \in Requests |-> HeldView[q]]
    /\ HeldView' = [q \in Requests |-> HeldView'[q]]
    /\ CostView = [q \in Requests |-> CostView[q]]
    /\ CostView' = [q \in Requests |-> CostView'[q]]
    /\ TopupsView = [k \in Keys |-> TopupsView[k]]
    /\ TopupsView' = [k \in Keys |-> TopupsView'[k]]
BY DEF StatusView, HeldView, CostView, TopupsView

\* A finalised request has a hold.
LEMMA FinalizedHasHold ==
    ASSUME IInv, NEW t \in Tenants, NEW y \in Rows(t), y.type \in {"settle", "release"}
    PROVE  \E h \in Rows(t) : h.type = "hold" /\ h.req = y.req
<1>1. PICK i \in 1..Len(ledger[t]) : y = ledger[t][i]
  BY DEF Rows
<1>2. \E h \in 1..(i - 1) : ledger[t][h].type = "hold" /\ ledger[t][h].req = y.req
  BY <1>1 DEF IInv, FinalizedOnce
<1>3. Len(ledger[t]) \in Nat
  BY DEF IInv, TypeOK
<1>4. QED
  BY <1>2, <1>3 DEF Rows

\* The commit of a hold is the account's Hold of the offered estimate.
LEMMA HoldRefines ==
    ASSUME IInv, ExactPart, CreditAssumption, NEW s \in Sessions, Apply(s), op[s].kind = "hold"
    PROVE  Account!AccountNext
<1> SUFFICES ASSUME NEW x, x = row[s], NEW t, t = op[s].tenant, NEW r, r = op[s].req,
                    NEW e, e = op[s].amount
             PROVE  Account!AccountNext
  OBVIOUS
<1>0. SessionPart
  BY IInvParts
<1>1. /\ t \in Tenants /\ r \in Requests /\ x.type = "hold" /\ x.req = r /\ TenantOf[r] = t
      /\ balance[t] \in Int /\ x.after = balance[t] + x.amount /\ balance'[t] = x.after
      /\ x.after >= -Grace[t]
  BY <1>0, CommittedRow
<1>2. e \in Estimates /\ e \in Int /\ x.amount = -e
  <2>1. e \in Estimates
    BY DEF ExactPart, AmountsSound, CallsOffered
  <2>2. x.amount = -e
    BY <1>1 DEF ExactPart, AmountsSound, StagedExact, Apply
  <2>3. Estimates \subseteq Int
    BY DEF CreditAssumption
  <2>4. e \in Int
    BY <2>1, <2>3, Zenon
  <2>5. QED
    BY <2>1, <2>2, <2>4, Zenon
<1>3. \A T \in SUBSET RowTypes : RowOf(r, T) = {}
  <2>1. request[r] = "admitting"
    BY DEF IInv, AdmittedOnce
  <2>2. ASSUME NEW y \in Rows(t), y.req = r
        PROVE  y.type # "hold"
    BY <1>1, <2>1, <2>2 DEF IInv, AdmittedOnce, Rows
  <2>3. ASSUME NEW y \in Rows(t), y.req = r
        PROVE  y.type \notin RowTypes
    BY <1>1, <2>2, <2>3, FinalizedHasHold DEF RowTypes
  <2>4. QED
    BY <1>1, <2>3 DEF RowOf
<1>4. \A T \in SUBSET RowTypes : RowOf(r, T)' = {y \in {x} : x.type \in T}
  BY <1>1, <1>3, RowsOfCommit
<1>5. {"hold"} \in SUBSET RowTypes /\ {"settle"} \in SUBSET RowTypes
      /\ {"release"} \in SUBSET RowTypes
  BY DEF RowTypes
<1>6. StatusView[r] = "none" /\ StatusView'[r] = "open"
  BY <1>1, <1>3, <1>4, <1>5 DEF StatusView
<1>7. HeldView'[r] = e
  <2>1. RowOf(r, {"hold"})' = {x}
    BY <1>1, <1>4, <1>5
  <2>2. AmountOf(r, {"hold"})' = -e
    BY <1>2, <2>1 DEF AmountOf
  <2>3. QED
    BY <1>1, <1>2, <2>1, <2>2 DEF HeldView
<1>8. CostView[r] = 0 /\ CostView'[r] = 0
  BY <1>1, <1>3, <1>4, <1>5 DEF CostView
<1>9. /\ StatusView' = [StatusView EXCEPT ![r] = "open"]
      /\ HeldView' = [HeldView EXCEPT ![r] = e]
      /\ CostView' = CostView
  BY <1>1, <1>6, <1>7, <1>8, OtherViews, ViewFunctions
<1>10. TopupsView' = TopupsView
  BY <1>1, OtherViews, ViewFunctions
<1>11. balance' = [balance EXCEPT ![t] = @ - e]
  BY <1>1, <1>2 DEF Apply, IInv, TypeOK
<1>12. balance[t] - e >= -Grace[t]
  BY <1>1, <1>2
<1>13. Account!Hold(r, e)
  BY <1>1, <1>6, <1>9, <1>10, <1>11, <1>12 DEF Account!Hold
<1>14. QED
  BY <1>1, <1>2, <1>13 DEF Account!AccountNext

\* What is known of the hold that a settle or a release finalises.
LEMMA OpenHold ==
    ASSUME IInv, ExactPart, CreditAssumption, NEW s \in Sessions, Apply(s),
           IsFinalization(op[s].kind), NEW r, r = op[s].req
    PROVE  /\ r \in Requests
           /\ RowOf(r, {"settle"}) = {} /\ RowOf(r, {"release"}) = {}
           /\ StatusView[r] = "open"
           /\ HeldView[r] \in Int /\ row[s].amount = HeldView[r] - op[s].amount
           /\ HeldView'[r] = HeldView[r]
<1> SUFFICES ASSUME NEW x, x = row[s], NEW t, t = op[s].tenant
             PROVE  /\ r \in Requests
                    /\ RowOf(r, {"settle"}) = {} /\ RowOf(r, {"release"}) = {}
                    /\ StatusView[r] = "open"
                    /\ HeldView[r] \in Int /\ x.amount = HeldView[r] - op[s].amount
                    /\ HeldView'[r] = HeldView[r]
  OBVIOUS
<1>0. SessionPart
  BY IInvParts
<1>1. /\ t \in Tenants /\ r \in Requests /\ x.type = op[s].kind /\ x.req = r /\ TenantOf[r] = t
      /\ x.type \in {"settle", "release"}
  BY <1>0, CommittedRow DEF IsFinalization
<1>2. PICK h \in FindOpenHold(t, r) : x.amount = (-h.amount) - op[s].amount
  BY <1>1 DEF ExactPart, AmountsSound, StagedExact, Apply, IsFinalization
<1>3. h \in RowOf(r, {"hold"}) /\ RowOf(r, {"settle"}) = {} /\ RowOf(r, {"release"}) = {}
  BY <1>1, <1>2 DEF RowOf, FindOpenHold, Finalized
<1>4. h.amount \in Int /\ AmountOf(r, {"hold"}) = h.amount
  BY <1>1, <1>3, OneRowOf
<1>5. HeldView[r] = -h.amount
  BY <1>1, <1>3, <1>4 DEF HeldView
<1>6. StatusView[r] = "open"
  BY <1>1, <1>3 DEF StatusView
<1>7. HeldView'[r] = HeldView[r]
  <2>1. RowOf(r, {"hold"})' = RowOf(r, {"hold"}) \cup {y \in {x} : x.req = r /\ x.type \in {"hold"}}
    BY <1>1, RowsOfCommit DEF RowTypes
  <2>2. RowOf(r, {"hold"})' = RowOf(r, {"hold"})
    BY <1>1, <2>1
  <2>3. AmountOf(r, {"hold"})' = AmountOf(r, {"hold"})
    BY <2>2 DEF AmountOf
  <2>4. QED
    BY <1>1, <2>2, <2>3 DEF HeldView
<1>8. QED
  BY <1>1, <1>2, <1>3, <1>4, <1>5, <1>6, <1>7

\* The commit of a settle is the account's Settle of the reported cost.
LEMMA SettleRefines ==
    ASSUME IInv, ExactPart, CreditAssumption, NEW s \in Sessions, Apply(s), op[s].kind = "settle"
    PROVE  Account!AccountNext
<1> SUFFICES ASSUME NEW x, x = row[s], NEW t, t = op[s].tenant, NEW r, r = op[s].req,
                    NEW c, c = op[s].amount
             PROVE  Account!AccountNext
  OBVIOUS
<1>0. SessionPart
  BY IInvParts
<1>1. /\ t \in Tenants /\ r \in Requests /\ x.type = "settle" /\ x.req = r /\ TenantOf[r] = t
      /\ balance[t] \in Int /\ x.after = balance[t] + x.amount /\ balance'[t] = x.after
  BY <1>0, CommittedRow
<1>2. c \in Costs /\ c \in Int
  <2>1. c \in Costs
    BY DEF ExactPart, AmountsSound, CallsOffered
  <2>2. QED
    BY <2>1 DEF CreditAssumption
<1>3. /\ RowOf(r, {"settle"}) = {} /\ RowOf(r, {"release"}) = {}
      /\ StatusView[r] = "open" /\ HeldView'[r] = HeldView[r] /\ HeldView[r] \in Int
      /\ x.amount = HeldView[r] - c
  BY OpenHold DEF IsFinalization
<1>4. RowOf(r, {"settle"})' = {x}
  <2>1. RowOf(r, {"settle"})' =
          RowOf(r, {"settle"}) \cup {y \in {x} : x.req = r /\ x.type \in {"settle"}}
    BY <1>1, RowsOfCommit DEF RowTypes
  <2>2. QED
    BY <1>1, <1>3, <2>1
<1>5. StatusView'[r] = "settled"
  BY <1>1, <1>4 DEF StatusView
<1>6. CostView'[r] = c
  <2>1. AmountOf(r, {"settle"})' = x.amount
    BY <1>4 DEF AmountOf
  <2>2. CostView'[r] = HeldView'[r] - x.amount
    BY <1>1, <1>4, <2>1 DEF CostView
  <2>3. QED
    BY <1>2, <1>3, <2>2
<1>7. /\ StatusView' = [StatusView EXCEPT ![r] = "settled"]
      /\ CostView' = [CostView EXCEPT ![r] = c]
      /\ HeldView' = HeldView
  BY <1>1, <1>3, <1>5, <1>6, OtherViews, ViewFunctions
<1>8. TopupsView' = TopupsView
  BY <1>1, OtherViews, ViewFunctions
<1>9. balance' = [balance EXCEPT ![t] = @ + (HeldView[r] - c)]
  BY <1>1, <1>3 DEF Apply, IInv, TypeOK
<1>10. Account!Settle(r, c)
  BY <1>1, <1>3, <1>7, <1>8, <1>9 DEF Account!Settle
<1>11. QED
  BY <1>1, <1>2, <1>10 DEF Account!AccountNext

\* The commit of a release, by a caller or by the sweep, is the account's Release.
LEMMA ReleaseRefines ==
    ASSUME IInv, ExactPart, CreditAssumption, NEW s \in Sessions, Apply(s), op[s].kind = "release"
    PROVE  Account!AccountNext
<1> SUFFICES ASSUME NEW x, x = row[s], NEW t, t = op[s].tenant, NEW r, r = op[s].req
             PROVE  Account!AccountNext
  OBVIOUS
<1>0. SessionPart
  BY IInvParts
<1>1. /\ t \in Tenants /\ r \in Requests /\ x.type = "release" /\ x.req = r /\ TenantOf[r] = t
      /\ balance[t] \in Int /\ x.after = balance[t] + x.amount /\ balance'[t] = x.after
  BY <1>0, CommittedRow
<1>2. op[s].amount = 0
  BY DEF IInv, CallsOwned
<1>3. /\ RowOf(r, {"settle"}) = {} /\ RowOf(r, {"release"}) = {}
      /\ StatusView[r] = "open" /\ HeldView'[r] = HeldView[r] /\ HeldView[r] \in Int
      /\ x.amount = HeldView[r]
  BY <1>2, OpenHold DEF IsFinalization
<1>4. RowOf(r, {"settle"})' = {} /\ RowOf(r, {"release"})' = {x}
  <2>1. \A T \in SUBSET RowTypes :
          RowOf(r, T)' = RowOf(r, T) \cup {y \in {x} : x.req = r /\ x.type \in T}
    BY <1>1, RowsOfCommit
  <2>2. {"settle"} \in SUBSET RowTypes /\ {"release"} \in SUBSET RowTypes
    BY DEF RowTypes
  <2>3. QED
    BY <1>1, <1>3, <2>1, <2>2
<1>5. StatusView'[r] = "released"
  BY <1>1, <1>4 DEF StatusView
<1>6. CostView'[r] = CostView[r]
  BY <1>1, <1>3, <1>4 DEF CostView
<1>7. /\ StatusView' = [StatusView EXCEPT ![r] = "released"]
      /\ CostView' = CostView /\ HeldView' = HeldView
  BY <1>1, <1>3, <1>5, <1>6, OtherViews, ViewFunctions
<1>8. TopupsView' = TopupsView
  BY <1>1, OtherViews, ViewFunctions
<1>9. balance' = [balance EXCEPT ![t] = @ + HeldView[r]]
  BY <1>1, <1>3 DEF Apply, IInv, TypeOK
<1>10. Account!Release(r)
  BY <1>1, <1>3, <1>7, <1>8, <1>9 DEF Account!Release
<1>11. QED
  BY <1>1, <1>10 DEF Account!AccountNext

\* The commit of a top-up is the account's TopUp under its key.
LEMMA TopupRefines ==
    ASSUME IInv, ExactPart, CreditAssumption, NEW s \in Sessions, Apply(s), op[s].kind = "topup"
    PROVE  Account!AccountNext
<1> SUFFICES ASSUME NEW x, x = row[s], NEW t, t = op[s].tenant, NEW k, k = op[s].key,
                    NEW a, a = op[s].amount
             PROVE  Account!AccountNext
  OBVIOUS
<1>0. SessionPart
  BY IInvParts
<1>1. /\ t \in Tenants /\ k \in Keys /\ x.type = "topup" /\ x.key = k /\ x.tenant = t
      /\ x.req = None
      /\ balance[t] \in Int /\ x.after = balance[t] + x.amount /\ balance'[t] = x.after
  BY <1>0, CommittedRow
<1>2. a \in Amounts /\ a \in Int /\ x.amount = a
  <2>1. a \in Amounts
    BY DEF ExactPart, AmountsSound, CallsOffered
  <2>2. x.amount = a
    BY <1>1 DEF ExactPart, AmountsSound, StagedExact, Apply
  <2>3. Amounts \subseteq Int
    BY DEF CreditAssumption
  <2>4. a \in Int
    BY <2>1, <2>3, Zenon
  <2>5. QED
    BY <2>1, <2>2, <2>4, Zenon
<1>3. FindTopup(k) = {}
  <2>1. StagedRowSound(s)
    BY DEF IInv, StagedSound, Apply
  <2>2. QED
    BY <1>1, <2>1 DEF StagedRowSound
<1>4. FindTopup(k)' = {x}
  <2>1. FindTopup(k)' = FindTopup(k) \cup {y \in {x} : x.type = "topup" /\ x.key = k}
    BY <1>1, RowsOfCommit
  <2>2. QED
    BY <1>1, <1>3, <2>1
<1>5. TopupsView[k] = None
  BY <1>1, <1>3 DEF TopupsView
<1>6. TopupsView'[k] = [tenant |-> t, amount |-> a]
  BY <1>1, <1>2, <1>4 DEF TopupsView
<1>7. TopupsView' = [TopupsView EXCEPT ![k] = [tenant |-> t, amount |-> a]]
  BY <1>1, <1>6, OtherViews, ViewFunctions
<1>8. \A r \in Requests : r # x.req
  BY <1>1 DEF CreditAssumption
<1>9. StatusView' = StatusView /\ HeldView' = HeldView /\ CostView' = CostView
  BY <1>8, OtherViews, ViewFunctions
<1>10. balance' = [balance EXCEPT ![t] = @ + a]
  BY <1>1, <1>2 DEF Apply, IInv, TypeOK
<1>11. Account!TopUp(k, t, a)
  BY <1>5, <1>7, <1>9, <1>10 DEF Account!TopUp
<1>12. QED
  BY <1>1, <1>2, <1>11 DEF Account!AccountNext

\* Concurrent transactions, duplicate finalisers, the sweep, lost acknowledgements and
\* deaths together are an account whose admissions, settles, releases and top-ups each
\* happen at once: check_and_hold, settle, release and topup implement CreditAccount.
THEOREM LedgerRefines == Spec => AccountRefined
<1>1. Init => Account!AccountInit
  <2> SUFFICES ASSUME Init PROVE Account!AccountInit
    OBVIOUS
  <2>1. \A t \in Tenants : Rows(t) = {}
    BY DEF Init, Rows
  <2>2. /\ \A r \in Requests : \A types : RowOf(r, types) = {}
        /\ \A k : FindTopup(k) = {}
    BY <2>1, CreditAssumption DEF RowOf, FindTopup, CreditAssumption
  <2>3. QED
    BY <2>2 DEF Init, Account!AccountInit, StatusView, HeldView, CostView, TopupsView
<1>2. ASSUME IInv, ExactPart, [Next]_vars
      PROVE  Account!AccountNext \/ UNCHANGED accountViews
  <2>1. CASE UNCHANGED <<ledger, balance>>
    BY <2>1, ViewsRest
  <2>2. ASSUME NEW s \in Sessions, Apply(s)
        PROVE  Account!AccountNext
    <3>1. op[s].kind \in {"hold", "settle", "release", "topup"}
      BY <1>2, <2>2, CallTyped, IInvParts DEF Op, Apply
    <3>2. QED
      BY <1>2, <2>2, <3>1, CreditAssumption, HoldRefines, SettleRefines, ReleaseRefines,
         TopupRefines
  <2>3. QED
    BY <1>2, <2>1, <2>2, CreditAssumption, StepKinds
    DEF OpensOffered, Open, LockBalanceRow, StagesExact, Stage, LookupMiss, InsertConflict,
        EndsUncommitted, CommitsAnswered, TransactionsRest
<1>3. IInv /\ ExactPart /\ [Next]_vars => [Account!AccountNext]_(Account!accountVars)
  BY <1>2 DEF Account!accountVars, accountViews
<1>4. QED
  BY <1>1, <1>3, ExactInductive, PTL DEF Spec, AccountRefined, Account!AccountSpec

=============================================================================
