------------------------- MODULE UsagePipelineProofs -------------------------
(***************************************************************************)
(* Proofs about UsagePipeline, for any requests, processes, counters,      *)
(* costs and bounds that satisfy PipelineAssumption.                       *)
(***************************************************************************)
EXTENDS UsagePipeline, FiniteSetTheorems, TLAPS

\* Usages and corrections of distinct events are distinct charges with integer prices.
LEMMA ChargesTyped ==
    /\ \A e \in Events : Usage(e) \in Charge /\ Cost[e] \in Int
    /\ \A e \in Disconnected : Correction(e) \in Charge /\ Target[e] \in Int /\ e \in Events
    /\ \A e, f : Usage(e) # Correction(f)
    /\ \A e, f : (Usage(e) = Usage(f) => e = f) /\ (Correction(e) = Correction(f) => e = f)
<1>1. \A e \in Events : Usage(e) \in Charge /\ Cost[e] \in Int
  BY PipelineAssumption DEF Charge, Usage
<1>2. \A e \in Disconnected : Correction(e) \in Charge /\ Target[e] \in Int /\ e \in Events
  BY PipelineAssumption DEF Charge, Correction
<1>3. \A e, f : Usage(e) # Correction(f)
  BY DEF Usage, Correction
<1>4. \A e, f : (Usage(e) = Usage(f) => e = f) /\ (Correction(e) = Correction(f) => e = f)
  BY DEF Usage, Correction
<1> QED BY <1>1, <1>2, <1>3, <1>4

\* XADD keeps the earlier entries and adds one.
LEMMA XAddedTyped ==
    ASSUME stream \in Seq(Entry), NEW c \in Charge, NEW k \in Int
    PROVE  /\ XAdded(c, k) \in Seq(Entry)
           /\ Len(XAdded(c, k)) = Len(stream) + 1 /\ Len(stream) \in Nat
           /\ \A i \in 1..Len(stream) : XAdded(c, k)[i] = stream[i]
           /\ XAdded(c, k)[Len(stream) + 1] = [charge |-> c, cost |-> k]
<1> DEFINE en == [charge |-> c, cost |-> k]
<1>1. en \in Entry BY DEF Entry
<1>2. XAdded(c, k) = Append(stream, en) BY DEF XAdded
<1>4. en = [charge |-> c, cost |-> k] OBVIOUS
<1> HIDE DEF en
<1>3. /\ Append(stream, en) \in Seq(Entry)
      /\ Len(Append(stream, en)) = Len(stream) + 1 /\ Len(stream) \in Nat
      /\ \A i \in 1..Len(stream) : Append(stream, en)[i] = stream[i]
      /\ Append(stream, en)[Len(stream) + 1] = en
  BY <1>1
<1> QED BY <1>2, <1>3, <1>4

\* XADD appends one entry and leaves those before it alone (EVENTS_STREAM).
LEMMA StreamAppended ==
    ASSUME stream \in Seq(Entry), NEW c \in Charge, stream' = XAdded(c, Price(c)),
           Price(c) \in Int
    PROVE  /\ Len(stream) \in Nat /\ Len(stream') = Len(stream) + 1
           /\ \A i \in 1..Len(stream) : stream'[i] = stream[i]
           /\ stream'[Len(stream) + 1].charge = c
           /\ stream'[Len(stream) + 1].cost = Price(c)
<1> DEFINE k == Price(c)
<1>1. k \in Int /\ stream' = XAdded(c, k) OBVIOUS
<1>2. k = Price(c) OBVIOUS
<1> HIDE DEF k
<1>3. /\ Len(XAdded(c, k)) = Len(stream) + 1 /\ Len(stream) \in Nat
      /\ \A i \in 1..Len(stream) : XAdded(c, k)[i] = stream[i]
      /\ XAdded(c, k)[Len(stream) + 1] = [charge |-> c, cost |-> k]
  BY <1>1, XAddedTyped
<1>4. stream'[Len(stream) + 1] = [charge |-> c, cost |-> k] BY <1>1, <1>3
<1> QED BY <1>1, <1>2, <1>3, <1>4

\* What is read from the stream is a charge with its price.
LEMMA EntryTyped ==
    ASSUME stream \in Seq(Entry), NEW i \in 1..Len(stream)
    PROVE  stream[i].charge \in Charge /\ stream[i].cost \in Int
<1>1. stream[i] \in Entry OBVIOUS
<1> QED BY <1>1 DEF Entry

\* The effect of INSERT ... ON CONFLICT DO NOTHING under the event's own id.
LEMMA InsertTyped ==
    ASSUME rows \subseteq UsageRow, sum \in [Charge -> Int], NEW c \in Charge, NEW k \in Int,
           Insert(c, c, k)
    PROVE  rows' \subseteq UsageRow /\ sum' \in [Charge -> Int]
<1>1. [id |-> c, charge |-> c, cost |-> k] \in UsageRow BY DEF UsageRow
<1>2. CASE \E x \in rows : x.id = c BY <1>2 DEF Insert, ledgerVars
<1>3. CASE ~\E x \in rows : x.id = c BY <1>1, <1>3 DEF Insert
<1> QED BY <1>2, <1>3

\* The list of counters a request moves names each of them once (_record_internal).
LEMMA ScopesTyped ==
    /\ Len(Scopes) \in Nat \ {0}
    /\ \A i \in 1..Len(Scopes) : Scopes[i] \in ScopeSet
    /\ \A sc \in ScopeSet : \E i \in 1..Len(Scopes) : sc = Scopes[i]
    /\ \A i, j \in 1..Len(Scopes) : Scopes[i] = Scopes[j] => i = j
<1>1. Scopes \in Seq(ScopeSet) /\ Scopes # << >> BY PipelineAssumption
<1>2. Len(Scopes) \in Nat \ {0} BY <1>1
<1>3. DOMAIN Scopes = 1..Len(Scopes) BY <1>1
<1>4. \A i, j \in 1..Len(Scopes) : Scopes[i] = Scopes[j] => i = j
  BY <1>3, PipelineAssumption
<1> QED BY <1>2, <1>4 DEF ScopeSet

\* Counting a charge moves one counter by one.
LEMMA IncrementTyped ==
    ASSUME applied \in [ScopeSet -> [Charge -> Nat]],
           NEW i \in 1..Len(Scopes), NEW c \in Charge
    PROVE  /\ Increment(Scopes[i], c) \in [ScopeSet -> [Charge -> Nat]]
           /\ \A sc \in ScopeSet, d \in Charge : Increment(Scopes[i], c)[sc][d] =
                 IF sc = Scopes[i] /\ d = c THEN applied[sc][d] + 1 ELSE applied[sc][d]
<1>1. Scopes[i] \in ScopeSet BY ScopesTyped
<1> QED BY <1>1 DEF Increment

\* A record task stays one when it moves to its next stage or counter.
LEMMA TaskUpdates ==
    ASSUME NEW t \in Task
    PROVE  /\ \A pc \in {"new", "fallback", "counting", "done", "failed"} :
                 [t EXCEPT !.pc = pc] \in Task
           /\ \A i \in 1..Len(Scopes) : [t EXCEPT !.scope = i] \in Task
BY DEF Task

\* A recovery stays one when it moves to its next stage, counter or delta.
LEMMA RecoveryUpdates ==
    ASSUME NEW v \in Recovery
    PROVE  /\ \A pc \in {"polling", "adding", "marking", "counting"} :
                 [v EXCEPT !.pc = pc] \in Recovery
           /\ \A i \in 1..Len(Scopes) : [v EXCEPT !.scope = i] \in Recovery
           /\ \A d \in Int : [v EXCEPT !.pc = "adding", !.delta = d] \in Recovery
BY DEF Recovery

-----------------------------------------------------------------------------
(* Type correctness, one action at a time.                                 *)

\* The step of one request's record task.
LEMMA TypedRecorder ==
    ASSUME TypeOK, RecorderNext PROVE TypeOK'
<1> USE DEF ledgerVars, flusherVars, recoveryVars
<1>1. PICK e \in Events : \/ XAdd(e) \/ XAddFails(e) \/ FallbackInsert(e) \/ FallbackFails(e)
                          \/ Count(e) \/ CountFails(e) \/ RecordDies(e)
  BY DEF RecorderNext
<1>2. /\ Usage(e) \in Charge /\ Cost[e] \in Int
      /\ XAdded(Usage(e), Cost[e]) \in Seq(Entry)
      /\ Len(XAdded(Usage(e), Cost[e])) = Len(stream) + 1 /\ Len(stream) \in Nat
  BY ChargesTyped, XAddedTyped DEF TypeOK
<1>3. Insert(Usage(e), Usage(e), Cost[e]) => rows' \subseteq UsageRow /\ sum' \in [Charge -> Int]
  BY <1>2, InsertTyped DEF TypeOK
<1>4. task[e] \in Task /\ task[e].scope \in 1..Len(Scopes) /\ Scopes[task[e].scope] \in ScopeSet
  BY ScopesTyped DEF TypeOK, Task
<1>5. Increment(Scopes[task[e].scope], Usage(e)) \in [ScopeSet -> [Charge -> Nat]]
  BY <1>2, <1>4, IncrementTyped DEF TypeOK
<1>6. \A pc \in {"new", "fallback", "counting", "done", "failed"} :
         MoveTask(e, pc) => task' \in [Events -> Task]
  BY <1>4, TaskUpdates DEF MoveTask, TypeOK
<1>7. CASE XAdd(e)
  BY <1>2, <1>6, <1>7 DEF XAdd, TypeOK
<1>8. CASE XAddFails(e)
  BY <1>2, <1>6, <1>8 DEF XAddFails, Fails, TypeOK
<1>9. CASE FallbackInsert(e)
  BY <1>3, <1>6, <1>9 DEF FallbackInsert, TypeOK
<1>10. CASE FallbackFails(e)
  BY <1>3, <1>6, <1>10 DEF FallbackFails, Fails, TypeOK
<1>11. CASE Count(e)
  <2>1. task' \in [Events -> Task]
    <3>1. CASE task[e].scope = Len(Scopes)
      <4>1. task' = [task EXCEPT ![e] = [task[e] EXCEPT !.pc = "done"]]
        BY <1>11, <3>1 DEF Count
      <4> QED BY <4>1, <1>4, TaskUpdates DEF TypeOK
    <3>2. CASE task[e].scope # Len(Scopes)
      <4>1. task' = [task EXCEPT ![e] = [task[e] EXCEPT !.scope = task[e].scope + 1]]
        BY <1>11, <3>2 DEF Count
      <4>2. task[e].scope + 1 \in 1..Len(Scopes) BY <1>4, <3>2, ScopesTyped
      <4> QED BY <4>1, <4>2, <1>4, TaskUpdates DEF TypeOK
    <3> QED BY <3>1, <3>2
  <2> QED BY <2>1, <1>5, <1>11 DEF Count, TypeOK
<1>12. CASE CountFails(e)
  <2>1. task' \in [Events -> Task] BY <1>6, <1>12 DEF CountFails
  <2>2. applied' \in [ScopeSet -> [Charge -> Nat]] BY <1>5, <1>12 DEF CountFails, TypeOK
  <2> QED BY <2>1, <2>2, <1>12 DEF CountFails, Fails, TypeOK
<1>13. CASE RecordDies(e)
  BY <1>6, <1>13 DEF RecordDies, Fails, TypeOK
<1> QED BY <1>1, <1>7, <1>8, <1>9, <1>10, <1>11, <1>12, <1>13

\* The entries past the group's cursor are a finite tail of the stream (XREADGROUP).
LEMMA UnreadTyped ==
    ASSUME TypeOK
    PROVE  /\ Cardinality(Unread) \in Nat
           /\ cursor + Cardinality(Unread) \in 0..Len(stream)
           /\ Unread \subseteq 1..(cursor + Cardinality(Unread))
           /\ \A i \in 1..Len(stream) : i > cursor + Cardinality(Unread) \/ i \in Unread \/ i <= cursor
<1>1. cursor \in Nat /\ Len(stream) \in Nat /\ cursor <= Len(stream) /\ BatchCount \in Nat
  BY PipelineAssumption DEF TypeOK
<1> DEFINE last == IF Len(stream) <= cursor + BatchCount THEN Len(stream) ELSE cursor + BatchCount
<1>2. Unread = (cursor + 1)..last
  BY <1>1 DEF Unread
<1>3. last \in Nat /\ last >= cursor /\ last <= Len(stream)
  BY <1>1
<1> HIDE DEF last
<1>4. Cardinality(Unread) = last - cursor
  <2>1. cursor + 1 \in Int /\ last \in Int BY <1>1, <1>3
  <2>2. Cardinality((cursor + 1)..last) =
           IF cursor + 1 > last THEN 0 ELSE last - (cursor + 1) + 1
    BY <2>1, FS_Interval
  <2> QED BY <1>1, <1>2, <1>3, <2>2
<1>5. cursor + Cardinality(Unread) = last BY <1>1, <1>3, <1>4
<1> QED BY <1>1, <1>2, <1>3, <1>4, <1>5

\* The step of one flusher.
LEMMA TypedFlusher ==
    ASSUME TypeOK, FlusherNext PROVE TypeOK'
<1> USE DEF ledgerVars, flusherVars, recoveryVars
<1>1. PICK w \in Workers : \/ Claim(w) \/ ClaimFails(w) \/ ReadNew(w) \/ ReadFails(w)
                           \/ InsertRow(w) \/ InsertFails(w) \/ Ack(w) \/ AckFails(w)
                           \/ EndCycle(w) \/ WorkerDies(w)
  BY DEF FlusherNext
<1>2. Oldest(stale) \subseteq stale BY DEF Oldest
<1>3. cursor \in Nat /\ Len(stream) \in Nat /\ stream \in Seq(Entry)
  BY DEF TypeOK
<1>4. \A i \in batch[w] : InsertEntry(i) => rows' \subseteq UsageRow /\ sum' \in [Charge -> Int]
  <2> SUFFICES ASSUME NEW i \in batch[w], InsertEntry(i)
               PROVE  rows' \subseteq UsageRow /\ sum' \in [Charge -> Int]
    OBVIOUS
  <2>1. i \in 1..Len(stream) BY <1>3 DEF TypeOK
  <2>2. stream[i].charge \in Charge /\ stream[i].cost \in Int
    BY <2>1, <1>3, EntryTyped
  <2> QED BY <2>2, InsertTyped DEF InsertEntry, RecordId, TypeOK
<1>5. CASE Claim(w)
  BY <1>2, <1>5 DEF Claim, TypeOK
<1>6. CASE ClaimFails(w)
  BY <1>2, <1>6 DEF ClaimFails, Fails, TypeOK
<1>7. CASE ReadNew(w)
  <2>1. cursor' \in 0..Len(stream') /\ cursor' >= cursor /\ cursor' \in Nat
    BY <1>7, <1>3, UnreadTyped DEF ReadNew
  <2>2. Unread \subseteq 1..cursor' BY <1>7, UnreadTyped DEF ReadNew
  <2>3. 1..cursor \subseteq 1..cursor' /\ 0..cursor \subseteq 0..cursor' BY <2>1, <1>3
  <2> QED BY <2>1, <2>2, <2>3, <1>7 DEF ReadNew, TypeOK
<1>8. CASE ReadFails(w)
  <2>1. cursor' \in 0..Len(stream') /\ cursor' >= cursor /\ cursor' \in Nat
    BY <1>8, <1>3, UnreadTyped DEF ReadFails, TypeOK
  <2>2. pel' \subseteq pel \cup Unread /\ pel \subseteq pel' BY <1>8 DEF ReadFails
  <2>4. 1..cursor \subseteq 1..cursor' /\ 0..cursor \subseteq 0..cursor' BY <2>1, <1>3
  <2>3. pel' \subseteq 1..cursor'
    <3>1. CASE UNCHANGED <<pel, cursor>> BY <3>1 DEF TypeOK
    <3>2. CASE pel' = pel \cup Unread /\ cursor' = cursor + Cardinality(Unread)
      BY <3>2, <2>4, UnreadTyped DEF TypeOK
    <3> QED BY <3>1, <3>2, <1>8 DEF ReadFails
  <2> QED BY <2>1, <2>2, <2>3, <2>4, <1>8 DEF ReadFails, Fails, TypeOK
<1>9. CASE InsertRow(w)
  BY <1>3, <1>4, <1>9 DEF InsertRow, TypeOK
<1>10. CASE InsertFails(w)
  BY <1>3, <1>4, <1>10 DEF InsertFails, Fails, TypeOK
<1>11. CASE Ack(w)
  <2>1. pel' \subseteq 1..cursor' /\ stale' \subseteq pel' BY <1>11 DEF Ack, TypeOK
  <2>2. inserted' \in [Workers -> 0..cursor'] BY <1>3, <1>11 DEF Ack, TypeOK
  <2> QED BY <2>1, <2>2, <1>11 DEF Ack, TypeOK
<1>12. CASE AckFails(w)
  BY <1>3, <1>12 DEF AckFails, Fails, TypeOK
<1>13. CASE EndCycle(w)
  BY <1>13 DEF EndCycle, TypeOK
<1>14. CASE WorkerDies(w)
  BY <1>3, <1>14 DEF WorkerDies, Fails, TypeOK
<1> QED BY <1>1, <1>5, <1>6, <1>7, <1>8, <1>9, <1>10, <1>11, <1>12, <1>13, <1>14

\* The step of one recovery.
LEMMA TypedRecovery ==
    ASSUME TypeOK, RecoveryNext PROVE TypeOK'
<1> USE DEF ledgerVars, flusherVars, recoveryVars
<1>1. PICK x \in Recoverers :
         \/ \E e \in Disconnected : StartRecovery(x, e)
         \/ GiveUp(x) \/ BillDelta(x)
         \/ AddCorrection(x) \/ AddCorrectionUnanswered(x)
         \/ Mark(x) \/ MarkUnanswered(x)
         \/ CountCorrection(x) \/ CountCorrectionUnanswered(x)
  BY DEF RecoveryNext
<1>2. recovery[x] \in Recovery \cup {NoRecovery} BY DEF TypeOK
<1>3. recovery[x].pc # "idle" => recovery[x] \in Recovery BY <1>2 DEF NoRecovery
<1>4. Leave(x) => recovery' \in [Recoverers -> Recovery \cup {NoRecovery}]
  BY DEF Leave, TypeOK
<1>5. \A pc \in {"polling", "adding", "marking", "counting"} :
         recovery[x].pc # "idle" /\ Step(x, pc) =>
            recovery' \in [Recoverers -> Recovery \cup {NoRecovery}]
  <2> SUFFICES ASSUME NEW pc \in {"polling", "adding", "marking", "counting"},
                      recovery[x].pc # "idle", Step(x, pc)
               PROVE  recovery' \in [Recoverers -> Recovery \cup {NoRecovery}]
    OBVIOUS
  <2>1. recovery' = [recovery EXCEPT ![x] = [recovery[x] EXCEPT !.pc = pc]] BY DEF Step
  <2>2. [recovery[x] EXCEPT !.pc = pc] \in Recovery BY <1>3, RecoveryUpdates
  <2> QED BY <2>1, <2>2 DEF TypeOK
<1>6. recovery[x].pc # "idle" =>
         /\ recovery[x].event \in Disconnected /\ recovery[x].scope \in 1..Len(Scopes)
         /\ recovery[x].delta \in Int
         /\ Correction(recovery[x].event) \in Charge
  BY <1>3, ChargesTyped DEF Recovery
<1>7. recovery[x].pc # "idle" /\ Correcting(x) =>
         stream' \in Seq(Entry) /\ Len(stream') = Len(stream) + 1 /\ Len(stream) \in Nat
  <2> SUFFICES ASSUME recovery[x].pc # "idle", Correcting(x)
               PROVE  stream' \in Seq(Entry) /\ Len(stream') = Len(stream) + 1 /\ Len(stream) \in Nat
    OBVIOUS
  <2>1. stream \in Seq(Entry) BY DEF TypeOK
  <2>2. stream' = XAdded(Correction(recovery[x].event), recovery[x].delta) BY DEF Correcting
  <2> QED BY <2>1, <2>2, <1>6, XAddedTyped
<1>8. recovery[x].pc # "idle" =>
         Increment(Scopes[recovery[x].scope], Correction(recovery[x].event))
            \in [ScopeSet -> [Charge -> Nat]]
  BY <1>6, IncrementTyped DEF TypeOK
<1>9. CASE \E e \in Disconnected : StartRecovery(x, e)
  <2>1. PICK e \in Disconnected : StartRecovery(x, e) BY <1>9
  <2>2. [pc |-> "polling", event |-> e, delta |-> 0, scope |-> 1] \in Recovery
    BY ScopesTyped DEF Recovery
  <2>3. recovery' \in [Recoverers -> Recovery \cup {NoRecovery}]
    BY <2>1, <2>2 DEF StartRecovery, TypeOK
  <2> QED BY <2>1, <2>3 DEF StartRecovery, TypeOK
<1>10. CASE GiveUp(x)
  BY <1>4, <1>10 DEF GiveUp, TypeOK
<1>11. CASE BillDelta(x)
  <2>1. recovery[x] \in Recovery BY <1>3, <1>11 DEF BillDelta
  <2>2. Target[recovery[x].event] - AlreadyBilled(recovery[x].event) \in Int
    BY <1>6, <1>11, ChargesTyped DEF BillDelta, AlreadyBilled, TypeOK
  <2>3. recovery' \in [Recoverers -> Recovery \cup {NoRecovery}]
    <3>1. CASE Billed(Correction(recovery[x].event)) BY <3>1, <1>4, <1>11 DEF BillDelta
    <3>2. CASE ~Billed(Correction(recovery[x].event))
      <4> DEFINE d == Target[recovery[x].event] - AlreadyBilled(recovery[x].event)
      <4>1. recovery' = [recovery EXCEPT ![x] =
               [recovery[x] EXCEPT !.pc = "adding", !.delta = d]]
        BY <3>2, <1>11 DEF BillDelta
      <4>2. d \in Int BY <2>2
      <4> HIDE DEF d
      <4>3. [recovery[x] EXCEPT !.pc = "adding", !.delta = d] \in Recovery
        BY <4>2, <2>1, RecoveryUpdates
      <4> QED BY <4>1, <4>3 DEF TypeOK
    <3> QED BY <3>1, <3>2
  <2> QED BY <2>3, <1>11 DEF BillDelta, TypeOK
<1>12. CASE AddCorrection(x)
  <2>1. recovery' \in [Recoverers -> Recovery \cup {NoRecovery}]
    BY <1>4, <1>5, <1>12 DEF AddCorrection
  <2> QED BY <2>1, <1>7, <1>12 DEF AddCorrection, TypeOK
<1>13. CASE AddCorrectionUnanswered(x)
  BY <1>4, <1>7, <1>13 DEF AddCorrectionUnanswered, Fails, TypeOK
<1>14. CASE Mark(x)
  <2>1. recovery' \in [Recoverers -> Recovery \cup {NoRecovery}]
    BY <1>4, <1>5, <1>14 DEF Mark
  <2> QED BY <2>1, <1>6, <1>14 DEF Mark, TypeOK
<1>15. CASE MarkUnanswered(x)
  BY <1>4, <1>6, <1>15 DEF MarkUnanswered, Fails, TypeOK
<1>16. CASE CountCorrection(x)
  <2>1. recovery[x] \in Recovery BY <1>3, <1>16 DEF CountCorrection
  <2>2. recovery' \in [Recoverers -> Recovery \cup {NoRecovery}]
    <3>1. CASE recovery[x].scope = Len(Scopes) BY <3>1, <1>4, <1>16 DEF CountCorrection
    <3>2. CASE recovery[x].scope # Len(Scopes)
      <4>1. recovery' = [recovery EXCEPT ![x] =
               [recovery[x] EXCEPT !.scope = recovery[x].scope + 1]]
        BY <1>16, <3>2 DEF CountCorrection
      <4>2. recovery[x].scope + 1 \in 1..Len(Scopes)
        BY <1>6, <1>16, <3>2, ScopesTyped DEF CountCorrection
      <4>3. [recovery[x] EXCEPT !.scope = recovery[x].scope + 1] \in Recovery
        BY <4>2, <2>1, RecoveryUpdates
      <4> QED BY <4>1, <4>3 DEF TypeOK
    <3> QED BY <3>1, <3>2
  <2> QED BY <2>2, <1>8, <1>16 DEF CountCorrection, TypeOK
<1>17. CASE CountCorrectionUnanswered(x)
  BY <1>4, <1>8, <1>17 DEF CountCorrectionUnanswered, Fails, TypeOK
<1> QED BY <1>1, <1>9, <1>10, <1>11, <1>12, <1>13, <1>14, <1>15, <1>16, <1>17

\* Empty stream, ledger and counters have the types.
LEMMA TypedInit == Init => TypeOK
<1> SUFFICES ASSUME Init PROVE TypeOK
  OBVIOUS
<1>1. \A e \in Events : [pc |-> "new", scope |-> 1] \in Task
  BY ScopesTyped DEF Task
<1>2. stream \in Seq(Entry) /\ Len(stream) = 0 BY DEF Init
<1>3. 1..0 = {} /\ 0..0 = {0} OBVIOUS
<1>4. pel = {} /\ stale = {} /\ rows = {} /\ marked = {} BY DEF Init
<1>5. task \in [Events -> Task] BY <1>1 DEF Init
<1>6. applied \in [ScopeSet -> [Charge -> Nat]] /\ sum \in [Charge -> Int] BY DEF Init
<1>7. recovery \in [Recoverers -> Recovery \cup {NoRecovery}] BY DEF Init
<1> QED BY <1>2, <1>3, <1>4, <1>5, <1>6, <1>7 DEF Init, TypeOK

\* Every step keeps the types (TypeOK).
LEMMA TypedStep == TypeOK /\ [Next]_vars => TypeOK'
<1> SUFFICES ASSUME TypeOK, [Next]_vars PROVE TypeOK'
  OBVIOUS
<1>1. CASE RecorderNext BY <1>1, TypedRecorder
<1>2. CASE FlusherNext BY <1>2, TypedFlusher
<1>3. CASE RecoveryNext BY <1>3, TypedRecovery
<1>4. CASE \E i \in pel : Idles(i)
  BY <1>4 DEF Idles, TypeOK, ledgerVars, flusherVars, recoveryVars
<1>5. CASE UNCHANGED vars
  BY <1>5 DEF vars, TypeOK
<1> QED BY <1>1, <1>2, <1>3, <1>4, <1>5 DEF Next

\* Every reachable state of the pipeline is well typed.
THEOREM Typed == Spec => []TypeOK
BY TypedInit, TypedStep, PTL DEF Spec

-----------------------------------------------------------------------------
(* How a step changes the stream and the ledger.                           *)

\* A usage is priced at what was recorded, a correction at what is missing (recover()).
LEMMA PriceOf ==
    /\ \A e \in Events : Price(Usage(e)) = Cost[e] /\ Price(Usage(e)) \in Int
    /\ \A e \in Disconnected :
          Price(Correction(e)) = Target[e] - Cost[e] /\ Price(Correction(e)) \in Int
    /\ \A c \in Charge : Price(c) \in Int
    /\ \A c \in Charge : (\E e \in Events : c = Usage(e)) \/ (\E e \in Disconnected : c = Correction(e))
<1>1. \A e : Usage(e)[1] = e /\ Usage(e)[2] = "usage" BY DEF Usage
<1>2. \A e : Correction(e)[1] = e /\ Correction(e)[2] = "correction" BY DEF Correction
<1>3. \A e \in Events : Price(Usage(e)) = Cost[e] BY <1>1 DEF Price
<1>4. \A e \in Disconnected : Price(Correction(e)) = Target[e] - Cost[e] BY <1>2 DEF Price
<1>5. \A c \in Charge : (\E e \in Events : c = Usage(e)) \/ (\E e \in Disconnected : c = Correction(e))
  BY DEF Charge, Usage, Correction
<1>6. \A e \in Events : Cost[e] \in Int BY ChargesTyped
<1>7. \A e \in Disconnected : Target[e] \in Int /\ Cost[e] \in Int BY ChargesTyped
<1>8. \A e \in Events : Price(Usage(e)) \in Int BY <1>3, <1>6
<1>9. \A e \in Disconnected : Price(Correction(e)) \in Int BY <1>4, <1>7
<1> QED BY <1>3, <1>4, <1>5, <1>8, <1>9

\* An entry added to the stream bears its charge's price, and a correction comes
\* after the usage record it corrects.
LEMMA StreamStep ==
    ASSUME PInv, [Next]_vars
    PROVE  \/ stream' = stream
           \/ \E c \in Charge : /\ stream' = XAdded(c, Price(c))
                                /\ \A e \in Disconnected : c = Correction(e) => Billed(Usage(e))
<1> USE DEF ledgerVars, flusherVars, recoveryVars
<1>1. CASE RecorderNext
  <2>1. stream' = stream \/ \E e \in Events : stream' = XAdded(Usage(e), Cost[e])
    BY <1>1 DEF RecorderNext, XAdd, XAddFails, FallbackInsert, FallbackFails, Count,
                CountFails, RecordDies
  <2> QED BY <2>1, PriceOf, ChargesTyped
<1>2. CASE FlusherNext
  BY <1>2 DEF FlusherNext, Claim, ClaimFails, ReadNew, ReadFails, InsertRow, InsertFails,
              Ack, AckFails, EndCycle, WorkerDies
<1>3. CASE RecoveryNext
  <2>1. stream' = stream \/ \E x \in Recoverers : recovery[x].pc = "adding" /\ Correcting(x)
    BY <1>3 DEF RecoveryNext, StartRecovery, GiveUp, BillDelta, AddCorrection,
                AddCorrectionUnanswered, Mark, MarkUnanswered, CountCorrection,
                CountCorrectionUnanswered
  <2> SUFFICES ASSUME NEW x \in Recoverers, recovery[x].pc = "adding", Correcting(x)
               PROVE  \E c \in Charge :
                         /\ stream' = XAdded(c, Price(c))
                         /\ \A e \in Disconnected : c = Correction(e) => Billed(Usage(e))
    BY <2>1
  <2>2. recovery[x] \in Recovery BY DEF PInv, TypeOK, NoRecovery
  <2>3. recovery[x].event \in Disconnected BY <2>2 DEF Recovery
  <2>4. recovery[x].delta = Price(Correction(recovery[x].event))
        /\ Billed(Usage(recovery[x].event))
    BY DEF PInv, PricedRight
  <2>5. stream' = XAdded(Correction(recovery[x].event), Price(Correction(recovery[x].event)))
    BY <2>4 DEF Correcting
  <2> QED BY <2>3, <2>4, <2>5, ChargesTyped
<1>4. CASE (\E i \in pel : Idles(i)) \/ UNCHANGED vars
  BY <1>4 DEF Idles, vars
<1> QED BY <1>1, <1>2, <1>3, <1>4 DEF Next

\* A row added to the ledger is keyed by its charge and bears its price.
LEMMA LedgerStep ==
    ASSUME PInv, [Next]_vars
    PROVE  \/ UNCHANGED ledgerVars
           \/ \E c \in Charge : /\ Insert(c, c, Price(c))
                                /\ \A e \in Disconnected : c = Correction(e) => Billed(Usage(e))
<1> USE DEF flusherVars, recoveryVars
<1>1. CASE RecorderNext
  <2>1. UNCHANGED ledgerVars \/ \E e \in Events : Insert(Usage(e), Usage(e), Cost[e])
    BY <1>1 DEF RecorderNext, XAdd, XAddFails, FallbackInsert, FallbackFails, Count,
                CountFails, RecordDies
  <2> QED BY <2>1, PriceOf, ChargesTyped
<1>2. CASE FlusherNext
  <2>1. UNCHANGED ledgerVars \/ \E w \in Workers : \E i \in batch[w] : InsertEntry(i)
    BY <1>2 DEF FlusherNext, Claim, ClaimFails, ReadNew, ReadFails, InsertRow, InsertFails,
                Ack, AckFails, EndCycle, WorkerDies
  <2> SUFFICES ASSUME NEW w \in Workers, NEW i \in batch[w], InsertEntry(i)
               PROVE  \E c \in Charge :
                         /\ Insert(c, c, Price(c))
                         /\ \A e \in Disconnected : c = Correction(e) => Billed(Usage(e))
    BY <2>1
  <2>2. cursor \in Nat /\ Len(stream) \in Nat /\ cursor <= Len(stream) /\ batch[w] \subseteq 1..cursor
    BY DEF PInv, TypeOK
  <2>3. i \in 1..Len(stream) BY <2>2
  <2>4. stream[i].charge \in Charge BY <2>3, EntryTyped DEF PInv, TypeOK
  <2>5. stream[i].cost = Price(stream[i].charge) BY <2>3 DEF PInv, PricedRight
  <2>6. \A e \in Disconnected : stream[i].charge = Correction(e) => Billed(Usage(e))
    BY <2>3 DEF PInv, PricedRight, Durable, InStream
  <2> QED BY <2>4, <2>5, <2>6 DEF InsertEntry, RecordId
<1>3. CASE RecoveryNext
  BY <1>3 DEF RecoveryNext, StartRecovery, GiveUp, BillDelta, AddCorrection,
              AddCorrectionUnanswered, Mark, MarkUnanswered, CountCorrection,
              CountCorrectionUnanswered
<1>4. CASE (\E i \in pel : Idles(i)) \/ UNCHANGED vars
  BY <1>4 DEF Idles, vars, ledgerVars
<1> QED BY <1>1, <1>2, <1>3, <1>4 DEF Next

\* What the stream or the ledger has, it keeps.
LEMMA Grows ==
    ASSUME PInv, [Next]_vars
    PROVE  /\ Len(stream) \in Nat /\ Len(stream') \in Nat /\ Len(stream) <= Len(stream')
           /\ \A i \in 1..Len(stream) : i \in 1..Len(stream') /\ stream'[i] = stream[i]
           /\ rows \subseteq rows'
           /\ \A c : (Billed(c) => Billed(c)') /\ (InStream(c) => InStream(c)')
                       /\ (Durable(c) => Durable(c)')
<1>1. rows \subseteq rows' BY LedgerStep DEF Insert, ledgerVars
<1>2. /\ Len(stream) \in Nat /\ Len(stream') \in Nat /\ Len(stream) <= Len(stream')
      /\ \A i \in 1..Len(stream) : i \in 1..Len(stream') /\ stream'[i] = stream[i]
  <2>1. stream \in Seq(Entry) BY DEF PInv, TypeOK
  <2>2. Len(stream) \in Nat BY <2>1
  <2>3. CASE stream' = stream BY <2>2, <2>3
  <2>4. CASE \E c \in Charge : stream' = XAdded(c, Price(c))
    <3>1. PICK c \in Charge : stream' = XAdded(c, Price(c)) BY <2>4
    <3>2. Price(c) \in Int BY PriceOf
    <3>3. /\ Len(stream') = Len(stream) + 1
          /\ \A i \in 1..Len(stream) : stream'[i] = stream[i]
      BY <2>1, <3>1, <3>2, StreamAppended
    <3> QED BY <2>2, <3>3
  <2> QED BY <2>3, <2>4, StreamStep
<1>3. \A c : Billed(c) => Billed(c)' BY <1>1 DEF Billed
<1>4. \A c : InStream(c) => InStream(c)'
  <2> SUFFICES ASSUME NEW c, NEW i \in 1..Len(stream), stream[i].charge = c
               PROVE  \E j \in 1..Len(stream') : stream'[j].charge = c
    BY DEF InStream
  <2> QED BY <1>2
<1>5. \A c : Durable(c) => Durable(c)' BY <1>3, <1>4 DEF Durable
<1> QED BY <1>1, <1>2, <1>3, <1>4, <1>5

\* Rows stay keyed by their charge, one row for each.
LEMMA RowsKeyedStep == PInv /\ [Next]_vars => RowsKeyed'
<1> SUFFICES ASSUME PInv, [Next]_vars PROVE RowsKeyed'
  OBVIOUS
<1>1. RowsKeyed BY DEF PInv
<1>2. CASE UNCHANGED ledgerVars BY <1>1, <1>2 DEF RowsKeyed, ledgerVars
<1>3. CASE \E c \in Charge : Insert(c, c, Price(c))
  <2>1. PICK c \in Charge : Insert(c, c, Price(c)) BY <1>3
  <2>2. CASE \E x \in rows : x.id = c
    BY <1>1, <2>1, <2>2 DEF Insert, ledgerVars, RowsKeyed
  <2>3. CASE ~\E x \in rows : x.id = c
    BY <1>1, <2>1, <2>3 DEF Insert, RowsKeyed
  <2> QED BY <2>2, <2>3
<1> QED BY <1>2, <1>3, LedgerStep

\* Prices stay right in the stream, in the ledger, and in the recoveries' hands.
LEMMA PricedStep == PInv /\ [Next]_vars => PricedRight'
<1> SUFFICES ASSUME PInv, [Next]_vars PROVE PricedRight'
  OBVIOUS
<1>1. PricedRight /\ TypeOK /\ RowsKeyed BY DEF PInv
<1>2. stream \in Seq(Entry) BY <1>1 DEF TypeOK
<1>3. \A i \in 1..Len(stream') : stream'[i].cost = Price(stream'[i].charge)
  <2>1. CASE stream' = stream BY <1>1, <2>1 DEF PricedRight
  <2>2. CASE \E c \in Charge : stream' = XAdded(c, Price(c))
    <3>1. PICK c \in Charge : stream' = XAdded(c, Price(c)) BY <2>2
    <3>2. Price(c) \in Int BY PriceOf
    <3> SUFFICES ASSUME NEW i \in 1..Len(stream')
                 PROVE  stream'[i].cost = Price(stream'[i].charge)
      OBVIOUS
    <3>3. /\ Len(stream) \in Nat /\ Len(stream') = Len(stream) + 1
          /\ \A j \in 1..Len(stream) : stream'[j] = stream[j]
          /\ stream'[Len(stream) + 1].charge = c
          /\ stream'[Len(stream) + 1].cost = Price(c)
      BY <1>2, <3>1, <3>2, StreamAppended
    <3>4. CASE i \in 1..Len(stream)
      <4>1. stream'[i] = stream[i] BY <3>3, <3>4
      <4>2. stream[i].cost = Price(stream[i].charge) BY <1>1, <3>4 DEF PricedRight
      <4> QED BY <4>1, <4>2
    <3>5. CASE i = Len(stream) + 1
      BY <3>3, <3>5
    <3> QED BY <3>3, <3>4, <3>5
  <2> QED BY <2>1, <2>2, StreamStep
<1>4. /\ \A x \in rows' : x.cost = Price(x.charge)
      /\ \A c \in Charge : sum'[c] = IF Billed(c)' THEN Price(c) ELSE 0
  <2>1. CASE UNCHANGED ledgerVars BY <1>1, <2>1 DEF PricedRight, ledgerVars, Billed
  <2>2. CASE \E c \in Charge : Insert(c, c, Price(c))
    <3>1. PICK c \in Charge : Insert(c, c, Price(c)) BY <2>2
    <3>2. Price(c) \in Int BY PriceOf
    <3>3. CASE \E x \in rows : x.id = c
      BY <1>1, <3>1, <3>3 DEF Insert, ledgerVars, PricedRight, Billed
    <3>4. CASE ~\E x \in rows : x.id = c
      <4> DEFINE row == [id |-> c, charge |-> c, cost |-> Price(c)]
      <4>1. rows' = rows \cup {row} /\ sum' = [sum EXCEPT ![c] = @ + Price(c)]
        BY <3>1, <3>4 DEF Insert
      <4>2. row.charge = c /\ row.cost = Price(c) OBVIOUS
      <4>3. sum \in [Charge -> Int] BY <1>1 DEF TypeOK
      <4>4. ~Billed(c) BY <1>1, <3>4 DEF Billed, RowsKeyed
      <4>5. sum[c] = 0 BY <1>1, <4>4 DEF PricedRight
      <4> HIDE DEF row
      <4>6. \A x \in rows' : x.cost = Price(x.charge) BY <1>1, <4>1, <4>2 DEF PricedRight
      <4>7. \A d \in Charge : Billed(d)' <=> Billed(d) \/ d = c
        BY <4>1, <4>2 DEF Billed
      <4>8. \A d \in Charge : d # c => sum'[d] = sum[d] BY <4>1, <4>3
      <4>9. sum'[c] = Price(c) BY <3>2, <4>1, <4>3, <4>5
      <4> QED BY <1>1, <4>6, <4>7, <4>8, <4>9 DEF PricedRight
    <3> QED BY <3>3, <3>4
  <2> QED BY <2>1, <2>2, LedgerStep
<1>5. ASSUME NEW x \in Recoverers
      PROVE  /\ recovery'[x].pc # "idle" =>
                   \E row \in rows' : row.charge = Usage(recovery'[x].event)
             /\ recovery'[x].pc \notin {"idle", "polling"} =>
                   recovery'[x].delta = Price(Correction(recovery'[x].event))
  <2> USE DEF ledgerVars, flusherVars, recoveryVars
  <2>1. /\ recovery[x].pc # "idle" =>
              \E row \in rows : row.charge = Usage(recovery[x].event)
        /\ recovery[x].pc \notin {"idle", "polling"} =>
              recovery[x].delta = Price(Correction(recovery[x].event))
    BY <1>1 DEF PricedRight, Billed
  <2>2. rows \subseteq rows' BY Grows
  <2>3. recovery[x] \in Recovery \cup {NoRecovery} /\ recovery \in [Recoverers -> Recovery \cup {NoRecovery}]
    BY <1>1 DEF TypeOK
  <2>4. CASE recovery'[x] = recovery[x] BY <2>1, <2>2, <2>4
  <2>5. CASE recovery'[x] = NoRecovery BY <2>5 DEF NoRecovery
  <2>6. CASE \E e \in Disconnected : StartRecovery(x, e)
    <3>1. PICK e \in Disconnected : StartRecovery(x, e) BY <2>6
    <3>2. recovery'[x] = [pc |-> "polling", event |-> e, delta |-> 0, scope |-> 1]
      BY <2>3, <3>1 DEF StartRecovery
    <3>3. \E row \in rows : row.charge = Usage(e)
      BY <3>1 DEF StartRecovery, AnchorFlushed, Billed
    <3> QED BY <2>2, <3>2, <3>3
  <2>7. CASE BillDelta(x)
    <3>1. recovery[x].pc = "polling" BY <2>7 DEF BillDelta
    <3>2. recovery[x] \in Recovery BY <2>3, <3>1 DEF NoRecovery
    <3>3. PICK e \in Disconnected : e = recovery[x].event BY <3>2 DEF Recovery
    <3>4. CASE Billed(Correction(e)) BY <2>3, <2>5, <2>7, <3>3, <3>4 DEF BillDelta, Leave
    <3>5. CASE ~Billed(Correction(e))
      <4>1. recovery'[x] = [recovery[x] EXCEPT !.pc = "adding", !.delta = Target[e] - AlreadyBilled(e)]
        BY <2>3, <2>7, <3>3, <3>5 DEF BillDelta
      <4>2. recovery'[x].event = e /\ recovery'[x].delta = Target[e] - AlreadyBilled(e)
        BY <3>2, <3>3, <4>1 DEF Recovery
      <4>3. AlreadyBilled(e) = Cost[e]
        BY <1>1, <2>1, <3>1, <3>3, ChargesTyped, PriceOf DEF AlreadyBilled, PricedRight, Billed
      <4> QED BY <2>1, <2>2, <3>1, <3>3, <4>2, <4>3, PriceOf
    <3> QED BY <3>4, <3>5
  <2>8. CASE /\ recovery[x].pc \notin {"idle", "polling"}
             /\ recovery'[x].event = recovery[x].event /\ recovery'[x].delta = recovery[x].delta
    BY <2>1, <2>2, <2>8
  <2>9. CASE RecoveryNext
    <3>1. PICK y \in Recoverers :
             \/ \E e \in Disconnected : StartRecovery(y, e)
             \/ GiveUp(y) \/ BillDelta(y)
             \/ AddCorrection(y) \/ AddCorrectionUnanswered(y)
             \/ Mark(y) \/ MarkUnanswered(y)
             \/ CountCorrection(y) \/ CountCorrectionUnanswered(y)
      BY <2>9 DEF RecoveryNext
    <3>2. CASE y # x
      <4>1. recovery'[x] = recovery[x]
        BY <2>3, <3>1, <3>2 DEF StartRecovery, GiveUp, BillDelta, AddCorrection,
             AddCorrectionUnanswered, Mark, MarkUnanswered, CountCorrection,
             CountCorrectionUnanswered, Leave, Step
      <4> QED BY <2>4, <4>1
    <3>3. CASE y = x
      <4>1. Leave(x) => recovery'[x] = NoRecovery BY <2>3 DEF Leave
      <4>2. CASE GiveUp(x) \/ AddCorrectionUnanswered(x) \/ MarkUnanswered(x)
                 \/ CountCorrectionUnanswered(x)
        BY <2>5, <4>1, <4>2 DEF GiveUp, AddCorrectionUnanswered, MarkUnanswered,
                                CountCorrectionUnanswered
      <4>3. CASE AddCorrection(x) \/ Mark(x) \/ CountCorrection(x)
        <5>1. recovery[x].pc \notin {"idle", "polling"}
          BY <4>3 DEF AddCorrection, Mark, CountCorrection
        <5>2. recovery[x] \in Recovery BY <2>3, <5>1 DEF NoRecovery
        <5>3. Step(x, "marking") \/ Step(x, "counting") =>
                 recovery'[x].event = recovery[x].event /\ recovery'[x].delta = recovery[x].delta
          BY <2>3, <5>2 DEF Step, Recovery
        <5>4. CASE Leave(x) BY <2>5, <4>1, <5>4
        <5>5. CASE ~Leave(x)
          BY <2>3, <2>8, <4>3, <5>1, <5>2, <5>3, <5>5
             DEF AddCorrection, Mark, CountCorrection, Recovery
        <5> QED BY <5>4, <5>5
      <4> QED BY <2>6, <2>7, <3>1, <3>3, <4>2, <4>3
    <3> QED BY <3>2, <3>3
  <2>10. CASE RecorderNext \/ FlusherNext \/ (\E i \in pel : Idles(i)) \/ UNCHANGED vars
    <3>1. recovery' = recovery
      BY <2>10 DEF RecorderNext, XAdd, XAddFails, FallbackInsert, FallbackFails, Count,
           CountFails, RecordDies, FlusherNext, Claim, ClaimFails, ReadNew, ReadFails,
           InsertRow, InsertFails, Ack, AckFails, EndCycle, WorkerDies, Idles, vars
    <3> QED BY <2>4, <3>1
  <2> QED BY <2>9, <2>10 DEF Next
<1>6. ASSUME NEW e \in Disconnected, Durable(Correction(e))' PROVE Billed(Usage(e))'
  <2>1. \A c : Billed(c) => Billed(c)' BY Grows
  <2>2. CASE Durable(Correction(e)) BY <1>1, <2>1, <2>2 DEF PricedRight
  <2>3. CASE ~Durable(Correction(e))
    <3>1. CASE Billed(Correction(e))'
      <4>1. PICK c \in Charge : /\ Insert(c, c, Price(c))
                                /\ \A f \in Disconnected : c = Correction(f) => Billed(Usage(f))
        BY <2>3, <3>1, LedgerStep DEF ledgerVars, Billed, Durable
      <4>2. rows' \subseteq rows \cup {[id |-> c, charge |-> c, cost |-> Price(c)]}
        BY <4>1 DEF Insert, ledgerVars
      <4>3. c = Correction(e) BY <2>3, <3>1, <4>2 DEF Billed, Durable
      <4> QED BY <2>1, <4>1, <4>3
    <3>2. CASE InStream(Correction(e))'
      <4>1. PICK c \in Charge : /\ stream' = XAdded(c, Price(c))
                                /\ \A f \in Disconnected : c = Correction(f) => Billed(Usage(f))
        BY <2>3, <3>2, StreamStep DEF InStream, Durable
      <4>2. Price(c) \in Int BY PriceOf
      <4>3. PICK i \in 1..Len(stream') : stream'[i].charge = Correction(e)
        BY <3>2 DEF InStream
      <4>4. i \notin 1..Len(stream)
        BY <2>3, <4>3, Grows DEF Durable, InStream
      <4>5. /\ Len(stream) \in Nat /\ Len(stream') = Len(stream) + 1
            /\ stream'[Len(stream) + 1].charge = c
        BY <1>2, <4>1, <4>2, StreamAppended
      <4>6. i = Len(stream) + 1 BY <4>4, <4>5
      <4>7. c = Correction(e) BY <4>3, <4>5, <4>6
      <4> QED BY <2>1, <4>1, <4>7
    <3> QED BY <1>6, <3>1, <3>2 DEF Durable
  <2> QED BY <2>2, <2>3
<1>7. \A x \in Recoverers :
         /\ recovery'[x].pc # "idle" =>
               \E row \in rows' : row.charge = Usage(recovery'[x].event)
         /\ recovery'[x].pc \notin {"idle", "polling"} =>
               recovery'[x].delta = Price(Correction(recovery'[x].event))
  BY <1>5
<1>8. \A e \in Disconnected : Durable(Correction(e))' => Billed(Usage(e))' BY <1>6
<1>9. (\A x \in Recoverers : recovery[x].pc # "idle" => Billed(Usage(recovery[x].event)))'
  BY <1>7 DEF Billed
<1> QED BY <1>3, <1>4, <1>7, <1>8, <1>9 DEF PricedRight

-----------------------------------------------------------------------------
(* Delivery.                                                               *)

\* Inserting an entry puts its charge in the ledger.
LEMMA InsertBills ==
    ASSUME RowsKeyed, NEW i, InsertEntry(i)
    PROVE  \E x \in rows' : x.charge = stream[i].charge
<1> SUFFICES ASSUME NEW c, c = stream[i].charge, NEW k, k = stream[i].cost
             PROVE  \E x \in rows' : x.charge = c
  OBVIOUS
<1>1. Insert(c, c, k) BY DEF InsertEntry, RecordId
<1>2. CASE \E x \in rows : x.id = c BY <1>1, <1>2 DEF Insert, ledgerVars, RowsKeyed
<1>3. CASE ~\E x \in rows : x.id = c
  <2>1. [id |-> c, charge |-> c, cost |-> k] \in rows' BY <1>1, <1>3 DEF Insert
  <2> QED BY <2>1
<1> QED BY <1>2, <1>3

\* Every step keeps an entry that is to be acknowledged in the ledger (flush_once).
LEMMA AckAfterInsertStep == PInv /\ [Next]_vars => AckAfterInsert'
<1> SUFFICES ASSUME PInv, [Next]_vars, NEW w \in Workers, inserted'[w] # 0
             PROVE  \E x \in rows' : x.charge = stream'[inserted'[w]].charge
  BY DEF AckAfterInsert, Billed
<1> USE DEF ledgerVars, flusherVars, recoveryVars
<1>1. TypeOK /\ RowsKeyed /\ AckAfterInsert BY DEF PInv
<1>2. inserted \in [Workers -> 0..cursor] /\ cursor \in Nat /\ Len(stream) \in Nat
      /\ cursor <= Len(stream) /\ batch[w] \subseteq 1..cursor
  BY <1>1 DEF TypeOK
<1>3. rows \subseteq rows' /\ \A i \in 1..Len(stream) : stream'[i] = stream[i] BY Grows
<1>4. CASE inserted'[w] = inserted[w]
  <2>1. inserted[w] \in 1..Len(stream) BY <1>2, <1>4
  <2>2. \E x \in rows : x.charge = stream[inserted[w]].charge
    BY <1>1, <1>4 DEF AckAfterInsert, Billed
  <2> QED BY <1>3, <1>4, <2>1, <2>2
<1>5. CASE inserted'[w] # inserted[w]
  <2>1. PICK v \in Workers : InsertRow(v) \/ Ack(v) \/ AckFails(v) \/ WorkerDies(v)
    BY <1>5 DEF Next, RecorderNext, XAdd, XAddFails, FallbackInsert, FallbackFails, Count,
         CountFails, RecordDies, FlusherNext, Claim, ClaimFails, ReadNew, ReadFails,
         InsertFails, EndCycle, Idles, vars, RecoveryNext, StartRecovery, GiveUp, BillDelta,
         AddCorrection, AddCorrectionUnanswered, Mark, MarkUnanswered, CountCorrection,
         CountCorrectionUnanswered
  <2>2. v = w /\ InsertRow(w)
    BY <1>2, <1>5, <2>1 DEF InsertRow, Ack, AckFails, WorkerDies
  <2>3. PICK i \in batch[w] : InsertEntry(i) /\ inserted' = [inserted EXCEPT ![w] = i]
    BY <2>2 DEF InsertRow
  <2>4. inserted'[w] = i /\ i \in 1..Len(stream) BY <1>2, <2>3
  <2>5. \E x \in rows' : x.charge = stream[i].charge BY <1>1, <2>3, InsertBills
  <2> QED BY <1>3, <2>4, <2>5
<1> QED BY <1>4, <1>5

\* An entry leaves the reach of the flushers only when its charge is billed.
LEMMA DeliveryStep ==
    ASSUME PInv, [Next]_vars, NEW i \in 1..Len(stream')
    PROVE  i > cursor' \/ i \in pel' \/ \E x \in rows' : x.charge = stream'[i].charge
<1> USE DEF ledgerVars, flusherVars, recoveryVars
<1>1. TypeOK /\ AckAfterInsert /\ NothingLost BY DEF PInv
<1>2. cursor \in Nat /\ Len(stream) \in Nat /\ cursor <= Len(stream)
      /\ \A w \in Workers : inserted[w] \in 0..cursor
  BY <1>1 DEF TypeOK
<1>3. /\ rows \subseteq rows' /\ Len(stream') \in Nat
      /\ \A j \in 1..Len(stream) : stream'[j] = stream[j]
  BY Grows
<1>4. i \in 1..Len(stream) =>
         i > cursor \/ i \in pel \/ \E x \in rows' : x.charge = stream'[i].charge
  BY <1>1, <1>3 DEF NothingLost, Billed
<1>5. i \notin 1..Len(stream) => i > cursor BY <1>2, <1>3
<1>6. CASE cursor' = cursor /\ pel \subseteq pel' BY <1>4, <1>5, <1>6
<1>7. CASE stream' = stream /\ pel' = pel \cup Unread /\ cursor' = cursor + Cardinality(Unread)
  <2>1. i > cursor + Cardinality(Unread) \/ i \in Unread \/ i <= cursor
    BY <1>1, <1>7, UnreadTyped
  <2> QED BY <1>2, <1>4, <1>7, <2>1
<1>8. CASE \E w \in Workers : Ack(w)
  <2>1. PICK w \in Workers : Ack(w) BY <1>8
  <2>2. stream' = stream /\ cursor' = cursor /\ pel' = pel \ {inserted[w]} /\ inserted[w] # 0
    BY <2>1 DEF Ack
  <2>3. \E x \in rows : x.charge = stream[inserted[w]].charge
    BY <1>1, <2>2 DEF AckAfterInsert, Billed
  <2>4. CASE i = inserted[w] BY <1>3, <2>2, <2>3, <2>4
  <2>5. CASE i # inserted[w] BY <1>4, <1>5, <2>2, <2>5
  <2> QED BY <2>4, <2>5
<1>9. \/ cursor' = cursor /\ pel \subseteq pel'
      \/ stream' = stream /\ pel' = pel \cup Unread /\ cursor' = cursor + Cardinality(Unread)
      \/ \E w \in Workers : Ack(w)
  <2>1. CASE RecorderNext
    BY <2>1 DEF RecorderNext, XAdd, XAddFails, FallbackInsert, FallbackFails, Count,
         CountFails, RecordDies
  <2>2. CASE FlusherNext
    BY <2>2 DEF FlusherNext, Claim, ClaimFails, ReadNew, ReadFails, InsertRow, InsertFails,
         AckFails, EndCycle, WorkerDies
  <2>3. CASE RecoveryNext
    BY <2>3 DEF RecoveryNext, StartRecovery, GiveUp, BillDelta, AddCorrection,
         AddCorrectionUnanswered, Mark, MarkUnanswered, CountCorrection,
         CountCorrectionUnanswered
  <2>4. CASE (\E j \in pel : Idles(j)) \/ UNCHANGED vars BY <2>4 DEF Idles, vars
  <2> QED BY <2>1, <2>2, <2>3, <2>4 DEF Next
<1> QED BY <1>6, <1>7, <1>8, <1>9

\* A record task that ends well has made its charge durable.
LEMMA RecordedStep ==
    ASSUME PInv, [Next]_vars, NEW e \in Events, task'[e].pc \in {"counting", "done"}
    PROVE  Durable(Usage(e))'
<1> USE DEF ledgerVars, flusherVars, recoveryVars
<1>1. TypeOK /\ NothingLost /\ RowsKeyed BY DEF PInv
<1>2. task \in [Events -> Task] /\ task[e] \in Task BY <1>1 DEF TypeOK
<1>3. CASE task[e].pc \in {"counting", "done"}
  BY <1>1, <1>3, Grows DEF NothingLost
<1>4. CASE task[e].pc \notin {"counting", "done"}
  <2>1. XAdd(e) \/ FallbackInsert(e)
    <3>1. task' # task BY <1>4
    <3>2. RecorderNext
      BY <3>1 DEF Next, FlusherNext, Claim, ClaimFails, ReadNew, ReadFails, InsertRow,
           InsertFails, Ack, AckFails, EndCycle, WorkerDies, Idles, vars, RecoveryNext,
           StartRecovery, GiveUp, BillDelta, AddCorrection, AddCorrectionUnanswered, Mark,
           MarkUnanswered, CountCorrection, CountCorrectionUnanswered
    <3>3. PICK f \in Events : \/ XAdd(f) \/ XAddFails(f) \/ FallbackInsert(f)
                              \/ FallbackFails(f) \/ Count(f) \/ CountFails(f) \/ RecordDies(f)
      BY <3>2 DEF RecorderNext
    <3>4. f = e
      BY <1>2, <1>4, <3>3 DEF XAdd, XAddFails, FallbackInsert, FallbackFails, Count,
           CountFails, RecordDies, MoveTask
    <3>5. ~Count(e) /\ ~CountFails(e) BY <1>4 DEF Count, CountFails
    <3>6. \A pc : MoveTask(e, pc) => task'[e].pc = pc
      BY <1>2 DEF MoveTask, Task
    <3>7. ~XAddFails(e) /\ ~FallbackFails(e) /\ ~RecordDies(e)
      BY <3>6 DEF XAddFails, FallbackFails, RecordDies
    <3> QED BY <3>3, <3>4, <3>5, <3>7
  <2>2. CASE XAdd(e)
    <3>1. stream' = XAdded(Usage(e), Price(Usage(e))) /\ Usage(e) \in Charge
          /\ Price(Usage(e)) \in Int
      BY <2>2, PriceOf, ChargesTyped DEF XAdd
    <3>2. /\ Len(stream) \in Nat /\ Len(stream') = Len(stream) + 1
          /\ stream'[Len(stream) + 1].charge = Usage(e)
      BY <1>1, <3>1, StreamAppended DEF TypeOK
    <3>3. Len(stream) + 1 \in 1..Len(stream') BY <3>2
    <3> QED BY <3>2, <3>3 DEF Durable, InStream
  <2>3. CASE FallbackInsert(e)
    <3>1. Insert(Usage(e), Usage(e), Cost[e]) BY <2>3 DEF FallbackInsert
    <3>2. \E x \in rows' : x.charge = Usage(e)
      <4>1. CASE \E x \in rows : x.id = Usage(e)
        BY <1>1, <3>1, <4>1 DEF Insert, RowsKeyed
      <4>2. CASE ~\E x \in rows : x.id = Usage(e)
        <5>1. [id |-> Usage(e), charge |-> Usage(e), cost |-> Cost[e]] \in rows'
          BY <3>1, <4>2 DEF Insert
        <5> QED BY <5>1
      <4> QED BY <4>1, <4>2
    <3> QED BY <3>2 DEF Durable, Billed
  <2> QED BY <2>1, <2>2, <2>3
<1> QED BY <1>3, <1>4

\* No step loses a durable charge: it is billed or can be delivered (NothingLost).
LEMMA NothingLostStep == PInv /\ [Next]_vars => NothingLost'
BY DeliveryStep, RecordedStep DEF NothingLost, Billed

-----------------------------------------------------------------------------
(* The spend counters.                                                     *)

\* A step that counts, counts one charge in one counter.
LEMMA CounterStep ==
    ASSUME PInv, [Next]_vars
    PROVE  \/ applied' = applied
           \/ \E e \in Events : /\ task[e].pc = "counting" /\ (Count(e) \/ CountFails(e))
                                /\ applied' = Increment(Scopes[task[e].scope], Usage(e))
           \/ \E x \in Recoverers :
                 /\ recovery[x].pc = "counting"
                 /\ CountCorrection(x) \/ CountCorrectionUnanswered(x)
                 /\ applied' = Increment(Scopes[recovery[x].scope], Correction(recovery[x].event))
<1> USE DEF ledgerVars, flusherVars, recoveryVars
<1>1. CASE RecorderNext
  BY <1>1 DEF RecorderNext, XAdd, XAddFails, FallbackInsert, FallbackFails, Count, CountFails,
              RecordDies
<1>2. CASE FlusherNext
  BY <1>2 DEF FlusherNext, Claim, ClaimFails, ReadNew, ReadFails, InsertRow, InsertFails,
              Ack, AckFails, EndCycle, WorkerDies
<1>3. CASE RecoveryNext
  BY <1>3 DEF RecoveryNext, StartRecovery, GiveUp, BillDelta, AddCorrection,
              AddCorrectionUnanswered, Mark, MarkUnanswered, CountCorrection,
              CountCorrectionUnanswered
<1>4. CASE (\E i \in pel : Idles(i)) \/ UNCHANGED vars
  BY <1>4 DEF Idles, vars
<1> QED BY <1>1, <1>2, <1>3, <1>4 DEF Next

\* Only one of the charges concerned is touched.
LEMMA CounterStepOf ==
    ASSUME PInv, [Next]_vars, NEW sc \in ScopeSet, NEW c \in Charge
    PROVE  \/ applied'[sc][c] = applied[sc][c]
           \/ /\ applied'[sc][c] = applied[sc][c] + 1
              /\ \/ \E e \in Events : /\ task[e].pc = "counting" /\ c = Usage(e)
                                      /\ Count(e) \/ CountFails(e)
                                      /\ sc = Scopes[task[e].scope]
                                      /\ task[e].scope \in 1..Len(Scopes)
                 \/ \E x \in Recoverers :
                       /\ recovery[x].pc = "counting" /\ c = Correction(recovery[x].event)
                       /\ CountCorrection(x) \/ CountCorrectionUnanswered(x)
                       /\ sc = Scopes[recovery[x].scope]
                       /\ recovery[x].event \in Disconnected
                       /\ recovery[x].scope \in 1..Len(Scopes)
<1>1. applied \in [ScopeSet -> [Charge -> Nat]] BY DEF PInv, TypeOK
<1>2. ASSUME NEW e \in Events, task[e].pc = "counting",
             applied' = Increment(Scopes[task[e].scope], Usage(e)),
             applied'[sc][c] # applied[sc][c]
      PROVE  /\ applied'[sc][c] = applied[sc][c] + 1 /\ c = Usage(e)
             /\ sc = Scopes[task[e].scope] /\ task[e].scope \in 1..Len(Scopes)
  <2>1. task[e] \in Task BY DEF PInv, TypeOK
  <2>2. task[e].scope \in 1..Len(Scopes) BY <2>1 DEF Task
  <2>3. Usage(e) \in Charge BY ChargesTyped
  <2> SUFFICES ASSUME NEW i \in 1..Len(Scopes), i = task[e].scope,
                      NEW d \in Charge, d = Usage(e)
               PROVE  applied'[sc][c] = applied[sc][c] + 1 /\ c = d /\ sc = Scopes[i]
    BY <2>2, <2>3
  <2>4. applied' = Increment(Scopes[i], d) BY <1>2
  <2>5. Increment(Scopes[i], d)[sc][c] =
           IF sc = Scopes[i] /\ c = d THEN applied[sc][c] + 1 ELSE applied[sc][c]
    BY <1>1, IncrementTyped
  <2> QED BY <1>2, <2>4, <2>5
<1>3. ASSUME NEW x \in Recoverers, recovery[x].pc = "counting",
             applied' = Increment(Scopes[recovery[x].scope], Correction(recovery[x].event)),
             applied'[sc][c] # applied[sc][c]
      PROVE  /\ applied'[sc][c] = applied[sc][c] + 1 /\ c = Correction(recovery[x].event)
             /\ sc = Scopes[recovery[x].scope] /\ recovery[x].event \in Disconnected
             /\ recovery[x].scope \in 1..Len(Scopes)
  <2>1. recovery[x] \in Recovery BY <1>3 DEF PInv, TypeOK, NoRecovery
  <2>2. recovery[x].scope \in 1..Len(Scopes) /\ recovery[x].event \in Disconnected
    BY <2>1 DEF Recovery
  <2>3. Correction(recovery[x].event) \in Charge BY <2>2, ChargesTyped
  <2> SUFFICES ASSUME NEW i \in 1..Len(Scopes), i = recovery[x].scope,
                      NEW d \in Charge, d = Correction(recovery[x].event)
               PROVE  applied'[sc][c] = applied[sc][c] + 1 /\ c = d /\ sc = Scopes[i]
    BY <2>2, <2>3
  <2>4. applied' = Increment(Scopes[i], d) BY <1>3
  <2>5. Increment(Scopes[i], d)[sc][c] =
           IF sc = Scopes[i] /\ c = d THEN applied[sc][c] + 1 ELSE applied[sc][c]
    BY <1>1, IncrementTyped
  <2> QED BY <1>3, <2>4, <2>5
<1>4. CASE applied'[sc][c] # applied[sc][c] BY <1>2, <1>3, <1>4, CounterStep
<1> QED BY <1>4

\* No step counts a charge twice, or one that is not durable (CountedOnce).
LEMMA CountedOnceStep == PInv /\ [Next]_vars => CountedOnce'
<1> SUFFICES ASSUME PInv, [Next]_vars, NEW sc \in ScopeSet, NEW c \in Charge
             PROVE  applied'[sc][c] <= 1 /\ (applied'[sc][c] = 1 => Durable(c)')
  BY DEF CountedOnce
<1>1. TypeOK /\ CountedOnce /\ NothingLost /\ CountsInOrder /\ CorrectionsInOrder BY DEF PInv
<1>2. applied[sc][c] \in Nat BY <1>1 DEF TypeOK
<1>3. applied[sc][c] <= 1 /\ (applied[sc][c] = 1 => Durable(c))
  BY <1>1 DEF CountedOnce
<1>4. Durable(c) => Durable(c)' BY Grows
<1>5. CASE applied'[sc][c] = applied[sc][c] BY <1>3, <1>4, <1>5
<1>6. ASSUME NEW e \in Events, task[e].pc = "counting", c = Usage(e),
             sc = Scopes[task[e].scope], task[e].scope \in 1..Len(Scopes)
      PROVE  applied[sc][c] = 0 /\ Durable(c)
  <2>1. task[e].scope <= task[e].scope BY <1>6, ScopesTyped
  <2> QED BY <1>1, <1>6, <2>1 DEF CountsInOrder, NothingLost
<1>7. ASSUME NEW x \in Recoverers, recovery[x].pc = "counting",
             c = Correction(recovery[x].event), sc = Scopes[recovery[x].scope],
             recovery[x].event \in Disconnected, recovery[x].scope \in 1..Len(Scopes)
      PROVE  applied[sc][c] = 0 /\ Durable(c)
  <2>1. recovery[x].scope <= recovery[x].scope BY <1>7, ScopesTyped
  <2> QED BY <1>1, <1>7, <2>1 DEF CorrectionsInOrder, Durable
<1>8. CASE applied'[sc][c] = applied[sc][c] + 1 /\ applied[sc][c] = 0 /\ Durable(c)
  BY <1>4, <1>8
<1> QED BY <1>5, <1>6, <1>7, <1>8, CounterStepOf

\* Every step leaves the counters a task has not reached untouched (CountsInOrder).
LEMMA CountsInOrderStep == PInv /\ [Next]_vars => CountsInOrder'
<1> DEFINE Uncounted(e, i) == \/ task[e].pc \in {"new", "fallback"}
                              \/ task[e].pc = "counting" /\ task[e].scope <= i
<1> SUFFICES ASSUME PInv, [Next]_vars, NEW e \in Events, NEW i \in 1..Len(Scopes),
                    Uncounted(e, i)'
             PROVE  applied'[Scopes[i]][Usage(e)] = 0
  BY DEF CountsInOrder
<1> USE DEF ledgerVars, flusherVars, recoveryVars
<1>1. TypeOK /\ CountsInOrder BY DEF PInv
<1>2. task \in [Events -> Task] /\ task[e] \in Task BY <1>1 DEF TypeOK
<1>3. task[e].scope \in Nat /\ i \in Nat BY <1>2, ScopesTyped DEF Task
<1>4. \/ task'[e] = task[e]
      \/ task[e].pc \in {"new", "fallback"}
      \/ task'[e].pc \in {"done", "failed"}
      \/ /\ task[e].pc = "counting" /\ task'[e].pc = "counting"
         /\ task'[e].scope = task[e].scope + 1
  <2>1. CASE RecorderNext
    <3>1. PICK f \in Events : \/ XAdd(f) \/ XAddFails(f) \/ FallbackInsert(f)
                              \/ FallbackFails(f) \/ Count(f) \/ CountFails(f) \/ RecordDies(f)
      BY <2>1 DEF RecorderNext
    <3>2. CASE f # e
      BY <1>2, <3>1, <3>2 DEF XAdd, XAddFails, FallbackInsert, FallbackFails, Count,
           CountFails, RecordDies, MoveTask
    <3>3. CASE f = e
      <4>1. \A pc : MoveTask(e, pc) => task'[e].pc = pc BY <1>2 DEF MoveTask, Task
      <4>2. CASE Count(e)
        <5>1. CASE task[e].scope = Len(Scopes)
          <6>1. task' = [task EXCEPT ![e] = [task[e] EXCEPT !.pc = "done"]]
            BY <4>2, <5>1 DEF Count
          <6> QED BY <1>2, <6>1 DEF Task
        <5>2. CASE task[e].scope # Len(Scopes)
          <6>1. task' = [task EXCEPT ![e] = [task[e] EXCEPT !.scope = task[e].scope + 1]]
            BY <4>2, <5>2 DEF Count
          <6> QED BY <1>2, <4>2, <6>1 DEF Task, Count
        <5> QED BY <5>1, <5>2
      <4> QED BY <3>1, <3>3, <4>1, <4>2 DEF XAdd, XAddFails, FallbackInsert, FallbackFails,
              CountFails, RecordDies
    <3> QED BY <3>2, <3>3
  <2>2. CASE FlusherNext \/ RecoveryNext \/ (\E j \in pel : Idles(j)) \/ UNCHANGED vars
    BY <2>2 DEF FlusherNext, Claim, ClaimFails, ReadNew, ReadFails, InsertRow,
         InsertFails, Ack, AckFails, EndCycle, WorkerDies, Idles, vars, RecoveryNext,
         StartRecovery, GiveUp, BillDelta, AddCorrection, AddCorrectionUnanswered, Mark,
         MarkUnanswered, CountCorrection, CountCorrectionUnanswered
  <2> QED BY <2>1, <2>2 DEF Next
<1>5. Uncounted(e, i)
  <2>1. \/ task'[e].pc \in {"new", "fallback"}
        \/ task'[e].pc = "counting" /\ task'[e].scope <= i
    OBVIOUS
  <2> QED BY <1>3, <1>4, <2>1
<1>6. applied[Scopes[i]][Usage(e)] = 0 BY <1>1, <1>5 DEF CountsInOrder
<1>7. CASE applied'[Scopes[i]][Usage(e)] = applied[Scopes[i]][Usage(e)]
  BY <1>6, <1>7
<1>8. CASE applied'[Scopes[i]][Usage(e)] # applied[Scopes[i]][Usage(e)]
  <2>1. Scopes[i] \in ScopeSet /\ Usage(e) \in Charge BY ScopesTyped, ChargesTyped
  <2>2. PICK f \in Events : /\ task[f].pc = "counting" /\ Usage(e) = Usage(f)
                            /\ Count(f) \/ CountFails(f)
                            /\ Scopes[i] = Scopes[task[f].scope]
                            /\ task[f].scope \in 1..Len(Scopes)
    BY <1>8, <2>1, CounterStepOf, ChargesTyped
  <2>3. f = e BY <2>2, ChargesTyped
  <2>4. task[e].scope = i BY <2>2, <2>3, ScopesTyped
  <2>5. CASE CountFails(e)
    <3>1. task'[e].pc = "done" BY <1>2, <2>5 DEF CountFails, MoveTask, Task
    <3> QED BY <3>1
  <2>6. CASE Count(e)
    <3>1. CASE i = Len(Scopes)
      <4>1. task' = [task EXCEPT ![e] = [task[e] EXCEPT !.pc = "done"]]
        BY <2>4, <2>6, <3>1 DEF Count
      <4>2. task'[e].pc = "done" BY <1>2, <4>1 DEF Task
      <4> QED BY <4>2
    <3>2. CASE i # Len(Scopes)
      <4>1. task' = [task EXCEPT ![e] = [task[e] EXCEPT !.scope = i + 1]]
        BY <2>4, <2>6, <3>2 DEF Count
      <4>2. task'[e].scope = i + 1 /\ task'[e].pc = "counting"
        BY <1>2, <2>2, <2>3, <4>1 DEF Task
      <4> QED BY <1>3, <4>2
    <3> QED BY <3>1, <3>2
  <2> QED BY <2>2, <2>3, <2>5, <2>6
<1> QED BY <1>7, <1>8

\* How a recovery comes to mark and to count.
LEMMA RecoveryMoves ==
    ASSUME PInv, [Next]_vars, NEW x \in Recoverers
    PROVE  \/ recovery'[x] = recovery[x]
           \/ recovery'[x].pc \notin {"marking", "counting"}
           \/ /\ AddCorrection(x) /\ recovery[x] \in Recovery
              /\ recovery'[x] = [recovery[x] EXCEPT !.pc = "marking"]
           \/ /\ Mark(x) /\ recovery[x] \in Recovery /\ recovery[x].event \notin marked
              /\ recovery'[x] = [recovery[x] EXCEPT !.pc = "counting"]
           \/ /\ CountCorrection(x) /\ recovery[x] \in Recovery /\ recovery[x].pc = "counting"
              /\ recovery'[x] = [recovery[x] EXCEPT !.scope = recovery[x].scope + 1]
<1> USE DEF ledgerVars, flusherVars, recoveryVars
<1>1. recovery \in [Recoverers -> Recovery \cup {NoRecovery}] BY DEF PInv, TypeOK
<1>2. recovery[x] \in Recovery \cup {NoRecovery} BY <1>1
<1>3. Leave(x) => recovery'[x].pc = "idle" BY <1>1 DEF Leave, NoRecovery
<1>4. \A pc : Step(x, pc) => recovery'[x] = [recovery[x] EXCEPT !.pc = pc]
  BY <1>1 DEF Step
<1>5. recovery[x].pc # "idle" => recovery[x] \in Recovery BY <1>2 DEF NoRecovery
<1>6. CASE RecoveryNext
  <2>1. PICK y \in Recoverers :
           \/ \E e \in Disconnected : StartRecovery(y, e)
           \/ GiveUp(y) \/ BillDelta(y)
           \/ AddCorrection(y) \/ AddCorrectionUnanswered(y)
           \/ Mark(y) \/ MarkUnanswered(y)
           \/ CountCorrection(y) \/ CountCorrectionUnanswered(y)
    BY <1>6 DEF RecoveryNext
  <2>2. CASE y # x
    BY <1>1, <2>1, <2>2 DEF StartRecovery, GiveUp, BillDelta, AddCorrection,
         AddCorrectionUnanswered, Mark, MarkUnanswered, CountCorrection,
         CountCorrectionUnanswered, Leave, Step
  <2>3. CASE y = x
    <3>1. CASE \E e \in Disconnected : StartRecovery(x, e)
      <4>1. recovery'[x].pc = "polling" BY <1>1, <3>1 DEF StartRecovery
      <4> QED BY <4>1
    <3>2. CASE BillDelta(x)
      <4>1. recovery[x].pc # "idle" BY <3>2 DEF BillDelta
      <4>2. recovery'[x].pc \in {"idle", "adding"}
        BY <1>1, <1>3, <1>5, <3>2, <4>1 DEF BillDelta, Recovery
      <4> QED BY <4>2
    <3>3. CASE AddCorrection(x)
      BY <1>3, <1>4, <1>5, <3>3 DEF AddCorrection
    <3>4. CASE Mark(x)
      BY <1>3, <1>4, <1>5, <3>4 DEF Mark
    <3>5. CASE CountCorrection(x)
      <4>1. CASE recovery[x].scope = Len(Scopes) BY <1>3, <3>5, <4>1 DEF CountCorrection
      <4>2. CASE recovery[x].scope # Len(Scopes)
        <5>1. recovery' = [recovery EXCEPT ![x] =
                 [recovery[x] EXCEPT !.scope = recovery[x].scope + 1]]
          BY <3>5, <4>2 DEF CountCorrection
        <5>2. recovery[x].pc = "counting" BY <3>5 DEF CountCorrection
        <5> QED BY <1>1, <1>5, <3>5, <5>1, <5>2
      <4> QED BY <4>1, <4>2
    <3>6. CASE GiveUp(x) \/ AddCorrectionUnanswered(x) \/ MarkUnanswered(x)
               \/ CountCorrectionUnanswered(x)
      <4>1. Leave(x)
        BY <3>6 DEF GiveUp, AddCorrectionUnanswered, MarkUnanswered, CountCorrectionUnanswered
      <4> QED BY <1>3, <4>1
    <3> QED BY <2>1, <2>3, <3>1, <3>2, <3>3, <3>4, <3>5, <3>6
  <2> QED BY <2>2, <2>3
<1>7. CASE RecorderNext \/ FlusherNext \/ (\E i \in pel : Idles(i)) \/ UNCHANGED vars
  BY <1>7 DEF RecorderNext, XAdd, XAddFails, FallbackInsert, FallbackFails, Count,
       CountFails, RecordDies, FlusherNext, Claim, ClaimFails, ReadNew, ReadFails,
       InsertRow, InsertFails, Ack, AckFails, EndCycle, WorkerDies, Idles, vars
<1> QED BY <1>6, <1>7 DEF Next

\* No step takes back a correction marker (SET NX).
LEMMA MarkedGrows ==
    ASSUME [Next]_vars PROVE marked \subseteq marked'
<1> USE DEF ledgerVars, flusherVars, recoveryVars
<1>1. CASE RecoveryNext
  BY <1>1 DEF RecoveryNext, StartRecovery, GiveUp, BillDelta, AddCorrection,
              AddCorrectionUnanswered, Mark, MarkUnanswered, CountCorrection,
              CountCorrectionUnanswered
<1>2. CASE RecorderNext \/ FlusherNext \/ (\E i \in pel : Idles(i)) \/ UNCHANGED vars
  BY <1>2 DEF RecorderNext, XAdd, XAddFails, FallbackInsert, FallbackFails, Count,
       CountFails, RecordDies, FlusherNext, Claim, ClaimFails, ReadNew, ReadFails,
       InsertRow, InsertFails, Ack, AckFails, EndCycle, WorkerDies, Idles, vars
<1> QED BY <1>1, <1>2 DEF Next

\* Every step leaves the counting of a correction to the caller that set its marker.
LEMMA CorrectionsInOrderStep == PInv /\ [Next]_vars => CorrectionsInOrder'
<1> SUFFICES ASSUME PInv, [Next]_vars PROVE CorrectionsInOrder'
  OBVIOUS
<1> USE DEF ledgerVars, flusherVars, recoveryVars
<1>1. TypeOK /\ CorrectionsInOrder BY DEF PInv
<1>2. stream \in Seq(Entry) /\ recovery \in [Recoverers -> Recovery \cup {NoRecovery}]
  BY <1>1 DEF TypeOK
<1>3. \A x \in Recoverers : recovery[x] \in Recovery =>
         /\ recovery[x].event \in Disconnected /\ recovery[x].scope \in Nat
         /\ \A pc : [recovery[x] EXCEPT !.pc = pc].pc = pc
                    /\ [recovery[x] EXCEPT !.pc = pc].event = recovery[x].event
                    /\ [recovery[x] EXCEPT !.pc = pc].scope = recovery[x].scope
         /\ \A k : [recovery[x] EXCEPT !.scope = k].pc = recovery[x].pc
                   /\ [recovery[x] EXCEPT !.scope = k].event = recovery[x].event
                   /\ [recovery[x] EXCEPT !.scope = k].scope = k
  BY ScopesTyped DEF Recovery
<1>4. \A x \in Recoverers : recovery[x].pc = "counting" => recovery[x] \in Recovery
  BY <1>2 DEF NoRecovery
\* A recovery counts after it has set a marker that was not set, or counted already.
<1>5. ASSUME NEW x \in Recoverers, recovery'[x].pc = "counting"
      PROVE  /\ recovery'[x].event = recovery[x].event
             /\ \/ recovery[x].pc = "counting" /\ recovery[x].scope <= recovery'[x].scope
                \/ Mark(x) /\ recovery[x].event \notin marked
  <2>1. CASE recovery'[x] = recovery[x]
    <3>1. recovery[x] \in Recovery BY <1>4, <1>5, <2>1
    <3> QED BY <1>3, <1>5, <2>1, <3>1
  <2>2. CASE AddCorrection(x) /\ recovery[x] \in Recovery
             /\ recovery'[x] = [recovery[x] EXCEPT !.pc = "marking"]
    BY <1>3, <1>5, <2>2
  <2>3. CASE /\ Mark(x) /\ recovery[x] \in Recovery /\ recovery[x].event \notin marked
             /\ recovery'[x] = [recovery[x] EXCEPT !.pc = "counting"]
    BY <1>3, <2>3
  <2>4. CASE /\ CountCorrection(x) /\ recovery[x] \in Recovery /\ recovery[x].pc = "counting"
             /\ recovery'[x] = [recovery[x] EXCEPT !.scope = recovery[x].scope + 1]
    <3>1. recovery[x].scope \in Nat BY <1>3, <2>4
    <3> QED BY <1>3, <2>4, <3>1
  <2> QED BY <1>5, <2>1, <2>2, <2>3, <2>4, RecoveryMoves
<1>6. ASSUME NEW x \in Recoverers, recovery'[x].pc \in {"marking", "counting"}
      PROVE  \E i \in 1..Len(stream') : stream'[i].charge = Correction(recovery'[x].event)
  <2>1. \A i \in 1..Len(stream) : i \in 1..Len(stream') /\ stream'[i] = stream[i] BY Grows
  <2>2. recovery[x].pc \in {"marking", "counting"} =>
           \E i \in 1..Len(stream) : stream[i].charge = Correction(recovery[x].event)
    BY <1>1 DEF CorrectionsInOrder, InStream
  <2>3. CASE recovery[x].pc \in {"marking", "counting"}
             /\ recovery'[x].event = recovery[x].event
    BY <2>1, <2>2, <2>3
  <2>4. CASE recovery'[x] = recovery[x] BY <1>6, <2>3, <2>4
  <2>5. CASE AddCorrection(x) /\ recovery[x] \in Recovery
             /\ recovery'[x] = [recovery[x] EXCEPT !.pc = "marking"]
    <3>1. recovery'[x].event = recovery[x].event /\ recovery[x].event \in Disconnected
      BY <1>3, <2>5
    <3> SUFFICES ASSUME NEW e \in Disconnected, e = recovery[x].event
                 PROVE  \E i \in 1..Len(stream') : stream'[i].charge = Correction(e)
      BY <3>1
    <3>2. recovery[x].delta = Price(Correction(e))
      BY <2>5 DEF AddCorrection, PInv, PricedRight
    <3>3. stream' = XAdded(Correction(e), Price(Correction(e)))
      BY <2>5, <3>2 DEF AddCorrection, Correcting
    <3>4. Correction(e) \in Charge /\ Price(Correction(e)) \in Int BY ChargesTyped, PriceOf
    <3>5. /\ Len(stream) \in Nat /\ Len(stream') = Len(stream) + 1
          /\ stream'[Len(stream) + 1].charge = Correction(e)
      BY <1>2, <3>3, <3>4, StreamAppended
    <3>6. Len(stream) + 1 \in 1..Len(stream') BY <3>5
    <3> QED BY <3>5, <3>6
  <2>6. CASE /\ Mark(x) /\ recovery[x] \in Recovery
             /\ recovery'[x] = [recovery[x] EXCEPT !.pc = "counting"]
    BY <1>3, <2>3, <2>6 DEF Mark
  <2>7. CASE /\ recovery[x] \in Recovery /\ recovery[x].pc = "counting"
             /\ recovery'[x] = [recovery[x] EXCEPT !.scope = recovery[x].scope + 1]
    BY <1>3, <2>3, <2>7
  <2> QED BY <1>6, <2>4, <2>5, <2>6, <2>7, RecoveryMoves
<1>7. ASSUME NEW x \in Recoverers, recovery'[x].pc = "counting"
      PROVE  recovery'[x].event \in marked'
  <2>1. CASE recovery[x].pc = "counting"
    BY <1>1, <1>5, <1>7, <2>1, MarkedGrows DEF CorrectionsInOrder
  <2>2. CASE Mark(x) BY <1>5, <1>7, <2>2 DEF Mark
  <2> QED BY <1>5, <1>7, <2>1, <2>2
<1>8. ASSUME NEW x \in Recoverers, NEW y \in Recoverers,
             recovery'[x].pc = "counting", recovery'[y].pc = "counting",
             recovery'[x].event = recovery'[y].event
      PROVE  x = y
  <2>1. recovery[x].event = recovery[y].event BY <1>5, <1>8
  <2>2. CASE recovery[x].pc = "counting" /\ recovery[y].pc = "counting"
    BY <1>1, <2>1, <2>2 DEF CorrectionsInOrder
  <2>3. CASE recovery[x].pc = "counting" /\ Mark(y) /\ recovery[y].event \notin marked
    BY <1>1, <2>1, <2>3 DEF CorrectionsInOrder
  <2>4. CASE Mark(x) /\ recovery[x].event \notin marked /\ recovery[y].pc = "counting"
    BY <1>1, <2>1, <2>4 DEF CorrectionsInOrder
  <2>5. CASE Mark(x) /\ Mark(y)
    <3>1. ASSUME x # y PROVE FALSE
      <4>1. recovery'[y] = recovery[y]
        BY <1>2, <2>5, <3>1 DEF Mark, Leave, Step
      <4>2. recovery[y].pc = "marking" BY <2>5 DEF Mark
      <4> QED BY <1>8, <4>1, <4>2
    <3> QED BY <3>1
  <2> QED BY <1>5, <1>8, <2>2, <2>3, <2>4, <2>5
<1>9. ASSUME NEW e \in Disconnected, NEW i \in 1..Len(Scopes),
             \/ e \notin marked'
             \/ \E x \in Recoverers : recovery'[x].pc = "counting" /\ recovery'[x].event = e
                                      /\ recovery'[x].scope <= i
      PROVE  applied'[Scopes[i]][Correction(e)] = 0
  <2>1. i \in Nat BY ScopesTyped
  <2>2. applied[Scopes[i]][Correction(e)] = 0
    <3>1. CASE e \notin marked BY <1>1, <3>1 DEF CorrectionsInOrder
    <3>2. CASE e \in marked
      <4>1. PICK x \in Recoverers : recovery'[x].pc = "counting" /\ recovery'[x].event = e
                                    /\ recovery'[x].scope <= i
        BY <1>9, <3>2, MarkedGrows
      <4>2. recovery[x].pc = "counting" /\ recovery[x].scope <= recovery'[x].scope
            /\ recovery[x].event = e
        BY <1>5, <3>2, <4>1
      <4>3. recovery[x] \in Recovery BY <1>4, <4>2
      <4>4. recovery[x].scope \in Nat BY <1>3, <4>3
      <4>5. recovery'[x].scope \in Nat
        <5>1. recovery'[x] \in Recovery \cup {NoRecovery} BY <1>1, TypedStep DEF TypeOK
        <5>2. recovery'[x] \in Recovery BY <4>1, <5>1 DEF NoRecovery
        <5> QED BY <5>2, ScopesTyped DEF Recovery
      <4>6. recovery[x].scope <= i BY <2>1, <4>1, <4>2, <4>4, <4>5
      <4> QED BY <1>1, <4>2, <4>6 DEF CorrectionsInOrder
    <3> QED BY <3>1, <3>2
  <2>3. ASSUME applied'[Scopes[i]][Correction(e)] # applied[Scopes[i]][Correction(e)]
        PROVE  FALSE
    <3>1. Scopes[i] \in ScopeSet /\ Correction(e) \in Charge BY ScopesTyped, ChargesTyped
    <3>2. PICK y \in Recoverers :
             /\ recovery[y].pc = "counting" /\ Correction(e) = Correction(recovery[y].event)
             /\ CountCorrection(y) \/ CountCorrectionUnanswered(y)
             /\ Scopes[i] = Scopes[recovery[y].scope]
             /\ recovery[y].event \in Disconnected
             /\ recovery[y].scope \in 1..Len(Scopes)
      BY <2>3, <3>1, CounterStepOf, ChargesTyped
    <3>3. recovery[y].event = e /\ recovery[y].scope = i BY <3>2, ChargesTyped, ScopesTyped
    <3>4. e \in marked BY <1>1, <3>2, <3>3 DEF CorrectionsInOrder
    <3>5. PICK x \in Recoverers : recovery'[x].pc = "counting" /\ recovery'[x].event = e
                                  /\ recovery'[x].scope <= i
      BY <1>9, <3>4, MarkedGrows
    <3>6. recovery[x].pc = "counting" /\ recovery[x].event = e
      BY <1>5, <3>4, <3>5
    <3>7. x = y BY <1>1, <3>2, <3>3, <3>6 DEF CorrectionsInOrder
    <3>8. CASE recovery'[y].pc = "idle" BY <3>5, <3>7, <3>8
    <3>9. CASE recovery'[y] = [recovery[y] EXCEPT !.scope = i + 1]
      <4>1. recovery[y] \in Recovery BY <1>4, <3>2
      <4>2. recovery'[y].scope = i + 1 BY <1>3, <3>9, <4>1
      <4> QED BY <2>1, <3>5, <3>7, <4>2
    <3>10. Leave(y) => recovery'[y].pc = "idle" BY <1>2 DEF Leave, NoRecovery
    <3>11. CASE CountCorrectionUnanswered(y)
      BY <3>8, <3>10, <3>11 DEF CountCorrectionUnanswered
    <3>12. CASE CountCorrection(y)
      BY <1>2, <3>3, <3>8, <3>9, <3>10, <3>12 DEF CountCorrection
    <3> QED BY <3>2, <3>11, <3>12
  <2> QED BY <2>2, <2>3
<1>10. (\A x \in Recoverers : recovery[x].pc \in {"marking", "counting"} =>
          InStream(Correction(recovery[x].event)))'
  BY <1>6 DEF InStream
<1>11. (\A x, y \in Recoverers :
          recovery[x].pc = "counting" /\ recovery[y].pc = "counting"
            /\ recovery[x].event = recovery[y].event => x = y)'
  BY <1>8
<1>12. (\A x \in Recoverers : recovery[x].pc = "counting" => recovery[x].event \in marked)'
  BY <1>7
<1>13. (\A e \in Disconnected, i \in 1..Len(Scopes) :
          \/ e \notin marked
          \/ \E x \in Recoverers :
                recovery[x].pc = "counting" /\ recovery[x].event = e /\ recovery[x].scope <= i
          => applied[Scopes[i]][Correction(e)] = 0)'
  BY <1>9
<1> QED BY <1>10, <1>11, <1>12, <1>13 DEF CorrectionsInOrder

-----------------------------------------------------------------------------
(* The invariant.                                                          *)

\* The initial state is as PInv says.
LEMMA PInvInit == Init => PInv
<1> SUFFICES ASSUME Init PROVE PInv
  OBVIOUS
<1>1. TypeOK BY TypedInit
<1>2. stream = << >> /\ rows = {} /\ marked = {} BY DEF Init
<1>3. 1..Len(stream) = {} BY <1>2
<1>4. \A e \in Events : task[e].pc = "new" BY DEF Init
<1>5. \A x \in Recoverers : recovery[x].pc = "idle" BY DEF Init, NoRecovery
<1>6. \A c \in Charge : sum[c] = 0 /\ ~Billed(c) /\ ~Durable(c)
  BY <1>2, <1>3 DEF Init, Billed, Durable, InStream
<1>7. \A sc \in ScopeSet, c \in Charge : applied[sc][c] = 0 BY DEF Init
<1>8. RowsKeyed BY <1>2 DEF RowsKeyed
<1>9. PricedRight BY <1>2, <1>3, <1>5, <1>6, ChargesTyped DEF PricedRight
<1>10. AckAfterInsert BY DEF Init, AckAfterInsert
<1>11. NothingLost BY <1>3, <1>4 DEF NothingLost
<1>12. CountsInOrder BY <1>7, ScopesTyped, ChargesTyped DEF CountsInOrder
<1>13. CorrectionsInOrder BY <1>5, <1>7, ScopesTyped, ChargesTyped DEF CorrectionsInOrder
<1>14. CountedOnce BY <1>7 DEF CountedOnce
<1> QED BY <1>1, <1>8, <1>9, <1>10, <1>11, <1>12, <1>13, <1>14 DEF PInv

\* Every step keeps PInv.
LEMMA PInvStep == PInv /\ [Next]_vars => PInv'
BY TypedStep, RowsKeyedStep, PricedStep, AckAfterInsertStep, NothingLostStep,
   CountsInOrderStep, CorrectionsInOrderStep, CountedOnceStep DEF PInv

\* The pipeline's invariant is inductive.
THEOREM PipelineInvariant == Spec => []PInv
BY PInvInit, PInvStep, PTL DEF Spec

\* A charge has one ledger row, however often it is delivered or falls back.
THEOREM NoDoubleBilling == Spec => []BilledOnce
<1>1. PInv => BilledOnce
  BY DEF PInv, RowsKeyed, BilledOnce
<1> QED BY <1>1, PipelineInvariant, PTL

\* A durable charge is billed or can still be delivered; no recorded one is lost.
THEOREM AtLeastOnce == Spec => []NothingLost
<1>1. PInv => NothingLost BY DEF PInv
<1> QED BY <1>1, PipelineInvariant, PTL

\* A corrected generation has cost exactly the upstream's authoritative cost.
THEOREM CorrectionsExact == Spec => []RecoveredTotal
<1>1. PInv => RecoveredTotal
  <2> SUFFICES ASSUME PInv, NEW e \in Disconnected, Billed(Correction(e))
               PROVE  sum[Usage(e)] + sum[Correction(e)] = Target[e]
    BY DEF RecoveredTotal
  <2>1. Billed(Usage(e)) BY DEF PInv, PricedRight, Durable
  <2>2. sum[Usage(e)] = Cost[e] /\ sum[Correction(e)] = Target[e] - Cost[e]
    BY <2>1, ChargesTyped, PriceOf DEF PInv, PricedRight
  <2> QED BY <2>2, ChargesTyped
<1> QED BY <1>1, PipelineInvariant, PTL

\* No spend counter takes a charge twice, or one that is not durable.
THEOREM NoDoubleCounting == Spec => []CountedOnce
<1>1. PInv => CountedOnce BY DEF PInv
<1> QED BY <1>1, PipelineInvariant, PTL

-----------------------------------------------------------------------------
(* The pipeline implements the abstract account of charges.                *)

\* A step changes the stream or the ledger, and a flushed charge was in the stream.
LEMMA OneAtATime ==
    ASSUME PInv, [Next]_vars
    PROVE  \/ UNCHANGED ledgerVars
           \/ /\ stream' = stream
              /\ \E c \in Charge : /\ Insert(c, c, Price(c))
                                   /\ InStream(c) \/ \E e \in Events : c = Usage(e)
<1> USE DEF flusherVars, recoveryVars
<1>1. CASE RecorderNext
  <2>1. UNCHANGED ledgerVars
        \/ (stream' = stream /\ \E e \in Events : Insert(Usage(e), Usage(e), Cost[e]))
    BY <1>1 DEF RecorderNext, XAdd, XAddFails, FallbackInsert, FallbackFails, Count,
                CountFails, RecordDies
  <2> QED BY <2>1, PriceOf, ChargesTyped
<1>2. CASE FlusherNext
  <2>1. stream' = stream
        /\ (UNCHANGED ledgerVars \/ \E w \in Workers : \E i \in batch[w] : InsertEntry(i))
    BY <1>2 DEF FlusherNext, Claim, ClaimFails, ReadNew, ReadFails, InsertRow, InsertFails,
                Ack, AckFails, EndCycle, WorkerDies
  <2> SUFFICES ASSUME NEW w \in Workers, NEW i \in batch[w], InsertEntry(i)
               PROVE  \E c \in Charge : Insert(c, c, Price(c)) /\ InStream(c)
    BY <2>1
  <2>2. cursor \in Nat /\ Len(stream) \in Nat /\ cursor <= Len(stream) /\ batch[w] \subseteq 1..cursor
    BY DEF PInv, TypeOK
  <2>3. i \in 1..Len(stream) BY <2>2
  <2>4. stream[i].charge \in Charge BY <2>3, EntryTyped DEF PInv, TypeOK
  <2>5. stream[i].cost = Price(stream[i].charge) BY <2>3 DEF PInv, PricedRight
  <2> QED BY <2>3, <2>4, <2>5 DEF InsertEntry, RecordId, InStream
<1>3. CASE RecoveryNext
  BY <1>3 DEF RecoveryNext, StartRecovery, GiveUp, BillDelta, AddCorrection,
              AddCorrectionUnanswered, Mark, MarkUnanswered, CountCorrection,
              CountCorrectionUnanswered
<1>4. CASE (\E i \in pel : Idles(i)) \/ UNCHANGED vars
  BY <1>4 DEF Idles, vars, ledgerVars
<1> QED BY <1>1, <1>2, <1>3, <1>4 DEF Next

Owed == {c \in Charge : Durable(c)}
InLedger == {c \in Charge : Billed(c)}
Totals == [e \in Events |->
              sum[Usage(e)] + IF e \in Disconnected THEN sum[Correction(e)] ELSE 0]

\* A step that leaves the ledger alone is a charge that becomes owed, or nothing (XADD).
LEMMA OweRefines ==
    ASSUME PInv, [Next]_vars, UNCHANGED ledgerVars
    PROVE  Charges!ChargesNext \/ UNCHANGED <<Owed, InLedger, Totals>>
<1>1. InLedger' = InLedger /\ Totals' = Totals
  BY DEF InLedger, Totals, ledgerVars, Billed
<1>2. CASE stream' = stream
  BY <1>1, <1>2 DEF Owed, Durable, InStream, Billed, ledgerVars
<1>3. CASE \E c \in Charge : /\ stream' = XAdded(c, Price(c))
                             /\ \A e \in Disconnected : c = Correction(e) => Billed(Usage(e))
  <2>1. PICK c \in Charge : /\ stream' = XAdded(c, Price(c))
                            /\ \A e \in Disconnected : c = Correction(e) => Billed(Usage(e))
    BY <1>3
  <2>2. Price(c) \in Int BY PriceOf
  <2>3. /\ Len(stream) \in Nat /\ Len(stream') = Len(stream) + 1
        /\ \A i \in 1..Len(stream) : stream'[i] = stream[i]
        /\ stream'[Len(stream) + 1].charge = c
    BY <2>1, <2>2, StreamAppended DEF PInv, TypeOK
  <2>4. \A d : InStream(d)' <=> InStream(d) \/ d = c
    <3> SUFFICES ASSUME NEW d
                 PROVE  (\E i \in 1..Len(stream') : stream'[i].charge = d)
                           <=> (\E i \in 1..Len(stream) : stream[i].charge = d) \/ d = c
      BY DEF InStream
    <3>1. 1..Len(stream') = 1..Len(stream) \cup {Len(stream) + 1} BY <2>3
    <3> QED BY <2>3, <3>1
  <2>5. \A d : Billed(d)' <=> Billed(d) BY DEF Billed, ledgerVars
  <2>6. Owed' = Owed \cup {c} BY <2>4, <2>5 DEF Owed, Durable
  <2>7. CASE c \in Owed BY <1>1, <2>6, <2>7
  <2>8. CASE c \notin Owed
    <3>1. c[2] = "correction" => <<c[1], "usage">> \in InLedger
      <4>1. ASSUME NEW e \in Disconnected, c = Correction(e)
            PROVE  <<c[1], "usage">> \in InLedger
        <5>1. <<c[1], "usage">> = Usage(e) BY <4>1 DEF Usage, Correction
        <5> QED BY <2>1, <4>1, <5>1, ChargesTyped DEF InLedger
      <4>2. ASSUME NEW e \in Events, c = Usage(e) PROVE c[2] = "usage"
        BY <4>2 DEF Usage
      <4> QED BY <4>1, <4>2, PriceOf
    <3>2. Charges!Owe(c)
      BY <1>1, <2>6, <2>8, <3>1 DEF Charges!Owe, Owed, InLedger, Totals
    <3>3. c \in Charges!Charge BY DEF Charges!Charge, Charge
    <3> QED BY <3>2, <3>3 DEF Charges!ChargesNext
  <2> QED BY <2>7, <2>8
<1> QED BY <1>2, <1>3, StreamStep

\* An inserted row is the billing of a charge that is owed (insert of usage_records).
LEMMA BillRefines ==
    ASSUME PInv, [Next]_vars, stream' = stream,
           NEW c \in Charge, Insert(c, c, Price(c)),
           InStream(c) \/ \E e \in Events : c = Usage(e)
    PROVE  Charges!ChargesNext \/ UNCHANGED <<Owed, InLedger, Totals>>
<1>1. TypeOK /\ RowsKeyed /\ PricedRight BY DEF PInv
<1>2. sum \in [Charge -> Int] BY <1>1 DEF TypeOK
<1>3. CASE \E x \in rows : x.id = c
  BY <1>3 DEF Insert, ledgerVars, Owed, InLedger, Totals, Durable, InStream, Billed
<1>4. CASE ~\E x \in rows : x.id = c
  <2> DEFINE row == [id |-> c, charge |-> c, cost |-> Price(c)]
  <2>1. rows' = rows \cup {row} /\ sum' = [sum EXCEPT ![c] = @ + Price(c)]
    BY <1>4 DEF Insert
  <2>2. row.charge = c OBVIOUS
  <2> HIDE DEF row
  <2>3. ~Billed(c) BY <1>1, <1>4 DEF Billed, RowsKeyed
  <2>4. \A d : Billed(d)' <=> Billed(d) \/ d = c BY <2>1, <2>2 DEF Billed
  <2>5. \A d : InStream(d)' <=> InStream(d) BY DEF InStream
  <2>6. Owed' = Owed \cup {c} BY <2>4, <2>5 DEF Owed, Durable
  <2>7. InLedger' = InLedger \cup {c} /\ c \notin InLedger BY <2>3, <2>4 DEF InLedger
  <2>8. sum[c] = 0 BY <1>1, <2>3 DEF PricedRight
  <2>9. sum'[c] = Price(c) /\ \A d \in Charge : d # c => sum'[d] = sum[d]
    BY <1>2, <2>1, <2>8, PriceOf
  <2>10. c[1] \in Events BY ChargesTyped, PriceOf DEF Usage, Correction
  <2>11. Totals' = [Totals EXCEPT ![c[1]] = Charges!TotalAfter(c)]
    <3>1. ASSUME NEW e \in Events, c = Usage(e)
          PROVE  Totals' = [Totals EXCEPT ![c[1]] = Charges!TotalAfter(c)]
      <4>1. c[1] = e /\ c[2] = "usage" BY <3>1 DEF Usage
      <4>2. Charges!TotalAfter(c) = Cost[e] BY <4>1 DEF Charges!TotalAfter
      <4>3. sum'[Usage(e)] = Cost[e] BY <2>9, <3>1, PriceOf
      <4>4. e \in Disconnected => sum'[Correction(e)] = 0
        <5> SUFFICES ASSUME e \in Disconnected PROVE sum'[Correction(e)] = 0
          OBVIOUS
        <5>1. Correction(e) \in Charge /\ Correction(e) # c BY <3>1, ChargesTyped
        <5>2. ~Billed(Correction(e)) BY <1>1, <2>3, <3>1 DEF PricedRight, Durable
        <5>3. sum[Correction(e)] = 0 BY <1>1, <5>1, <5>2 DEF PricedRight
        <5> QED BY <2>9, <5>1, <5>3
      <4>5. \A f \in Events : f # e =>
               /\ sum'[Usage(f)] = sum[Usage(f)]
               /\ f \in Disconnected => sum'[Correction(f)] = sum[Correction(f)]
        BY <2>9, <3>1, ChargesTyped
      <4>6. Cost[e] \in Int BY ChargesTyped
      <4>7. Totals'[e] = Cost[e] BY <4>3, <4>4, <4>6 DEF Totals
      <4>8. \A f \in Events : f # e => Totals'[f] = Totals[f] BY <4>5 DEF Totals
      <4> QED BY <4>1, <4>2, <4>7, <4>8 DEF Totals
    <3>2. ASSUME NEW e \in Disconnected, c = Correction(e)
          PROVE  Totals' = [Totals EXCEPT ![c[1]] = Charges!TotalAfter(c)]
      <4>1. c[1] = e /\ c[2] # "usage" BY <3>2 DEF Correction
      <4>2. Charges!TotalAfter(c) = Target[e] BY <4>1 DEF Charges!TotalAfter
      <4>3. e \in Events /\ Usage(e) \in Charge /\ Usage(e) # c
            /\ Cost[e] \in Int /\ Target[e] \in Int
        BY <3>2, ChargesTyped
      <4>4. InStream(c) BY <3>2, ChargesTyped
      <4>5. Billed(Usage(e)) BY <1>1, <3>2, <4>4 DEF PricedRight, Durable
      <4>6. sum[Usage(e)] = Cost[e] BY <1>1, <4>3, <4>5, PriceOf DEF PricedRight
      <4>7. sum'[Usage(e)] = Cost[e] BY <2>9, <4>3, <4>6
      <4>8. sum'[Correction(e)] = Target[e] - Cost[e] BY <2>9, <3>2, PriceOf
      <4>9. \A f \in Events : f # e =>
               /\ sum'[Usage(f)] = sum[Usage(f)]
               /\ f \in Disconnected => sum'[Correction(f)] = sum[Correction(f)]
        BY <2>9, <3>2, ChargesTyped
      <4>10. Totals'[e] = Target[e] BY <4>3, <4>7, <4>8 DEF Totals
      <4>11. \A f \in Events : f # e => Totals'[f] = Totals[f] BY <4>9 DEF Totals
      <4> QED BY <4>1, <4>2, <4>3, <4>10, <4>11 DEF Totals
    <3> QED BY <3>1, <3>2, PriceOf
  <2>12. c \in Charges!Charge BY DEF Charges!Charge, Charge
  <2>13. CASE c \in Owed
    <3>1. Charges!Bill(c)
      BY <2>6, <2>7, <2>11, <2>13 DEF Charges!Bill, Owed, InLedger, Totals
    <3> QED BY <2>12, <3>1 DEF Charges!ChargesNext
  <2>14. CASE c \notin Owed
    <3>1. c[2] = "usage" BY <2>14 DEF Owed, Durable, Usage
    <3>2. Charges!OweAndBill(c)
      BY <2>6, <2>7, <2>11, <2>14, <3>1 DEF Charges!OweAndBill, Owed, InLedger, Totals
    <3> QED BY <2>12, <3>2 DEF Charges!ChargesNext
  <2> QED BY <2>13, <2>14
<1> QED BY <1>3, <1>4

\* Every behaviour of the pipeline is one of the account of charges: a charge is
\* owed once, billed once and only then, and a corrected total is the true cost.
THEOREM PipelineRefines == Spec => ChargesRefined
<1>1. Init => Charges!ChargesInit
  <2> SUFFICES ASSUME Init PROVE Charges!ChargesInit
    OBVIOUS
  <2>1. stream = << >> /\ rows = {} /\ sum = [c \in Charge |-> 0] BY DEF Init
  <2>2. 1..Len(stream) = {} BY <2>1
  <2>3. Owed = {} /\ InLedger = {}
    BY <2>1, <2>2 DEF Owed, InLedger, Durable, Billed, InStream
  <2>4. Totals = [e \in Events |-> 0] BY <2>1, ChargesTyped DEF Totals
  <2> QED BY <2>3, <2>4 DEF Charges!ChargesInit, Owed, InLedger, Totals
<1>2. PInv /\ [Next]_vars => [Charges!ChargesNext]_<<Owed, InLedger, Totals>>
  BY OneAtATime, OweRefines, BillRefines
<1>3. [Charges!ChargesNext]_<<Owed, InLedger, Totals>> => [Charges!ChargesNext]_(Charges!chargeVars)
  BY DEF Charges!chargeVars, Owed, InLedger, Totals
<1> QED BY <1>1, <1>2, <1>3, PipelineInvariant, PTL DEF Spec, ChargesRefined, Charges!ChargesSpec

=============================================================================
