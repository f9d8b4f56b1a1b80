-------------------------- MODULE BatchWindowProofs --------------------------
(***************************************************************************)
(* The safety of diverted requests, for any processes, tenants, items and  *)
(* faults.  WInv is inductive: an item in its window is nowhere else, the  *)
(* claim script takes it out of the window and marks it at once, and what  *)
(* is marked cannot be abandoned any more.                                 *)
(***************************************************************************)
EXTENDS BatchWindow, TLAPS

-----------------------------------------------------------------------------
(* What the scripts and the callers' steps change.                         *)

\* Answering a caller changes its own progress and answer only (_lifecycle's returns).
LEMMA AnsweredAt ==
    ASSUME TypeOK, NEW i \in Items, NEW a \in SyncAnswers \cup {"submitted"}, Answered(i, a)
    PROVE  /\ pc' \in [Items -> Waiting \cup {"new", "abandoning", "over", "gone"}]
           /\ answer' \in [Items -> SyncAnswers \cup {None, "submitted"}]
           /\ pc'[i] = "over" /\ answer'[i] = a
           /\ \A j \in Items : j # i => pc'[j] = pc[j] /\ answer'[j] = answer[j]
BY DEF TypeOK, Answered

\* A step of a caller that is not answered changes its progress only.
LEMMA BecomesAt ==
    ASSUME TypeOK, NEW i \in Items, NEW s \in Waiting \cup {"abandoning", "gone"}, Becomes(i, s)
    PROVE  /\ pc' \in [Items -> Waiting \cup {"new", "abandoning", "over", "gone"}]
           /\ answer' = answer
           /\ pc'[i] = s
           /\ \A j \in Items : j # i => pc'[j] = pc[j]
BY DEF TypeOK, Becomes

\* The append script adds the item to its tenant's window, or does nothing (_APPEND_LUA).
LEMMA AppendAt ==
    ASSUME TypeOK, NEW i \in Items, AppendScript(i) \/ UNCHANGED window
    PROVE  /\ window' \in [Tenants -> SUBSET Items]
           /\ \A t \in Tenants : window[t] \subseteq window'[t] /\ window'[t] \subseteq window[t] \cup {i}
           /\ \A t \in Tenants : t # TenantOf[i] => window'[t] = window[t]
           /\ \A t \in Tenants : \A j \in window'[t] : TenantOf[j] = t
<1>1. TenantOf[i] \in Tenants
  BY WindowAssumption
<1> QED BY <1>1 DEF TypeOK, AppendScript

\* The abandon script writes a marker only where there is none (_TRY_ABANDON_LUA).
LEMMA AbandonAt ==
    ASSUME TypeOK, NEW i \in Items, TryAbandonScript(i) \/ UNCHANGED marker
    PROVE  /\ marker' \in [Items -> Kinds \cup {None}]
           /\ \A j \in Items : j # i => marker'[j] = marker[j]
           /\ marker[i] # None => marker'[i] = marker[i]
           /\ marker'[i] \in {marker[i], "abandoned"}
           /\ TryAbandonScript(i) /\ marker[i] = None => marker'[i] = "abandoned"
BY DEF TypeOK, TryAbandonScript, Kinds

\* The claim script drains one window and marks what it claims (_CLAIM_DUE_LUA).
LEMMA ClaimAt ==
    ASSUME TypeOK, NEW t \in Tenants, ClaimScript(t)
    PROVE  /\ window' \in [Tenants -> SUBSET Items]
           /\ marker' \in [Items -> Kinds \cup {None}]
           /\ window'[t] = {} /\ elapsed' \subseteq Tenants
           /\ \A u \in Tenants : u # t => window'[u] = window[u]
           /\ \A i \in Items : i \in Claimable(t) => marker'[i] = "claimed"
           /\ \A i \in Items : i \in window[t] /\ i \notin Claimable(t) => marker'[i] = None
           /\ \A i \in Items : i \notin window[t] => marker'[i] = marker[i]
<1>1. \A i \in Items : i \in Claimable(t) => i \in window[t]
  BY DEF Claimable
<1>2. window' \in [Tenants -> SUBSET Items] /\ window'[t] = {} /\ elapsed' \subseteq Tenants
      /\ \A u \in Tenants : u # t => window'[u] = window[u]
  BY DEF TypeOK, ClaimScript
<1> DEFINE M(i) == IF i \in Claimable(t) THEN "claimed"
                   ELSE IF i \in window[t] THEN None ELSE marker[i]
<1>3. marker' = [i \in Items |-> M(i)]
  BY DEF ClaimScript
<1>4. \A i \in Items : M(i) \in Kinds \cup {None}
  BY DEF TypeOK, Kinds
<1>5. marker' \in [Items -> Kinds \cup {None}]
  BY <1>3, <1>4
<1>6. \A i \in Items : marker'[i] = M(i)
  BY <1>3
<1> QED BY <1>1, <1>2, <1>5, <1>6

\* What can be claimed was abandoned by nobody and is in no job (claim_due).
LEMMA ClaimableItems ==
    ASSUME WInv, NEW t \in Tenants
    PROVE  \A i \in Claimable(t) : /\ i \in Items /\ i \in window[t] /\ TenantOf[i] = t
                                    /\ Untaken(i) /\ marker[i] = None
                                    /\ answer[i] # "abandoned"
<1>1. ASSUME NEW i \in Claimable(t) PROVE i \in Items /\ i \in window[t] /\ TenantOf[i] = t /\ marker[i] = None
  BY WindowAssumption DEF WInv, TypeOK, Claimable
<1>2. ASSUME NEW i \in Claimable(t) PROVE Untaken(i) /\ answer[i] # "abandoned"
  BY <1>1, WindowAssumption DEF WInv, Fresh, Marked, Kinds
<1> QED BY <1>1, <1>2
-----------------------------------------------------------------------------
(* The steps of Next keep each part of the invariant.                      *)

\* Every step keeps the variables in their sets (TypeOK).
LEMMA TypeOKStep == ASSUME WInv, [Next]_vars PROVE TypeOK'
<1> USE WindowAssumption DEF WInv, TypeOK, Fresh, Carrying, Marked, Faultless, NeverBoth,
      OneJob, SubmittedIsPollable, Untaken, Carried, Waiting, SyncAnswers, Kinds, Fails,
      callerVars, flusherVars, jobVars
<1>1. ASSUME NEW i \in Items, NotDiverted(i) \/ SeeOutcome(i) PROVE TypeOK'
  BY <1>1, AnsweredAt DEF NotDiverted, SeeOutcome
<1>2. ASSUME NEW i \in Items, Divert(i) PROVE TypeOK'
  BY <1>2, AppendAt, BecomesAt DEF Divert
<1>3. ASSUME NEW i \in Items, DivertFails(i) PROVE TypeOK'
  BY <1>3, AnsweredAt, AppendAt DEF DivertFails
<1>4. ASSUME NEW i \in Items, SeeClaimed(i) \/ ShortDeadline(i) \/ LongDeadline(i) \/ Disconnect(i) PROVE TypeOK'
  BY <1>4, BecomesAt DEF SeeClaimed, ShortDeadline, LongDeadline, Disconnect, Missed
<1>5. ASSUME NEW i \in Items, TryAbandon(i) PROVE TypeOK'
  BY <1>5, AbandonAt, AnsweredAt, BecomesAt DEF TryAbandon
<1>6. ASSUME NEW i \in Items, TryAbandonFails(i) PROVE TypeOK'
  BY <1>6, AbandonAt, BecomesAt DEF TryAbandonFails
<1>7. ASSUME NEW i \in Items, Ceiling(i) PROVE TypeOK'
  BY <1>7, AnsweredAt DEF Ceiling, Missed
<1>8. ASSUME NEW i \in Items, MarkerExpires(i) PROVE TypeOK'
  BY <1>8 DEF MarkerExpires
<1>9. ASSUME NEW p \in Processes, ListTenants(p) PROVE TypeOK'
  BY <1>9 DEF ListTenants, ActiveTenants
<1>10. ASSUME NEW p \in Processes, CreateJob(p) PROVE TypeOK'
  BY <1>10 DEF CreateJob, JobRow
<1>11. ASSUME NEW p \in Processes, CreateJobFails(p) PROVE TypeOK'
  BY <1>11 DEF CreateJobFails, JobRow
<1>12. ASSUME NEW p \in Processes, Dispatch(p) PROVE TypeOK'
  BY <1>12 DEF Dispatch
<1>13. ASSUME NEW p \in Processes, DispatchFails(p) PROVE TypeOK'
  BY <1>13 DEF DispatchFails
<1>14. ASSUME NEW p \in Processes, NEW t \in Tenants, ClaimDue(p, t) PROVE TypeOK'
  <2>1. Claimable(t) \in SUBSET Items
    BY ClaimableItems
  <2>2. group' \in [Processes -> SUBSET Items] /\ todo' \in [Processes -> SUBSET Tenants]
        /\ flusher' \in [Processes -> {"idle", "claiming", "creating", "dispatching",
                                       "submitted", "failed"}]
    BY <1>14, <2>1 DEF ClaimDue
  <2>3. \A u \in Tenants : \A i \in window'[u] : TenantOf[i] = u
    BY <1>14, ClaimAt DEF ClaimDue
  <2> QED BY <1>14, <2>2, <2>3, ClaimAt DEF ClaimDue
<1>15. ASSUME NEW p \in Processes, NEW t \in Tenants, ClaimNothing(p, t) PROVE TypeOK'
  BY <1>15, ClaimAt, ClaimableItems DEF ClaimNothing, NextTurn
<1>16. ASSUME NEW p \in Processes, NEW t \in Tenants, ClaimFails(p, t) PROVE TypeOK'
  BY <1>16, ClaimAt, ClaimableItems DEF ClaimFails, NextTurn
<1>17. ASSUME NEW p \in Processes, NEW i \in Items, PublishResult(p, i) PROVE TypeOK'
  BY <1>17 DEF PublishResult, Published
<1>18. ASSUME NEW p \in Processes, NEW i \in Items, PublishFails(p, i) PROVE TypeOK'
  <2>1. marker' \in [Items -> Kinds \cup {None}]
    BY <1>18 DEF PublishFails
  <2>2. /\ group' \in [Processes -> SUBSET Items]
        /\ flusher' \in [Processes -> {"idle", "claiming", "creating", "dispatching",
                                       "submitted", "failed"}]
    BY <1>18 DEF PublishFails, Published
  <2> QED BY <1>18, <2>1, <2>2 DEF PublishFails
<1>19. ASSUME NEW p \in Processes, ProcessDies(p) PROVE TypeOK'
  BY <1>19 DEF ProcessDies
<1>20. ASSUME NEW t \in Tenants, WindowElapses(t) PROVE TypeOK'
  BY <1>20 DEF WindowElapses
<1>21. CASE UNCHANGED vars
  BY <1>21 DEF vars
<1> QED BY <1>1, <1>2, <1>3, <1>4, <1>5, <1>6, <1>7, <1>8, <1>9, <1>10, <1>11, <1>12, <1>13, <1>14, <1>15, <1>16, <1>17, <1>18, <1>19, <1>20, <1>21 DEF Next, CallerNext, FlusherNext

\* An item in its window is nowhere else, whoever claims it (Fresh).
LEMMA FreshStep == ASSUME WInv, [Next]_vars PROVE Fresh'
<1> USE WindowAssumption DEF WInv, TypeOK, Fresh, Carrying, Marked, Faultless, NeverBoth,
      OneJob, SubmittedIsPollable, Untaken, Carried, Waiting, SyncAnswers, Kinds, Fails,
      callerVars, flusherVars, jobVars
<1>1. ASSUME NEW i \in Items, NotDiverted(i) \/ SeeOutcome(i) PROVE Fresh'
  BY <1>1, AnsweredAt DEF NotDiverted, SeeOutcome
<1>2. ASSUME NEW i \in Items, Divert(i) PROVE Fresh'
  BY <1>2, AppendAt, BecomesAt DEF Divert
<1>3. ASSUME NEW i \in Items, DivertFails(i) PROVE Fresh'
  BY <1>3, AnsweredAt, AppendAt DEF DivertFails
<1>4. ASSUME NEW i \in Items, SeeClaimed(i) \/ ShortDeadline(i) \/ LongDeadline(i) \/ Disconnect(i) PROVE Fresh'
  BY <1>4, BecomesAt DEF SeeClaimed, ShortDeadline, LongDeadline, Disconnect, Missed
<1>5. ASSUME NEW i \in Items, TryAbandon(i) PROVE Fresh'
  BY <1>5, AbandonAt, AnsweredAt, BecomesAt DEF TryAbandon
<1>6. ASSUME NEW i \in Items, TryAbandonFails(i) PROVE Fresh'
  BY <1>6, AbandonAt, BecomesAt DEF TryAbandonFails
<1>7. ASSUME NEW i \in Items, Ceiling(i) PROVE Fresh'
  BY <1>7, AnsweredAt DEF Ceiling, Missed
<1>8. ASSUME NEW i \in Items, MarkerExpires(i) PROVE Fresh'
  BY <1>8 DEF MarkerExpires
<1>9. ASSUME NEW p \in Processes, ListTenants(p) PROVE Fresh'
  BY <1>9 DEF ListTenants
<1>10. ASSUME NEW p \in Processes, CreateJob(p) PROVE Fresh'
  BY <1>10 DEF CreateJob, JobRow
<1>11. ASSUME NEW p \in Processes, CreateJobFails(p) PROVE Fresh'
  BY <1>11 DEF CreateJobFails, JobRow
<1>12. ASSUME NEW p \in Processes, Dispatch(p) PROVE Fresh'
  BY <1>12 DEF Dispatch
<1>13. ASSUME NEW p \in Processes, DispatchFails(p) PROVE Fresh'
  BY <1>13 DEF DispatchFails
<1>14. ASSUME NEW p \in Processes, NEW t \in Tenants, ClaimDue(p, t) PROVE Fresh'
  BY <1>14, ClaimAt, ClaimableItems DEF ClaimDue
<1>15. ASSUME NEW p \in Processes, NEW t \in Tenants, ClaimNothing(p, t) PROVE Fresh'
  BY <1>15, ClaimAt, ClaimableItems DEF ClaimNothing, NextTurn
<1>16. ASSUME NEW p \in Processes, NEW t \in Tenants, ClaimFails(p, t) PROVE Fresh'
  BY <1>16, ClaimAt, ClaimableItems DEF ClaimFails, NextTurn
<1>17. ASSUME NEW p \in Processes, NEW i \in Items, PublishResult(p, i) PROVE Fresh'
  BY <1>17 DEF PublishResult, Published
<1>18. ASSUME NEW p \in Processes, NEW i \in Items, PublishFails(p, i) PROVE Fresh'
  BY <1>18 DEF PublishFails, Published
<1>19. ASSUME NEW p \in Processes, ProcessDies(p) PROVE Fresh'
  BY <1>19 DEF ProcessDies
<1>20. ASSUME NEW t \in Tenants, WindowElapses(t) PROVE Fresh'
  BY <1>20 DEF WindowElapses
<1>21. CASE UNCHANGED vars
  BY <1>21 DEF vars
<1> QED BY <1>1, <1>2, <1>3, <1>4, <1>5, <1>6, <1>7, <1>8, <1>9, <1>10, <1>11, <1>12, <1>13, <1>14, <1>15, <1>16, <1>17, <1>18, <1>19, <1>20, <1>21 DEF Next, CallerNext, FlusherNext

\* What a flusher carries stays its own and as far as the flusher is (Carrying).
LEMMA CarryingStep == ASSUME WInv, [Next]_vars PROVE Carrying'
<1> USE WindowAssumption DEF WInv, TypeOK, Fresh, Carrying, Marked, Faultless, NeverBoth,
      OneJob, SubmittedIsPollable, Untaken, Carried, Waiting, SyncAnswers, Kinds, Fails,
      callerVars, flusherVars, jobVars
<1>1. ASSUME NEW i \in Items, NotDiverted(i) \/ SeeOutcome(i) PROVE Carrying'
  BY <1>1, AnsweredAt DEF NotDiverted, SeeOutcome
<1>2. ASSUME NEW i \in Items, Divert(i) PROVE Carrying'
  BY <1>2, AppendAt, BecomesAt DEF Divert
<1>3. ASSUME NEW i \in Items, DivertFails(i) PROVE Carrying'
  BY <1>3, AnsweredAt, AppendAt DEF DivertFails
<1>4. ASSUME NEW i \in Items, SeeClaimed(i) \/ ShortDeadline(i) \/ LongDeadline(i) \/ Disconnect(i) PROVE Carrying'
  BY <1>4, BecomesAt DEF SeeClaimed, ShortDeadline, LongDeadline, Disconnect, Missed
<1>5. ASSUME NEW i \in Items, TryAbandon(i) PROVE Carrying'
  BY <1>5, AbandonAt, AnsweredAt, BecomesAt DEF TryAbandon
<1>6. ASSUME NEW i \in Items, TryAbandonFails(i) PROVE Carrying'
  BY <1>6, AbandonAt, BecomesAt DEF TryAbandonFails
<1>7. ASSUME NEW i \in Items, Ceiling(i) PROVE Carrying'
  BY <1>7, AnsweredAt DEF Ceiling, Missed
<1>8. ASSUME NEW i \in Items, MarkerExpires(i) PROVE Carrying'
  BY <1>8 DEF MarkerExpires
<1>9. ASSUME NEW p \in Processes, ListTenants(p) PROVE Carrying'
  BY <1>9 DEF ListTenants
<1>10. ASSUME NEW p \in Processes, CreateJob(p) PROVE Carrying'
  BY <1>10 DEF CreateJob, JobRow
<1>11. ASSUME NEW p \in Processes, CreateJobFails(p) PROVE Carrying'
  BY <1>11 DEF CreateJobFails, JobRow
<1>12. ASSUME NEW p \in Processes, Dispatch(p) PROVE Carrying'
  BY <1>12 DEF Dispatch
<1>13. ASSUME NEW p \in Processes, DispatchFails(p) PROVE Carrying'
  BY <1>13 DEF DispatchFails
<1>14. ASSUME NEW p \in Processes, NEW t \in Tenants, ClaimDue(p, t) PROVE Carrying'
  BY <1>14, ClaimAt, ClaimableItems DEF ClaimDue
<1>15. ASSUME NEW p \in Processes, NEW t \in Tenants, ClaimNothing(p, t) PROVE Carrying'
  BY <1>15, ClaimAt, ClaimableItems DEF ClaimNothing, NextTurn
<1>16. ASSUME NEW p \in Processes, NEW t \in Tenants, ClaimFails(p, t) PROVE Carrying'
  BY <1>16, ClaimAt, ClaimableItems DEF ClaimFails, NextTurn
<1>17. ASSUME NEW p \in Processes, NEW i \in Items, PublishResult(p, i) PROVE Carrying'
  BY <1>17 DEF PublishResult, Published
<1>18. ASSUME NEW p \in Processes, NEW i \in Items, PublishFails(p, i) PROVE Carrying'
  BY <1>18 DEF PublishFails, Published
<1>19. ASSUME NEW p \in Processes, ProcessDies(p) PROVE Carrying'
  BY <1>19 DEF ProcessDies
<1>20. ASSUME NEW t \in Tenants, WindowElapses(t) PROVE Carrying'
  BY <1>20 DEF WindowElapses
<1>21. CASE UNCHANGED vars
  BY <1>21 DEF vars
<1> QED BY <1>1, <1>2, <1>3, <1>4, <1>5, <1>6, <1>7, <1>8, <1>9, <1>10, <1>11, <1>12, <1>13, <1>14, <1>15, <1>16, <1>17, <1>18, <1>19, <1>20, <1>21 DEF Next, CallerNext, FlusherNext

\* A taken item keeps its marker while its caller waits (Marked).
LEMMA MarkedStep == ASSUME WInv, [Next]_vars PROVE Marked'
<1> USE WindowAssumption DEF WInv, TypeOK, Fresh, Carrying, Marked, Faultless, NeverBoth,
      OneJob, SubmittedIsPollable, Untaken, Carried, Waiting, SyncAnswers, Kinds, Fails,
      callerVars, flusherVars, jobVars
<1>1. ASSUME NEW i \in Items, NotDiverted(i) \/ SeeOutcome(i) PROVE Marked'
  BY <1>1, AnsweredAt DEF NotDiverted, SeeOutcome
<1>2. ASSUME NEW i \in Items, Divert(i) PROVE Marked'
  BY <1>2, AppendAt, BecomesAt DEF Divert
<1>3. ASSUME NEW i \in Items, DivertFails(i) PROVE Marked'
  BY <1>3, AnsweredAt, AppendAt DEF DivertFails
<1>4. ASSUME NEW i \in Items, SeeClaimed(i) \/ ShortDeadline(i) \/ LongDeadline(i) \/ Disconnect(i) PROVE Marked'
  BY <1>4, BecomesAt DEF SeeClaimed, ShortDeadline, LongDeadline, Disconnect, Missed
<1>5. ASSUME NEW i \in Items, TryAbandon(i) PROVE Marked'
  BY <1>5, AbandonAt, AnsweredAt, BecomesAt DEF TryAbandon
<1>6. ASSUME NEW i \in Items, TryAbandonFails(i) PROVE Marked'
  BY <1>6, AbandonAt, BecomesAt DEF TryAbandonFails
<1>7. ASSUME NEW i \in Items, Ceiling(i) PROVE Marked'
  BY <1>7, AnsweredAt DEF Ceiling, Missed
<1>8. ASSUME NEW i \in Items, MarkerExpires(i) PROVE Marked'
  BY <1>8 DEF MarkerExpires
<1>9. ASSUME NEW p \in Processes, ListTenants(p) PROVE Marked'
  BY <1>9 DEF ListTenants
<1>10. ASSUME NEW p \in Processes, CreateJob(p) PROVE Marked'
  BY <1>10 DEF CreateJob, JobRow
<1>11. ASSUME NEW p \in Processes, CreateJobFails(p) PROVE Marked'
  BY <1>11 DEF CreateJobFails, JobRow
<1>12. ASSUME NEW p \in Processes, Dispatch(p) PROVE Marked'
  BY <1>12 DEF Dispatch
<1>13. ASSUME NEW p \in Processes, DispatchFails(p) PROVE Marked'
  BY <1>13 DEF DispatchFails
<1>14. ASSUME NEW p \in Processes, NEW t \in Tenants, ClaimDue(p, t) PROVE Marked'
  <2> SUFFICES ASSUME NEW i \in Items PROVE
        /\ pc'[i] \notin {"over", "gone"} /\ (Carried(i)' \/ jobs'[i] > 0) =>
             marker'[i] \in {"claimed", "submitted", "failed"}
        /\ marker'[i] = "submitted" => jobs'[i] = 1 /\ ~Carried(i)'
        /\ marker'[i] = "failed" \/ answer'[i] = "failed" =>
             i \notin dispatched' /\ ~Carried(i)' /\ i \notin window'[TenantOf[i]]
        /\ answer'[i] = "abandoned" /\ i \in window'[TenantOf[i]] => marker'[i] = "abandoned"
    OBVIOUS
  <2>1. UNCHANGED <<pc, answer, jobs, dispatched>>
    BY <1>14 DEF ClaimDue
  <2>2. TenantOf[i] \in Tenants /\ window'[TenantOf[i]] \subseteq window[TenantOf[i]]
    <3>1. TenantOf[i] \in Tenants
      OBVIOUS
    <3>2. CASE TenantOf[i] = t
      BY <1>14, <3>1, <3>2, ClaimAt DEF ClaimDue
    <3>3. CASE TenantOf[i] # t
      BY <1>14, <3>1, <3>3, ClaimAt DEF ClaimDue
    <3> QED BY <3>1, <3>2, <3>3
  <2>3. CASE i \in Claimable(t)
    <3>1. marker'[i] = "claimed" /\ i \in window[TenantOf[i]]
      BY <1>14, <2>3, ClaimAt, ClaimableItems DEF ClaimDue
    <3>2. i \notin window'[TenantOf[i]]
      BY <1>14, <2>3, ClaimAt, ClaimableItems DEF ClaimDue
    <3> QED BY <2>1, <3>1, <3>2
  <2>4. CASE i \notin Claimable(t)
    <3>1. Carried(i)' => Carried(i)
      BY <1>14, <2>4 DEF ClaimDue
    <3>2. i \in window[t] => i \notin window'[TenantOf[i]] /\ marker'[i] = None /\ Untaken(i)
      BY <1>14, <2>4, ClaimAt DEF ClaimDue
    <3>3. i \notin window[t] => marker'[i] = marker[i]
      BY <1>14, ClaimAt DEF ClaimDue
    <3> QED BY <2>1, <2>2, <3>1, <3>2, <3>3
  <2> QED BY <2>3, <2>4
<1>15. ASSUME NEW p \in Processes, NEW t \in Tenants, ClaimNothing(p, t) PROVE Marked'
  BY <1>15, ClaimAt, ClaimableItems DEF ClaimNothing, NextTurn
<1>16. ASSUME NEW p \in Processes, NEW t \in Tenants, ClaimFails(p, t) PROVE Marked'
  BY <1>16, ClaimAt, ClaimableItems DEF ClaimFails, NextTurn
<1>17. ASSUME NEW p \in Processes, NEW i \in Items, PublishResult(p, i) PROVE Marked'
  BY <1>17 DEF PublishResult, Published
<1>18. ASSUME NEW p \in Processes, NEW i \in Items, PublishFails(p, i) PROVE Marked'
  BY <1>18 DEF PublishFails, Published
<1>19. ASSUME NEW p \in Processes, ProcessDies(p) PROVE Marked'
  BY <1>19 DEF ProcessDies
<1>20. ASSUME NEW t \in Tenants, WindowElapses(t) PROVE Marked'
  BY <1>20 DEF WindowElapses
<1>21. CASE UNCHANGED vars
  BY <1>21 DEF vars
<1> QED BY <1>1, <1>2, <1>3, <1>4, <1>5, <1>6, <1>7, <1>8, <1>9, <1>10, <1>11, <1>12, <1>13, <1>14, <1>15, <1>16, <1>17, <1>18, <1>19, <1>20, <1>21 DEF Next, CallerNext, FlusherNext

\* Without a fault no claim loses its outcome (Faultless).
LEMMA FaultlessStep == ASSUME WInv, [Next]_vars PROVE Faultless'
<1> USE WindowAssumption DEF WInv, TypeOK, Fresh, Carrying, Marked, Faultless, NeverBoth,
      OneJob, SubmittedIsPollable, Untaken, Carried, Waiting, SyncAnswers, Kinds, Fails,
      callerVars, flusherVars, jobVars
<1>1. ASSUME NEW i \in Items, NotDiverted(i) \/ SeeOutcome(i) PROVE Faultless'
  BY <1>1, AnsweredAt DEF NotDiverted, SeeOutcome
<1>2. ASSUME NEW i \in Items, Divert(i) PROVE Faultless'
  BY <1>2, AppendAt, BecomesAt DEF Divert
<1>3. ASSUME NEW i \in Items, DivertFails(i) PROVE Faultless'
  BY <1>3, AnsweredAt, AppendAt DEF DivertFails
<1>4. ASSUME NEW i \in Items, SeeClaimed(i) \/ ShortDeadline(i) \/ LongDeadline(i) \/ Disconnect(i) PROVE Faultless'
  BY <1>4, BecomesAt DEF SeeClaimed, ShortDeadline, LongDeadline, Disconnect, Missed
<1>5. ASSUME NEW i \in Items, TryAbandon(i) PROVE Faultless'
  BY <1>5, AbandonAt, AnsweredAt, BecomesAt DEF TryAbandon
<1>6. ASSUME NEW i \in Items, TryAbandonFails(i) PROVE Faultless'
  BY <1>6, AbandonAt, BecomesAt DEF TryAbandonFails
<1>7. ASSUME NEW i \in Items, Ceiling(i) PROVE Faultless'
  BY <1>7, AnsweredAt DEF Ceiling, Missed
<1>8. ASSUME NEW i \in Items, MarkerExpires(i) PROVE Faultless'
  BY <1>8 DEF MarkerExpires
<1>9. ASSUME NEW p \in Processes, ListTenants(p) PROVE Faultless'
  BY <1>9 DEF ListTenants
<1>10. ASSUME NEW p \in Processes, CreateJob(p) PROVE Faultless'
  BY <1>10 DEF CreateJob, JobRow
<1>11. ASSUME NEW p \in Processes, CreateJobFails(p) PROVE Faultless'
  BY <1>11 DEF CreateJobFails, JobRow
<1>12. ASSUME NEW p \in Processes, Dispatch(p) PROVE Faultless'
  BY <1>12 DEF Dispatch
<1>13. ASSUME NEW p \in Processes, DispatchFails(p) PROVE Faultless'
  BY <1>13 DEF DispatchFails
<1>14. ASSUME NEW p \in Processes, NEW t \in Tenants, ClaimDue(p, t) PROVE Faultless'
  BY <1>14, ClaimAt, ClaimableItems DEF ClaimDue
<1>15. ASSUME NEW p \in Processes, NEW t \in Tenants, ClaimNothing(p, t) PROVE Faultless'
  BY <1>15, ClaimAt, ClaimableItems DEF ClaimNothing, NextTurn
<1>16. ASSUME NEW p \in Processes, NEW t \in Tenants, ClaimFails(p, t) PROVE Faultless'
  BY <1>16, ClaimAt, ClaimableItems DEF ClaimFails, NextTurn
<1>17. ASSUME NEW p \in Processes, NEW i \in Items, PublishResult(p, i) PROVE Faultless'
  BY <1>17 DEF PublishResult, Published
<1>18. ASSUME NEW p \in Processes, NEW i \in Items, PublishFails(p, i) PROVE Faultless'
  BY <1>18 DEF PublishFails, Published
<1>19. ASSUME NEW p \in Processes, ProcessDies(p) PROVE Faultless'
  BY <1>19 DEF ProcessDies
<1>20. ASSUME NEW t \in Tenants, WindowElapses(t) PROVE Faultless'
  BY <1>20 DEF WindowElapses
<1>21. CASE UNCHANGED vars
  BY <1>21 DEF vars
<1> QED BY <1>1, <1>2, <1>3, <1>4, <1>5, <1>6, <1>7, <1>8, <1>9, <1>10, <1>11, <1>12, <1>13, <1>14, <1>15, <1>16, <1>17, <1>18, <1>19, <1>20, <1>21 DEF Next, CallerNext, FlusherNext

\* A won abandonment stays alone (NeverBoth).
LEMMA NeverBothStep == ASSUME WInv, [Next]_vars PROVE NeverBoth'
<1> USE WindowAssumption DEF WInv, TypeOK, Fresh, Carrying, Marked, Faultless, NeverBoth,
      OneJob, SubmittedIsPollable, Untaken, Carried, Waiting, SyncAnswers, Kinds, Fails,
      callerVars, flusherVars, jobVars
<1>1. ASSUME NEW i \in Items, NotDiverted(i) \/ SeeOutcome(i) PROVE NeverBoth'
  BY <1>1, AnsweredAt DEF NotDiverted, SeeOutcome
<1>2. ASSUME NEW i \in Items, Divert(i) PROVE NeverBoth'
  BY <1>2, AppendAt, BecomesAt DEF Divert
<1>3. ASSUME NEW i \in Items, DivertFails(i) PROVE NeverBoth'
  BY <1>3, AnsweredAt, AppendAt DEF DivertFails
<1>4. ASSUME NEW i \in Items, SeeClaimed(i) \/ ShortDeadline(i) \/ LongDeadline(i) \/ Disconnect(i) PROVE NeverBoth'
  BY <1>4, BecomesAt DEF SeeClaimed, ShortDeadline, LongDeadline, Disconnect, Missed
<1>5. ASSUME NEW i \in Items, TryAbandon(i) PROVE NeverBoth'
  BY <1>5, AbandonAt, AnsweredAt, BecomesAt DEF TryAbandon
<1>6. ASSUME NEW i \in Items, TryAbandonFails(i) PROVE NeverBoth'
  BY <1>6, AbandonAt, BecomesAt DEF TryAbandonFails
<1>7. ASSUME NEW i \in Items, Ceiling(i) PROVE NeverBoth'
  BY <1>7, AnsweredAt DEF Ceiling, Missed
<1>8. ASSUME NEW i \in Items, MarkerExpires(i) PROVE NeverBoth'
  BY <1>8 DEF MarkerExpires
<1>9. ASSUME NEW p \in Processes, ListTenants(p) PROVE NeverBoth'
  BY <1>9 DEF ListTenants
<1>10. ASSUME NEW p \in Processes, CreateJob(p) PROVE NeverBoth'
  BY <1>10 DEF CreateJob, JobRow
<1>11. ASSUME NEW p \in Processes, CreateJobFails(p) PROVE NeverBoth'
  BY <1>11 DEF CreateJobFails, JobRow
<1>12. ASSUME NEW p \in Processes, Dispatch(p) PROVE NeverBoth'
  BY <1>12 DEF Dispatch
<1>13. ASSUME NEW p \in Processes, DispatchFails(p) PROVE NeverBoth'
  BY <1>13 DEF DispatchFails
<1>14. ASSUME NEW p \in Processes, NEW t \in Tenants, ClaimDue(p, t) PROVE NeverBoth'
  BY <1>14, ClaimAt, ClaimableItems DEF ClaimDue
<1>15. ASSUME NEW p \in Processes, NEW t \in Tenants, ClaimNothing(p, t) PROVE NeverBoth'
  BY <1>15, ClaimAt, ClaimableItems DEF ClaimNothing, NextTurn
<1>16. ASSUME NEW p \in Processes, NEW t \in Tenants, ClaimFails(p, t) PROVE NeverBoth'
  BY <1>16, ClaimAt, ClaimableItems DEF ClaimFails, NextTurn
<1>17. ASSUME NEW p \in Processes, NEW i \in Items, PublishResult(p, i) PROVE NeverBoth'
  BY <1>17 DEF PublishResult, Published
<1>18. ASSUME NEW p \in Processes, NEW i \in Items, PublishFails(p, i) PROVE NeverBoth'
  BY <1>18 DEF PublishFails, Published
<1>19. ASSUME NEW p \in Processes, ProcessDies(p) PROVE NeverBoth'
  BY <1>19 DEF ProcessDies
<1>20. ASSUME NEW t \in Tenants, WindowElapses(t) PROVE NeverBoth'
  BY <1>20 DEF WindowElapses
<1>21. CASE UNCHANGED vars
  BY <1>21 DEF vars
<1> QED BY <1>1, <1>2, <1>3, <1>4, <1>5, <1>6, <1>7, <1>8, <1>9, <1>10, <1>11, <1>12, <1>13, <1>14, <1>15, <1>16, <1>17, <1>18, <1>19, <1>20, <1>21 DEF Next, CallerNext, FlusherNext

\* No item gets a second job row (OneJob).
LEMMA OneJobStep == ASSUME WInv, [Next]_vars PROVE OneJob'
<1> USE WindowAssumption DEF WInv, TypeOK, Fresh, Carrying, Marked, Faultless, NeverBoth,
      OneJob, SubmittedIsPollable, Untaken, Carried, Waiting, SyncAnswers, Kinds, Fails,
      callerVars, flusherVars, jobVars
<1>1. ASSUME NEW i \in Items, NotDiverted(i) \/ SeeOutcome(i) PROVE OneJob'
  BY <1>1, AnsweredAt DEF NotDiverted, SeeOutcome
<1>2. ASSUME NEW i \in Items, Divert(i) PROVE OneJob'
  BY <1>2, AppendAt, BecomesAt DEF Divert
<1>3. ASSUME NEW i \in Items, DivertFails(i) PROVE OneJob'
  BY <1>3, AnsweredAt, AppendAt DEF DivertFails
<1>4. ASSUME NEW i \in Items, SeeClaimed(i) \/ ShortDeadline(i) \/ LongDeadline(i) \/ Disconnect(i) PROVE OneJob'
  BY <1>4, BecomesAt DEF SeeClaimed, ShortDeadline, LongDeadline, Disconnect, Missed
<1>5. ASSUME NEW i \in Items, TryAbandon(i) PROVE OneJob'
  BY <1>5, AbandonAt, AnsweredAt, BecomesAt DEF TryAbandon
<1>6. ASSUME NEW i \in Items, TryAbandonFails(i) PROVE OneJob'
  BY <1>6, AbandonAt, BecomesAt DEF TryAbandonFails
<1>7. ASSUME NEW i \in Items, Ceiling(i) PROVE OneJob'
  BY <1>7, AnsweredAt DEF Ceiling, Missed
<1>8. ASSUME NEW i \in Items, MarkerExpires(i) PROVE OneJob'
  BY <1>8 DEF MarkerExpires
<1>9. ASSUME NEW p \in Processes, ListTenants(p) PROVE OneJob'
  BY <1>9 DEF ListTenants
<1>10. ASSUME NEW p \in Processes, CreateJob(p) PROVE OneJob'
  BY <1>10 DEF CreateJob, JobRow
<1>11. ASSUME NEW p \in Processes, CreateJobFails(p) PROVE OneJob'
  BY <1>11 DEF CreateJobFails, JobRow
<1>12. ASSUME NEW p \in Processes, Dispatch(p) PROVE OneJob'
  BY <1>12 DEF Dispatch
<1>13. ASSUME NEW p \in Processes, DispatchFails(p) PROVE OneJob'
  BY <1>13 DEF DispatchFails
<1>14. ASSUME NEW p \in Processes, NEW t \in Tenants, ClaimDue(p, t) PROVE OneJob'
  BY <1>14, ClaimAt, ClaimableItems DEF ClaimDue
<1>15. ASSUME NEW p \in Processes, NEW t \in Tenants, ClaimNothing(p, t) PROVE OneJob'
  BY <1>15, ClaimAt, ClaimableItems DEF ClaimNothing, NextTurn
<1>16. ASSUME NEW p \in Processes, NEW t \in Tenants, ClaimFails(p, t) PROVE OneJob'
  BY <1>16, ClaimAt, ClaimableItems DEF ClaimFails, NextTurn
<1>17. ASSUME NEW p \in Processes, NEW i \in Items, PublishResult(p, i) PROVE OneJob'
  BY <1>17 DEF PublishResult, Published
<1>18. ASSUME NEW p \in Processes, NEW i \in Items, PublishFails(p, i) PROVE OneJob'
  BY <1>18 DEF PublishFails, Published
<1>19. ASSUME NEW p \in Processes, ProcessDies(p) PROVE OneJob'
  BY <1>19 DEF ProcessDies
<1>20. ASSUME NEW t \in Tenants, WindowElapses(t) PROVE OneJob'
  BY <1>20 DEF WindowElapses
<1>21. CASE UNCHANGED vars
  BY <1>21 DEF vars
<1> QED BY <1>1, <1>2, <1>3, <1>4, <1>5, <1>6, <1>7, <1>8, <1>9, <1>10, <1>11, <1>12, <1>13, <1>14, <1>15, <1>16, <1>17, <1>18, <1>19, <1>20, <1>21 DEF Next, CallerNext, FlusherNext

\* A caller told to poll is told of a committed row (SubmittedIsPollable).
LEMMA SubmittedIsPollableStep == ASSUME WInv, [Next]_vars PROVE SubmittedIsPollable'
<1> USE WindowAssumption DEF WInv, TypeOK, Fresh, Carrying, Marked, Faultless, NeverBoth,
      OneJob, SubmittedIsPollable, Untaken, Carried, Waiting, SyncAnswers, Kinds, Fails,
      callerVars, flusherVars, jobVars
<1>1. ASSUME NEW i \in Items, NotDiverted(i) \/ SeeOutcome(i) PROVE SubmittedIsPollable'
  BY <1>1, AnsweredAt DEF NotDiverted, SeeOutcome
<1>2. ASSUME NEW i \in Items, Divert(i) PROVE SubmittedIsPollable'
  BY <1>2, AppendAt, BecomesAt DEF Divert
<1>3. ASSUME NEW i \in Items, DivertFails(i) PROVE SubmittedIsPollable'
  BY <1>3, AnsweredAt, AppendAt DEF DivertFails
<1>4. ASSUME NEW i \in Items, SeeClaimed(i) \/ ShortDeadline(i) \/ LongDeadline(i) \/ Disconnect(i) PROVE SubmittedIsPollable'
  BY <1>4, BecomesAt DEF SeeClaimed, ShortDeadline, LongDeadline, Disconnect, Missed
<1>5. ASSUME NEW i \in Items, TryAbandon(i) PROVE SubmittedIsPollable'
  BY <1>5, AbandonAt, AnsweredAt, BecomesAt DEF TryAbandon
<1>6. ASSUME NEW i \in Items, TryAbandonFails(i) PROVE SubmittedIsPollable'
  BY <1>6, AbandonAt, BecomesAt DEF TryAbandonFails
<1>7. ASSUME NEW i \in Items, Ceiling(i) PROVE SubmittedIsPollable'
  BY <1>7, AnsweredAt DEF Ceiling, Missed
<1>8. ASSUME NEW i \in Items, MarkerExpires(i) PROVE SubmittedIsPollable'
  BY <1>8 DEF MarkerExpires
<1>9. ASSUME NEW p \in Processes, ListTenants(p) PROVE SubmittedIsPollable'
  BY <1>9 DEF ListTenants
<1>10. ASSUME NEW p \in Processes, CreateJob(p) PROVE SubmittedIsPollable'
  BY <1>10 DEF CreateJob, JobRow
<1>11. ASSUME NEW p \in Processes, CreateJobFails(p) PROVE SubmittedIsPollable'
  BY <1>11 DEF CreateJobFails, JobRow
<1>12. ASSUME NEW p \in Processes, Dispatch(p) PROVE SubmittedIsPollable'
  BY <1>12 DEF Dispatch
<1>13. ASSUME NEW p \in Processes, DispatchFails(p) PROVE SubmittedIsPollable'
  BY <1>13 DEF DispatchFails
<1>14. ASSUME NEW p \in Processes, NEW t \in Tenants, ClaimDue(p, t) PROVE SubmittedIsPollable'
  BY <1>14, ClaimAt, ClaimableItems DEF ClaimDue
<1>15. ASSUME NEW p \in Processes, NEW t \in Tenants, ClaimNothing(p, t) PROVE SubmittedIsPollable'
  BY <1>15, ClaimAt, ClaimableItems DEF ClaimNothing, NextTurn
<1>16. ASSUME NEW p \in Processes, NEW t \in Tenants, ClaimFails(p, t) PROVE SubmittedIsPollable'
  BY <1>16, ClaimAt, ClaimableItems DEF ClaimFails, NextTurn
<1>17. ASSUME NEW p \in Processes, NEW i \in Items, PublishResult(p, i) PROVE SubmittedIsPollable'
  BY <1>17 DEF PublishResult, Published
<1>18. ASSUME NEW p \in Processes, NEW i \in Items, PublishFails(p, i) PROVE SubmittedIsPollable'
  BY <1>18 DEF PublishFails, Published
<1>19. ASSUME NEW p \in Processes, ProcessDies(p) PROVE SubmittedIsPollable'
  BY <1>19 DEF ProcessDies
<1>20. ASSUME NEW t \in Tenants, WindowElapses(t) PROVE SubmittedIsPollable'
  BY <1>20 DEF WindowElapses
<1>21. CASE UNCHANGED vars
  BY <1>21 DEF vars
<1> QED BY <1>1, <1>2, <1>3, <1>4, <1>5, <1>6, <1>7, <1>8, <1>9, <1>10, <1>11, <1>12, <1>13, <1>14, <1>15, <1>16, <1>17, <1>18, <1>19, <1>20, <1>21 DEF Next, CallerNext, FlusherNext

\* No claim takes a waiting caller's item from its window without a marker (Awaited).
LEMMA AwaitedStep == ASSUME WInv, [Next]_vars PROVE Awaited'
<1> USE WindowAssumption DEF WInv, TypeOK, Awaited, Waiting, SyncAnswers, Kinds, Fails,
      callerVars, flusherVars, jobVars
<1>1. ASSUME NEW i \in Items, NotDiverted(i) \/ SeeOutcome(i) PROVE Awaited'
  BY <1>1, AnsweredAt DEF NotDiverted, SeeOutcome
<1>2. ASSUME NEW i \in Items, Divert(i) PROVE Awaited'
  <2>1. i \in window'[TenantOf[i]] /\ marker'[i] = None
    BY <1>2 DEF Divert, AppendScript, Fresh
  <2> QED BY <1>2, <2>1, AppendAt, BecomesAt DEF Divert
<1>3. ASSUME NEW i \in Items, DivertFails(i) PROVE Awaited'
  BY <1>3, AnsweredAt, AppendAt DEF DivertFails
<1>4. ASSUME NEW i \in Items, SeeClaimed(i) \/ ShortDeadline(i) \/ LongDeadline(i) \/ Disconnect(i) PROVE Awaited'
  BY <1>4, BecomesAt DEF SeeClaimed, ShortDeadline, LongDeadline, Disconnect, Missed
<1>5. ASSUME NEW i \in Items, TryAbandon(i) \/ TryAbandonFails(i) PROVE Awaited'
  BY <1>5, AbandonAt, AnsweredAt, BecomesAt DEF TryAbandon, TryAbandonFails
<1>6. ASSUME NEW i \in Items, Ceiling(i) PROVE Awaited'
  BY <1>6, AnsweredAt DEF Ceiling, Missed
<1>7. ASSUME NEW i \in Items, MarkerExpires(i) PROVE Awaited'
  BY <1>7 DEF MarkerExpires
<1>8. ASSUME NEW t \in Tenants, ClaimScript(t), UNCHANGED callerVars PROVE Awaited'
  <2> SUFFICES ASSUME NEW i \in Items, pc[i] \in {"waiting", "claimed", "abandoning"}
               PROVE  marker'[i] # "abandoned" /\ (marker'[i] = None => i \in window'[TenantOf[i]])
    BY <1>8
  <2>1. CASE i \in Claimable(t)
    BY <1>8, <2>1, ClaimAt
  <2>2. CASE i \in window[t] /\ i \notin Claimable(t)
    BY <2>2 DEF Claimable, Fresh
  <2>3. CASE i \notin window[t]
    BY <1>8, <2>3, ClaimAt
  <2> QED BY <2>1, <2>2, <2>3
<1>9. CASE UNCHANGED <<window, marker, callerVars>>
  BY <1>9
<1>10. ASSUME NEW p \in Processes, NEW i \in Items, PublishResult(p, i) \/ PublishFails(p, i) PROVE Awaited'
  BY <1>10 DEF PublishResult, PublishFails
<1>11. ASSUME NEW p \in Processes, ProcessDies(p) PROVE Awaited'
  BY <1>11 DEF ProcessDies
<1>12. ASSUME NEW p \in Processes, FlusherNext(p)
       PROVE  \/ UNCHANGED <<window, marker, callerVars>>
              \/ \E t \in Tenants : ClaimScript(t) /\ UNCHANGED callerVars
              \/ \E i \in Items : PublishResult(p, i) \/ PublishFails(p, i)
  BY <1>12 DEF FlusherNext, ListTenants, CreateJob, CreateJobFails, Dispatch, DispatchFails,
               ClaimDue, ClaimNothing, ClaimFails
<1>13. ASSUME NEW t \in Tenants, WindowElapses(t) PROVE UNCHANGED <<window, marker, callerVars>>
  BY <1>13 DEF WindowElapses
<1> QED BY <1>1, <1>2, <1>3, <1>4, <1>5, <1>6, <1>7, <1>8, <1>9, <1>10, <1>11, <1>12, <1>13
           DEF Next, CallerNext, vars

-----------------------------------------------------------------------------
(* The refinement: what each step does to whose an item is.                *)

\* An item in a flusher's group is no other flusher's, and in no window.
LEMMA GroupItems ==
    ASSUME WInv, NEW p \in Processes
    PROVE  \A i \in group[p] :
              /\ i \in Items /\ pc[i] # "new" /\ i \notin window[TenantOf[i]]
              /\ \A q \in Processes : q # p => i \notin group[q]
              /\ flusher[p] = "creating" => OwnerOf(i) = "taken"
              /\ flusher[p] = "dispatching" => OwnerOf(i) = "committed"
<1> SUFFICES ASSUME NEW i \in group[p]
             PROVE  /\ i \in Items /\ pc[i] # "new" /\ i \notin window[TenantOf[i]]
                    /\ \A q \in Processes : q # p => i \notin group[q]
                    /\ flusher[p] = "creating" => OwnerOf(i) = "taken"
                    /\ flusher[p] = "dispatching" => OwnerOf(i) = "committed"
    OBVIOUS
<1>1. i \in Items /\ Carried(i)
    BY DEF WInv, TypeOK, Carried
<1>2. pc[i] # "new" /\ i \notin window[TenantOf[i]]
    BY <1>1 DEF WInv, Fresh, Untaken
<1>3. \A q \in Processes : q # p => i \notin group[q]
    BY DEF WInv, Carrying
<1>4. flusher[p] \in {"creating", "dispatching"} => i \notin dispatched
    BY DEF WInv, Carrying
<1>5. flusher[p] = "dispatching" => ~CarriedAt(i, "creating")
    BY <1>3 DEF CarriedAt
<1> QED BY <1>1, <1>2, <1>3, <1>4, <1>5 DEF OwnerOf, CarriedAt

\* Items that one step moves from one owner to the next.
LEMMA PassesOn ==
    ASSUME NEW S \in SUBSET Items, NEW a, NEW b, <<a, b>> \in Diverted!Passes,
           \A i \in S : OwnerOf(i) = a /\ OwnerOf(i)' = b,
           \A i \in Items \ S : OwnerOf(i)' = OwnerOf(i),
           answer' = answer
    PROVE  Diverted!WorkNext
<1>1. \A i \in S : OwnerView[i] = a
    BY DEF OwnerView
<1>2. OwnerView' = [i \in Items |-> IF i \in S THEN b ELSE OwnerView[i]]
    BY DEF OwnerView
<1>3. Diverted!PassOn(S)
    BY <1>1, <1>2 DEF Diverted!PassOn
<1> QED BY <1>3 DEF Diverted!WorkNext

\* Nothing moves and nobody is told.
LEMMA Stutters ==
    ASSUME \A i \in Items : OwnerOf(i)' = OwnerOf(i), answer' = answer
    PROVE  UNCHANGED Diverted!workVars
BY DEF OwnerView, Diverted!workVars

\* One caller is told, and no item moves.
LEMMA Tells ==
    ASSUME WInv, NEW i \in Items, NEW a \in {"submitted", "failed", "unresolved"},
           Answered(i, a), pc[i] \in Waiting, OwnerOf(i) \in Diverted!Owners(a),
           UNCHANGED <<window, marker, group, flusher, jobs, dispatched>>
    PROVE  Diverted!WorkNext
<1>1. answer[i] = None /\ answer' = [answer EXCEPT ![i] = a]
    BY DEF WInv, Fresh, Waiting, Answered
<1>2. \A j \in Items : pc'[j] = "new" <=> pc[j] = "new"
    BY DEF WInv, TypeOK, Answered, Waiting
<1>3. \A j \in Items : OwnerOf(j)' = OwnerOf(j)
    BY <1>2 DEF OwnerOf, CarriedAt
<1>4. Diverted!Tell(i, a)
    BY <1>1, <1>3 DEF Diverted!Tell, OwnerView
<1> QED BY <1>4 DEF Diverted!WorkNext

\* A request that is not diverted stays its caller's (try_divert's pass-through).
LEMMA KeepRefines ==
    ASSUME WInv, NEW i \in Items, pc[i] = "new", Answered(i, "direct"),
           UNCHANGED <<window, marker, flusherVars, jobVars>>
    PROVE  Diverted!WorkNext
<1>1. i \notin window[TenantOf[i]] /\ Untaken(i) /\ answer[i] = None
    BY DEF WInv, Fresh
<1>2. pc' = [pc EXCEPT ![i] = "over"] /\ answer' = [answer EXCEPT ![i] = "direct"] /\ pc \in [Items -> {pc[j] : j \in Items}]
    BY DEF Answered, WInv, TypeOK
<1>3. \A j \in Items : j # i => OwnerOf(j)' = OwnerOf(j)
    BY <1>2 DEF OwnerOf, CarriedAt, flusherVars, jobVars
<1>4. OwnerOf(i) = "new" /\ OwnerOf(i)' = "caller"
    BY <1>1, <1>2 DEF OwnerOf, CarriedAt, Carried, Untaken, flusherVars, jobVars, WInv, TypeOK
<1>5. Diverted!Keep(i)
    BY <1>2, <1>3, <1>4 DEF Diverted!Keep, OwnerView
<1> QED BY <1>5 DEF Diverted!WorkNext

\* One that is appended to its window waits there, acknowledged or not (append).
LEMMA OfferRefines ==
    ASSUME WInv, NEW i \in Items, pc[i] = "new", AppendScript(i),
           Becomes(i, "waiting") \/ Answered(i, "direct"),
           UNCHANGED <<marker, flusherVars, jobVars>>
    PROVE  Diverted!WorkNext
<1>1. marker[i] = None /\ TenantOf[i] \in Tenants
    BY WindowAssumption DEF WInv, Fresh
<1>2. /\ pc'[i] # "new" /\ \A j \in Items : j # i => pc'[j] = pc[j]
      /\ answer' \in {answer, [answer EXCEPT ![i] = "direct"]}
    BY DEF Answered, Becomes, WInv, TypeOK
<1>3. /\ i \in window'[TenantOf[i]]
      /\ \A j \in Items : j # i => (j \in window'[TenantOf[j]] <=> j \in window[TenantOf[j]])
    BY <1>1, WindowAssumption DEF AppendScript, WInv, TypeOK
<1>4. \A j \in Items : j # i => OwnerOf(j)' = OwnerOf(j)
    BY <1>2, <1>3 DEF OwnerOf, CarriedAt, flusherVars, jobVars
<1>5. OwnerOf(i) = "new" /\ OwnerOf(i)' = "window"
    BY <1>1, <1>2, <1>3 DEF OwnerOf
<1>6. Diverted!Offer(i)
    BY <1>2, <1>4, <1>5 DEF Diverted!Offer, OwnerView
<1> QED BY <1>6 DEF Diverted!WorkNext

\* An unmarked item that its caller abandons is the caller's from then on, whether or
\* not the caller learns it (_TRY_ABANDON_LUA).
LEMMA AbandonMoves ==
    ASSUME WInv, NEW i \in Items, pc[i] = "abandoning", marker[i] = None,
           TryAbandonScript(i), pc'[i] # "new", \A j \in Items : j # i => pc'[j] = pc[j],
           UNCHANGED <<window, flusherVars, jobVars>>
    PROVE  /\ OwnerOf(i) = "window" /\ OwnerOf(i)' = "caller"
           /\ \A j \in Items : j # i => OwnerOf(j)' = OwnerOf(j)
<1>1. i \in window[TenantOf[i]]
    BY DEF WInv, Awaited
<1>2. marker'[i] = "abandoned" /\ \A j \in Items : j # i => marker'[j] = marker[j]
    BY AbandonAt DEF WInv
<1>3. None # "abandoned"
    BY WindowAssumption DEF Kinds
<1> QED BY <1>1, <1>2, <1>3 DEF OwnerOf, CarriedAt, flusherVars, jobVars

\* A step of a waiting caller that neither answers it nor marks its item.
LEMMA WaitStutters ==
    ASSUME WInv, NEW i \in Items, pc[i] # "new", NEW s, s # "new", Becomes(i, s),
           UNCHANGED <<window, marker, flusherVars, jobVars>>
    PROVE  UNCHANGED Diverted!workVars
<1>1. \A j \in Items : pc'[j] = "new" <=> pc[j] = "new"
    BY DEF Becomes, WInv, TypeOK
<1>2. \A j \in Items : OwnerOf(j)' = OwnerOf(j)
    BY <1>1 DEF OwnerOf, CarriedAt, flusherVars, jobVars
<1> QED BY <1>2, Stutters DEF Becomes

\* Both forms of try_abandon.
LEMMA TryAbandonRefines ==
    ASSUME WInv, NEW i \in Items, TryAbandon(i) \/ TryAbandonFails(i)
    PROVE  [Diverted!WorkNext]_(Diverted!workVars)
<1> pc[i] = "abandoning" /\ UNCHANGED <<window, flusherVars, jobVars>>
    BY DEF TryAbandon, TryAbandonFails
<1>1. CASE marker[i] = None /\ Answered(i, "abandoned") /\ TryAbandonScript(i)
    <2>1. /\ pc'[i] # "new" /\ \A j \in Items : j # i => pc'[j] = pc[j]
          /\ answer[i] = None /\ answer' = [answer EXCEPT ![i] = "abandoned"]
        BY <1>1 DEF Answered, WInv, TypeOK, Fresh
    <2>2. Diverted!WinBack(i)
        BY <1>1, <2>1, AbandonMoves DEF Diverted!WinBack, OwnerView
    <2> QED BY <2>2 DEF Diverted!WorkNext
<1>2. CASE marker[i] = None /\ Becomes(i, "rewaiting") /\ TryAbandonScript(i)
    <2>1. /\ pc'[i] # "new" /\ \A j \in Items : j # i => pc'[j] = pc[j]
          /\ answer' = answer
        BY <1>2 DEF Becomes, WInv, TypeOK
    <2>2. <<"window", "caller">> \in Diverted!Passes
        BY DEF Diverted!Passes
    <2>3. /\ OwnerOf(i) = "window" /\ OwnerOf(i)' = "caller"
          /\ \A j \in Items : j # i => OwnerOf(j)' = OwnerOf(j)
        BY <1>2, <2>1, AbandonMoves
    <2> DEFINE S == {i}
    <2>4. S \in SUBSET Items /\ (\A j \in S : OwnerOf(j) = "window" /\ OwnerOf(j)' = "caller")
          /\ (\A j \in Items \ S : OwnerOf(j)' = OwnerOf(j))
        BY <2>3
    <2> HIDE DEF S
    <2> QED BY <2>1, <2>2, <2>4, PassesOn
<1>3. CASE Becomes(i, "rewaiting") /\ UNCHANGED marker
    BY <1>3, WaitStutters
<1> QED
    <2>1. marker[i] # None /\ TryAbandonScript(i) => UNCHANGED marker
        BY DEF TryAbandonScript, WInv, TypeOK
    <2> QED BY <1>1, <1>2, <1>3, <2>1 DEF TryAbandon, TryAbandonFails

\* An outcome is told as published, and agrees with what became of the item (Marked).
LEMMA OutcomeRefines == ASSUME WInv, NEW i \in Items, SeeOutcome(i) PROVE Diverted!WorkNext
<1> DEFINE a == marker[i]
<1>1. a \in {"submitted", "failed"} /\ pc[i] \in Waiting /\ pc[i] # "new" /\ None # a
    BY WindowAssumption DEF SeeOutcome, Waiting, Kinds
<1>2. i \notin window[TenantOf[i]]
    BY <1>1, WindowAssumption DEF WInv, Fresh, Kinds
<1>3. OwnerOf(i) \in Diverted!Owners(a)
    <2>1. CASE a = "submitted"
        <3>1. jobs[i] = 1 /\ ~CarriedAt(i, "creating") /\ ~CarriedAt(i, "dispatching")
            BY <2>1 DEF WInv, Marked, Carrying, CarriedAt, Carried
        <3> QED BY <1>1, <1>2, <2>1, <3>1 DEF OwnerOf, Diverted!Owners
    <2>2. CASE a = "failed"
        <3>1. i \notin dispatched /\ ~Carried(i)
            BY <2>2 DEF WInv, Marked
        <3> QED BY <1>1, <1>2, <2>2, <3>1 DEF OwnerOf, Diverted!Owners, CarriedAt, Carried
    <2> QED BY <1>1, <2>1, <2>2
<1>4. Answered(i, a) /\ UNCHANGED <<window, marker, group, flusher, jobs, dispatched>>
    BY DEF SeeOutcome, flusherVars, jobVars
<1> HIDE DEF a
<1> QED BY <1>1, <1>3, <1>4, Tells

\* A flusher between two groups carries nothing, so its next turn moves nothing.
LEMMA TurnsFree ==
    ASSUME WInv, NEW p \in Processes, flusher[p] \in {"idle", "claiming"},
           NEW s \in {"idle", "claiming"}, flusher' = [flusher EXCEPT ![p] = s],
           UNCHANGED group
    PROVE  \A i, stage : CarriedAt(i, stage)' <=> CarriedAt(i, stage)
<1>1. group[p] = {} /\ \A q \in Processes : q # p => flusher'[q] = flusher[q]
    BY DEF WInv, Carrying, TypeOK
<1> QED BY <1>1 DEF CarriedAt

\* What a claim does to the items of other windows and to abandoned ones: nothing
\* (_CLAIM_DUE_LUA).
LEMMA ClaimLeaves ==
    ASSUME WInv, NEW t \in Tenants, ClaimScript(t), UNCHANGED <<pc, jobs, dispatched>>,
           NEW i \in Items, i \notin Claimable(t),
           \A stage : CarriedAt(i, stage)' <=> CarriedAt(i, stage)
    PROVE  OwnerOf(i)' = OwnerOf(i)
<1>1. CASE i \in window[t]
    <2>1. TenantOf[i] = t /\ marker[i] # None /\ pc[i] # "new" /\ Untaken(i)
        BY <1>1 DEF WInv, TypeOK, Fresh, Claimable
    <2>2. OwnerOf(i) = "caller"
        BY <1>1, <2>1 DEF OwnerOf
    <2>3. i \notin window'[TenantOf[i]] /\ ~CarriedAt(i, "creating") /\ ~CarriedAt(i, "dispatching")
        BY <2>1, ClaimAt DEF WInv, Untaken, Carried, CarriedAt
    <2> QED BY <2>1, <2>2, <2>3 DEF OwnerOf, Untaken, WInv, TypeOK
<1>2. CASE i \notin window[t]
    <2>1. i \in window'[TenantOf[i]] <=> i \in window[TenantOf[i]]
        BY <1>2, ClaimAt, WindowAssumption DEF WInv
    <2>2. marker'[i] = marker[i]
        BY <1>2, ClaimAt DEF WInv
    <2> QED BY <2>1, <2>2 DEF OwnerOf
<1> QED BY <1>1, <1>2

\* A claim that its flusher hears of takes the window's unmarked items together.
LEMMA ClaimDueRefines ==
    ASSUME WInv, NEW p \in Processes, NEW t \in Tenants, ClaimDue(p, t)
    PROVE  Diverted!WorkNext
<1> DEFINE S == Claimable(t)
<1>1. /\ ClaimScript(t) /\ UNCHANGED <<pc, answer, jobs, dispatched>>
      /\ group[p] = {} /\ group'[p] = S /\ flusher'[p] = "creating"
      /\ \A q \in Processes : q # p => group'[q] = group[q] /\ flusher'[q] = flusher[q]
    BY DEF ClaimDue, callerVars, jobVars, WInv, Carrying, TypeOK
<1>2. S \in SUBSET Items /\ \A i \in S : OwnerOf(i) = "window" /\ OwnerOf(i)' = "taken"
    <2> SUFFICES ASSUME NEW i \in S PROVE i \in Items /\ OwnerOf(i) = "window" /\ OwnerOf(i)' = "taken"
        OBVIOUS
    <2>1. i \in Items /\ i \in window[t] /\ TenantOf[i] = t /\ Untaken(i) /\ marker[i] = None
        BY ClaimableItems
    <2>2. pc[i] # "new"
        BY <2>1 DEF WInv, Fresh
    <2>3. i \notin window'[TenantOf[i]] /\ CarriedAt(i, "creating")'
        BY <1>1, <2>1, ClaimAt DEF WInv, CarriedAt
    <2> QED BY <1>1, <2>1, <2>2, <2>3 DEF OwnerOf, Untaken
<1>3. ASSUME NEW i \in Items \ S PROVE OwnerOf(i)' = OwnerOf(i)
    <2>1. \A stage : CarriedAt(i, stage)' <=> CarriedAt(i, stage)
        BY <1>1, <1>3 DEF CarriedAt
    <2> QED BY <1>1, <1>3, <2>1, ClaimLeaves
<1>4. <<"window", "taken">> \in Diverted!Passes
    BY DEF Diverted!Passes
<1> HIDE DEF S
<1> QED BY <1>1, <1>2, <1>3, <1>4, PassesOn

\* One whose answer is lost leaves them with nobody but their callers; one that finds
\* nothing to claim moves nothing.
LEMMA ClaimLostRefines ==
    ASSUME WInv, NEW p \in Processes, NEW t \in Tenants, ClaimNothing(p, t) \/ ClaimFails(p, t)
    PROVE  [Diverted!WorkNext]_(Diverted!workVars)
<1> DEFINE S == Claimable(t)
<1>1. /\ flusher[p] \in {"idle", "claiming"} /\ UNCHANGED <<pc, answer, jobs, dispatched, group>>
      /\ \E s \in {"idle", "claiming"} : flusher' = [flusher EXCEPT ![p] = s]
    BY DEF ClaimNothing, ClaimFails, NextTurn, callerVars, jobVars
<1>2. \A i, stage : CarriedAt(i, stage)' <=> CarriedAt(i, stage)
    BY <1>1, TurnsFree
<1>3. CASE ClaimScript(t)
    <2>1. S \in SUBSET Items /\ \A i \in S : OwnerOf(i) = "window" /\ OwnerOf(i)' = "caller"
        <3> SUFFICES ASSUME NEW i \in S PROVE i \in Items /\ OwnerOf(i) = "window" /\ OwnerOf(i)' = "caller"
            OBVIOUS
        <3>1. i \in Items /\ i \in window[t] /\ TenantOf[i] = t /\ Untaken(i) /\ marker[i] = None
            BY ClaimableItems
        <3>2. pc[i] # "new"
            BY <3>1 DEF WInv, Fresh
        <3>3. i \notin window'[TenantOf[i]] /\ ~CarriedAt(i, "creating")' /\ ~CarriedAt(i, "dispatching")'
            BY <1>2, <1>3, <3>1, ClaimAt DEF WInv, CarriedAt, Untaken, Carried
        <3> QED BY <1>1, <3>1, <3>2, <3>3 DEF OwnerOf, Untaken
    <2>2. \A i \in Items \ S : OwnerOf(i)' = OwnerOf(i)
        BY <1>1, <1>2, <1>3, ClaimLeaves
    <2>3. <<"window", "caller">> \in Diverted!Passes
        BY DEF Diverted!Passes
    <2> HIDE DEF S
    <2> QED BY <1>1, <2>1, <2>2, <2>3, PassesOn
<1>4. CASE UNCHANGED <<window, marker>>
    <2>1. \A i \in Items : OwnerOf(i)' = OwnerOf(i)
        BY <1>1, <1>2, <1>4 DEF OwnerOf
    <2> QED BY <1>1, <2>1, Stutters
<1> QED BY <1>3, <1>4 DEF ClaimNothing, ClaimFails

\* A step of one flusher that concerns its group as a whole passes its items on
\* together, from where it had them.
LEMMA GroupPasses ==
    ASSUME WInv, NEW p \in Processes, NEW b,
           <<IF flusher[p] = "creating" THEN "taken" ELSE "committed", b>> \in Diverted!Passes,
           flusher[p] \in {"creating", "dispatching"},
           \A i \in group[p] : OwnerOf(i)' = b,
           \A i \in Items : pc'[i] = "new" <=> pc[i] = "new",
           \A i \in Items \ group[p] : jobs'[i] = jobs[i] /\ (i \in dispatched' <=> i \in dispatched),
           \A q \in Processes : q # p => flusher'[q] = flusher[q] /\ group'[q] = group[q],
           group'[p] \subseteq group[p],
           UNCHANGED <<window, marker, answer>>
    PROVE  Diverted!WorkNext
<1> DEFINE a == IF flusher[p] = "creating" THEN "taken" ELSE "committed"
<1>1. group[p] \in SUBSET Items /\ \A i \in group[p] : OwnerOf(i) = a
    BY GroupItems
<1>2. ASSUME NEW i \in Items \ group[p] PROVE OwnerOf(i)' = OwnerOf(i)
    <2>1. \A stage : CarriedAt(i, stage)' <=> CarriedAt(i, stage)
        BY <1>2 DEF CarriedAt
    <2> QED BY <1>2, <2>1 DEF OwnerOf
<1>3. <<a, b>> \in Diverted!Passes /\ answer' = answer
    OBVIOUS
<1> HIDE DEF a
<1> QED BY <1>1, <1>2, <1>3, PassesOn

\* The job's row is committed, with or without an acknowledgement, or it is not.
LEMMA CreateRefines ==
    ASSUME WInv, NEW p \in Processes, CreateJob(p) \/ CreateJobFails(p)
    PROVE  Diverted!WorkNext
<1>1. /\ flusher[p] = "creating" /\ UNCHANGED <<window, marker, pc, answer, group, dispatched>>
      /\ flusher'[p] \in {"dispatching", "failed"}
      /\ \A q \in Processes : q # p => flusher'[q] = flusher[q]
      /\ flusher'[p] = "dispatching" => JobRow(p)
      /\ JobRow(p) \/ jobs' = jobs
    BY DEF CreateJob, CreateJobFails, callerVars, WInv, TypeOK
<1>2. \A i \in Items \ group[p] : jobs'[i] = jobs[i]
    BY <1>1 DEF JobRow
<1>3. \A i \in group[p] : /\ i \in Items /\ pc[i] # "new" /\ i \notin window[TenantOf[i]]
                             /\ i \notin dispatched /\ jobs[i] = 0
                             /\ \A q \in Processes : q # p => i \notin group[q]
    BY <1>1, GroupItems DEF WInv, Carrying
<1>4. CASE flusher'[p] = "dispatching"
    <2>1. ASSUME NEW i \in group[p] PROVE OwnerOf(i)' = "committed"
        <3>1. CarriedAt(i, "dispatching")' /\ ~CarriedAt(i, "creating")'
            BY <1>1, <1>3, <1>4 DEF CarriedAt
        <3> QED BY <1>1, <1>3, <3>1 DEF OwnerOf
    <2>2. <<"taken", "committed">> \in Diverted!Passes
        BY DEF Diverted!Passes
    <2> QED BY <1>1, <1>2, <2>1, <2>2, GroupPasses
<1>5. CASE flusher'[p] = "failed"
    <2>1. ASSUME NEW i \in group[p] PROVE ~CarriedAt(i, "dispatching")' /\ ~CarriedAt(i, "creating")'
        BY <1>1, <1>3, <1>5 DEF CarriedAt
    <2>2. CASE JobRow(p)
        <3>1. \A i \in group[p] : OwnerOf(i)' = "shelved"
            BY <1>1, <1>3, <2>1, <2>2 DEF OwnerOf, JobRow
        <3>2. <<"taken", "shelved">> \in Diverted!Passes
            BY DEF Diverted!Passes
        <3> QED BY <1>1, <1>2, <3>1, <3>2, GroupPasses
    <2>3. CASE jobs' = jobs
        <3>1. \A i \in group[p] : OwnerOf(i)' = "caller"
            BY <1>1, <1>3, <2>1, <2>3 DEF OwnerOf
        <3>2. <<"taken", "caller">> \in Diverted!Passes
            BY DEF Diverted!Passes
        <3> QED BY <1>1, <1>2, <3>1, <3>2, GroupPasses
    <2> QED BY <1>1, <2>2, <2>3
<1> QED BY <1>1, <1>4, <1>5

\* The job is handed to a worker, or that failed and nobody tries again.
LEMMA DispatchRefines ==
    ASSUME WInv, NEW p \in Processes, Dispatch(p) \/ DispatchFails(p)
    PROVE  Diverted!WorkNext
<1>1. /\ flusher[p] = "dispatching" /\ UNCHANGED <<window, marker, pc, answer, group, jobs>>
      /\ flusher'[p] = "submitted" /\ dispatched' \in {dispatched, dispatched \cup group[p]}
      /\ \A q \in Processes : q # p => flusher'[q] = flusher[q]
    BY DEF Dispatch, DispatchFails, callerVars, WInv, TypeOK
<1>2. \A i \in Items \ group[p] : jobs'[i] = jobs[i] /\ (i \in dispatched' <=> i \in dispatched)
    BY <1>1
<1>3. \A i \in group[p] : /\ i \in Items /\ pc[i] # "new" /\ i \notin window[TenantOf[i]]
                             /\ i \notin dispatched /\ jobs[i] = 1
                             /\ ~CarriedAt(i, "dispatching")' /\ ~CarriedAt(i, "creating")'
    BY <1>1, GroupItems DEF WInv, Carrying, CarriedAt
<1>4. CASE dispatched' = dispatched \cup group[p]
    <2>1. \A i \in group[p] : OwnerOf(i)' = "running"
        BY <1>1, <1>3, <1>4 DEF OwnerOf
    <2>2. <<"committed", "running">> \in Diverted!Passes
        BY DEF Diverted!Passes
    <2> QED BY <1>1, <1>2, <2>1, <2>2, GroupPasses
<1>5. CASE dispatched' = dispatched
    <2>1. \A i \in group[p] : OwnerOf(i)' = "shelved"
        BY <1>1, <1>3, <1>5 DEF OwnerOf
    <2>2. <<"committed", "shelved">> \in Diverted!Passes
        BY DEF Diverted!Passes
    <2> QED BY <1>1, <1>2, <2>1, <2>2, GroupPasses
<1> QED BY <1>1, <1>4, <1>5

\* A process that dies forgets its group: unless the row is there, its items are nobody
\* else's, and no flusher starts the job.
LEMMA DiesRefines ==
    ASSUME WInv, NEW p \in Processes, ProcessDies(p)
    PROVE  [Diverted!WorkNext]_(Diverted!workVars)
<1>1. /\ UNCHANGED <<window, marker, answer, jobs, dispatched>>
      /\ flusher'[p] = "idle" /\ group'[p] = {}
      /\ \A q \in Processes : q # p => flusher'[q] = flusher[q] /\ group'[q] = group[q]
      /\ \A i \in Items : pc'[i] = "new" <=> pc[i] = "new"
    BY DEF ProcessDies, jobVars, WInv, TypeOK
<1>2. \A i \in group[p] : /\ i \in Items /\ pc[i] # "new" /\ i \notin window[TenantOf[i]]
                             /\ ~CarriedAt(i, "dispatching")' /\ ~CarriedAt(i, "creating")'
    BY <1>1, GroupItems DEF CarriedAt
<1>3. CASE flusher[p] = "creating"
    <2>1. \A i \in group[p] : i \notin dispatched /\ jobs[i] = 0
        BY <1>3 DEF WInv, Carrying
    <2>2. \A i \in group[p] : OwnerOf(i)' = "caller"
        BY <1>1, <1>2, <2>1 DEF OwnerOf
    <2>3. <<"taken", "caller">> \in Diverted!Passes
        BY DEF Diverted!Passes
    <2> QED BY <1>1, <1>3, <2>2, <2>3, GroupPasses
<1>4. CASE flusher[p] = "dispatching"
    <2>1. \A i \in group[p] : i \notin dispatched /\ jobs[i] = 1
        BY <1>4 DEF WInv, Carrying
    <2>2. \A i \in group[p] : OwnerOf(i)' = "shelved"
        BY <1>1, <1>2, <2>1 DEF OwnerOf
    <2>3. <<"committed", "shelved">> \in Diverted!Passes
        BY DEF Diverted!Passes
    <2> QED BY <1>1, <1>4, <2>2, <2>3, GroupPasses
<1>5. CASE flusher[p] \notin {"creating", "dispatching"}
    <2>1. ASSUME NEW i \in Items, NEW stage \in {"creating", "dispatching"}
          PROVE  CarriedAt(i, stage)' <=> CarriedAt(i, stage)
        <3>1. \A q \in Processes : i \in group'[q] /\ flusher'[q] = stage <=>
                                     i \in group[q] /\ flusher[q] = stage
            BY <1>1, <1>5
        <3> QED BY <3>1 DEF CarriedAt
    <2>2. ASSUME NEW i \in Items PROVE OwnerOf(i)' = OwnerOf(i)
        <3>1. /\ CarriedAt(i, "creating")' <=> CarriedAt(i, "creating")
              /\ CarriedAt(i, "dispatching")' <=> CarriedAt(i, "dispatching")
            BY <2>1
        <3> QED BY <1>1, <3>1 DEF OwnerOf
    <2> QED BY <1>1, <2>2, Stutters
<1> QED BY <1>3, <1>4, <1>5

\* Publishing an outcome moves nothing: what it says of the item has happened.
LEMMA PublishRefines ==
    ASSUME WInv, NEW p \in Processes, NEW i \in Items, PublishResult(p, i) \/ PublishFails(p, i)
    PROVE  UNCHANGED Diverted!workVars
<1>1. /\ flusher[p] \in {"submitted", "failed"} /\ i \in group[p]
      /\ UNCHANGED <<window, pc, answer, jobs, dispatched>>
      /\ \A j \in Items : j # i => marker'[j] = marker[j]
      /\ group'[p] = group[p] \ {i} /\ (flusher'[p] = flusher[p] \/ group'[p] = {})
      /\ \A q \in Processes : q # p => flusher'[q] = flusher[q] /\ group'[q] = group[q]
    BY DEF PublishResult, PublishFails, Published, callerVars, jobVars, WInv, TypeOK
<1>2. i \notin window[TenantOf[i]]
    BY <1>1, GroupItems
<1>3. ASSUME NEW j \in Items, NEW stage \in {"creating", "dispatching"}
      PROVE  CarriedAt(j, stage)' <=> CarriedAt(j, stage)
    <2>1. \A q \in Processes : j \in group'[q] /\ flusher'[q] = stage <=>
                                 j \in group[q] /\ flusher[q] = stage
        BY <1>1
    <2> QED BY <2>1 DEF CarriedAt
<1>4. ASSUME NEW j \in Items PROVE OwnerOf(j)' = OwnerOf(j)
    <2>1. /\ CarriedAt(j, "creating")' <=> CarriedAt(j, "creating")
          /\ CarriedAt(j, "dispatching")' <=> CarriedAt(j, "dispatching")
        BY <1>3
    <2> QED BY <1>1, <1>2, <2>1 DEF OwnerOf
<1> QED BY <1>1, <1>4, Stutters

\* The steps of callers.
LEMMA CallerRefines ==
    ASSUME WInv, NEW i \in Items,
           \/ NotDiverted(i) \/ Divert(i) \/ DivertFails(i)
           \/ CallerNext(i) \/ Disconnect(i) \/ MarkerExpires(i)
    PROVE  [Diverted!WorkNext]_(Diverted!workVars)
<1>1. CASE NotDiverted(i)
    BY <1>1, KeepRefines DEF NotDiverted
<1>2. CASE Divert(i)
    BY <1>2, OfferRefines DEF Divert
<1>3. CASE DivertFails(i)
    BY <1>3, KeepRefines, OfferRefines DEF DivertFails
<1>4. CASE SeeClaimed(i) \/ ShortDeadline(i) \/ LongDeadline(i) \/ Disconnect(i)
    <2>1. pc[i] # "new" /\ UNCHANGED <<window, marker, flusherVars, jobVars>>
        BY <1>4 DEF SeeClaimed, ShortDeadline, LongDeadline, Disconnect, Waiting
    <2>2. PICK s \in {"claimed", "abandoning", "gone"} : Becomes(i, s)
        BY <1>4 DEF SeeClaimed, ShortDeadline, LongDeadline, Disconnect
    <2> QED BY <2>1, <2>2, WaitStutters
<1>5. CASE SeeOutcome(i)
    BY <1>5, OutcomeRefines
<1>6. CASE TryAbandon(i) \/ TryAbandonFails(i)
    BY <1>6, TryAbandonRefines
<1>7. CASE Ceiling(i)
    <2>1. /\ Answered(i, "unresolved") /\ pc[i] \in Waiting /\ pc[i] # "new"
          /\ UNCHANGED <<window, marker, group, flusher, jobs, dispatched>>
        BY <1>7 DEF Ceiling, Waiting, flusherVars, jobVars
    <2>2. OwnerOf(i) \in Diverted!Owners("unresolved")
        BY <2>1 DEF OwnerOf, Diverted!Owners
    <2> QED BY <2>1, <2>2, Tells
<1>8. CASE MarkerExpires(i)
    <2>1. /\ UNCHANGED <<window, pc, answer, flusherVars, jobVars>> /\ i \notin window[TenantOf[i]]
          /\ \A j \in Items : j # i => marker'[j] = marker[j]
        BY <1>8 DEF MarkerExpires, callerVars
    <2>2. \A j \in Items : OwnerOf(j)' = OwnerOf(j)
        BY <2>1 DEF OwnerOf, CarriedAt, flusherVars, jobVars
    <2> QED BY <2>1, <2>2, Stutters
<1> QED BY <1>1, <1>2, <1>3, <1>4, <1>5, <1>6, <1>7, <1>8 DEF CallerNext

\* The steps of a flusher.
LEMMA FlusherRefines ==
    ASSUME WInv, NEW p \in Processes, FlusherNext(p)
    PROVE  [Diverted!WorkNext]_(Diverted!workVars)
<1>1. CASE ListTenants(p)
    <2>1. \A i, stage : CarriedAt(i, stage)' <=> CarriedAt(i, stage)
        BY <1>1, TurnsFree DEF ListTenants
    <2>2. \A i \in Items : OwnerOf(i)' = OwnerOf(i)
        BY <1>1, <2>1 DEF ListTenants, OwnerOf, callerVars, jobVars
    <2> QED BY <1>1, <2>2, Stutters DEF ListTenants, callerVars
<1> QED BY <1>1, CreateRefines, DispatchRefines, ClaimDueRefines, ClaimLostRefines, PublishRefines
           DEF FlusherNext

-----------------------------------------------------------------------------
(* The theorems.                                                           *)

\* The initial state satisfies the invariant (empty Redis, no job).
LEMMA InitWInv == Init => WInv
BY WindowAssumption DEF Init, WInv, TypeOK, Fresh, Carrying, Marked, Awaited, Faultless, NeverBoth,
   OneJob, SubmittedIsPollable, Untaken, Carried, Waiting, SyncAnswers, Kinds

\* The inductive invariant holds throughout every behaviour (WInv).
THEOREM WindowInvariant == Spec => []WInv
<1>1. WInv /\ [Next]_vars => WInv'
  <2> SUFFICES ASSUME WInv, [Next]_vars PROVE WInv'
    OBVIOUS
  <2> QED BY TypeOKStep, FreshStep, CarryingStep, MarkedStep, AwaitedStep, FaultlessStep, NeverBothStep,
             OneJobStep, SubmittedIsPollableStep DEF WInv
<1> QED BY <1>1, InitWInv, PTL DEF Spec

\* Of a caller that won the abandonment and a flusher, never both process the item,
\* for any number of processes and lost answers (NeverBoth).
THEOREM AbandonedNeverBatched == Spec => []NeverBoth
<1>1. WInv => NeverBoth
  BY DEF WInv
<1> QED BY <1>1, WindowInvariant, PTL

\* An item is in one job at most, and only committed jobs are dispatched (OneJob).
THEOREM InOneJob == Spec => []OneJob
<1>1. WInv => OneJob
  BY DEF WInv
<1> QED BY <1>1, WindowInvariant, PTL

\* A caller that is told to poll a job finds it (SubmittedIsPollable).
THEOREM Pollable == Spec => []SubmittedIsPollable
<1>1. WInv => SubmittedIsPollable
  BY DEF WInv
<1> QED BY <1>1, WindowInvariant, PTL

\* A caller that falls back on a "failed" marker is not processed by a dispatched
\* job (FailedNotDispatched).
THEOREM FailedStaysUndispatched == Spec => []FailedNotDispatched
<1>1. WInv => FailedNotDispatched
  BY DEF WInv, Marked, FailedNotDispatched
<1> QED BY <1>1, WindowInvariant, PTL

\* An item is processed twice only after a fault (TwiceOnlyByFault).
THEOREM OnceWithoutFault == Spec => []TwiceOnlyByFault
<1>1. WInv => TwiceOnlyByFault
  <2> SUFFICES ASSUME WInv, faults = 0, NEW i \in Items, answer[i] \in SyncAnswers
               PROVE jobs[i] = 0
    BY DEF WInv, TypeOK, TwiceOnlyByFault
  <2>1. answer[i] = "direct" \/ answer[i] = "abandoned"
    BY DEF WInv, Faultless, SyncAnswers
  <2> QED BY <2>1 DEF WInv, Faultless, NeverBoth, Untaken
<1> QED BY <1>1, WindowInvariant, PTL

\* Diversion implements DivertedWork, step by step, for any number of processes, items
\* and faults: one owner at a time, in one direction, and a caller told accordingly
\* (DiversionRefined).
THEOREM DiversionRefines == Spec => DiversionRefined
<1>1. Init => Diverted!WorkInit
  <2> SUFFICES ASSUME Init PROVE Diverted!WorkInit
    OBVIOUS
  <2>1. \A i \in Items : OwnerOf(i) = "new"
    BY DEF Init, OwnerOf
  <2> QED BY <2>1 DEF Init, Diverted!WorkInit, OwnerView
<1>2. ASSUME WInv, [Next]_vars PROVE [Diverted!WorkNext]_(Diverted!workVars)
  <2>1. CASE (\E t \in Tenants : WindowElapses(t)) \/ UNCHANGED vars
    <3>1. UNCHANGED <<window, marker, pc, answer, flusherVars, jobVars>>
      BY <2>1 DEF WindowElapses, vars, callerVars, flusherVars, jobVars
    <3>2. \A i \in Items : OwnerOf(i)' = OwnerOf(i)
      BY <3>1 DEF OwnerOf, CarriedAt, flusherVars, jobVars
    <3> QED BY <3>1, <3>2, Stutters
  <2> QED BY <1>2, <2>1, CallerRefines, FlusherRefines, DiesRefines DEF Next
<1> QED BY <1>1, <1>2, WindowInvariant, PTL DEF Spec, DiversionRefined, Diverted!WorkSpec
=============================================================================
