----------------------------- MODULE BudgetGuard -----------------------------
(***************************************************************************)
(* The monthly budget of one tenant: RedisBudgetGuard.check.               *)
(*                                                                         *)
(* A check reads the committed spend, then runs a script that drops the    *)
(* reservations past their TTL, compares spend and reservations with the   *)
(* budget, and reserves an estimate when it admits.  Nobody releases a     *)
(* reservation; the cost of a request reaches the spend counter after it   *)
(* has ended (UsagePipeline), whether or not its reservation still stands. *)
(***************************************************************************)
EXTENDS Integers, FiniteSets

CONSTANTS
    Requests,
    Budget,         \* effective_budget_usd_monthly
    Estimate,       \* hold_estimate_usd
    Costs,          \* what a request may cost
    MaxFaults       \* bound: failed calls

ASSUME BudgetAssumption ==
    /\ IsFiniteSet(Requests)
    /\ Budget \in Nat \ {0}
    /\ Estimate \in Nat \ {0}
    /\ Costs \subseteq Nat
    /\ MaxFaults \in Nat

VARIABLES
    pc,             \* pc[r]: "new", "read", "running", "denied" or "counted"
    seen,           \* seen[r]: the committed spend its check has read
    spent,          \* usage:spend
    holds,          \* budget:hold, the requests with a reservation
    overdue,        \* the reservations past hold_ttl_seconds
    sum,            \* budget:hold_sum
    excess,         \* sum of the costs above the estimate (history)
    missed,         \* missed[r]: requests counted since r's read (history)
    slipped,        \* a cost escaped both the spend and the reservations
                    \* that some check looks at (history)
    faults

keys == <<spent, holds, overdue, sum>>
history == <<excess, missed, slipped>>
vars == <<pc, seen, keys, history, faults>>

Init ==
    /\ pc = [r \in Requests |-> "new"]
    /\ seen = [r \in Requests |-> 0]
    /\ spent = 0
    /\ holds = {}
    /\ overdue = {}
    /\ sum = 0
    /\ excess = 0
    /\ missed = [r \in Requests |-> {}]
    /\ slipped = FALSE
    /\ faults = 0

\* What reservations of these requests hold together: an estimate each.
Worth(S) == Estimate * Cardinality(S)

Goes(r, from, to) == pc[r] = from /\ pc' = [pc EXCEPT ![r] = to]

\* A call fails and the check lets the request pass.
FailsOpen ==
    /\ faults < MaxFaults
    /\ faults' = faults + 1
    /\ slipped' = TRUE
    /\ UNCHANGED excess

-----------------------------------------------------------------------------
(* _CHECK_AND_HOLD_LUA                                                     *)

\* The sum without the reservations past their TTL, never below zero.
EvictedSum ==
    LET rest == sum - Worth(overdue)
    IN  IF rest < 0 THEN 0 ELSE rest

\* Fault for sensitivity: off by one at the budget.
AdmitsAtBudget(r) == seen[r] + EvictedSum <= Budget

Admits(r) == seen[r] + EvictedSum < Budget

Script(r) ==
    /\ holds' = IF Admits(r) THEN (holds \ overdue) \cup {r} ELSE holds \ overdue
    /\ sum' = IF Admits(r) THEN EvictedSum + Estimate ELSE EvictedSum
    /\ overdue' = {}
    /\ UNCHANGED spent

-----------------------------------------------------------------------------
(* check                                                                   *)

FetchSpent(r) ==
    /\ Goes(r, "new", "read")
    /\ seen' = [seen EXCEPT ![r] = spent]
    /\ UNCHANGED <<keys, history, faults>>

\* Redis does not answer: the spend is taken to be 0.
FetchSpentFails(r) ==
    /\ Goes(r, "new", "read")
    /\ FailsOpen
    /\ seen' = [seen EXCEPT ![r] = 0]
    /\ UNCHANGED <<keys, missed>>

\* The budget cannot be read.
FetchBudgetFails(r) ==
    /\ Goes(r, "new", "running")
    /\ FailsOpen
    /\ UNCHANGED <<seen, keys, missed>>

CheckAndReserve(r) ==
    /\ Goes(r, "read", IF Admits(r) THEN "running" ELSE "denied")
    /\ Script(r)
    /\ UNCHANGED <<seen, history, faults>>

\* The script's call fails, before or after it took effect.
ReserveFails(r) ==
    /\ Goes(r, "read", "running")
    /\ FailsOpen
    /\ Script(r) \/ UNCHANGED keys
    /\ UNCHANGED <<seen, missed>>

-----------------------------------------------------------------------------
(* The rest of the request, and time                                       *)

\* The request has ended and the recorder adds its cost to the counter.
Count(r) ==
    /\ Goes(r, "running", "counted")
    /\ \E c \in Costs :
          /\ spent' = spent + c
          /\ excess' = IF c > Estimate THEN excess + (c - Estimate) ELSE excess
    /\ missed' = [q \in Requests |-> IF pc[q] = "read" THEN missed[q] \cup {r} ELSE missed[q]]
    /\ UNCHANGED <<seen, holds, overdue, sum, slipped, faults>>

\* The counter is not moved.
CountFails(r) ==
    /\ Goes(r, "running", "counted")
    /\ FailsOpen
    /\ UNCHANGED <<seen, keys, missed>>

\* A reservation grows older than its TTL: before its cost is counted, or after
\* a check has read the spend without that cost, it counts nowhere.
TtlPasses(r) ==
    /\ r \in holds \ overdue
    /\ overdue' = overdue \cup {r}
    /\ slipped' = (slipped \/ pc[r] = "running" \/ \E q \in Requests : r \in missed[q] /\ pc[q] = "read")
    /\ UNCHANGED <<pc, seen, spent, holds, sum, excess, missed, faults>>

\* Fault for sensitivity: the two keys have no expiry of their own.
KeysStay == FALSE /\ UNCHANGED vars

\* Both keys expire, one second after the TTL of the youngest reservation.
KeysExpire ==
    /\ holds # {} /\ holds = overdue
    /\ holds' = {} /\ overdue' = {} /\ sum' = 0
    /\ UNCHANGED <<pc, seen, spent, history, faults>>

Next ==
    \/ \E r \in Requests :
          \/ FetchSpent(r) \/ FetchSpentFails(r) \/ FetchBudgetFails(r)
          \/ CheckAndReserve(r) \/ ReserveFails(r)
          \/ Count(r) \/ CountFails(r)
          \/ TtlPasses(r)
    \/ KeysExpire

Spec == Init /\ [][Next]_vars

\* Time passes.
FairSpec ==
    /\ Spec
    /\ \A r \in Requests : WF_vars(TtlPasses(r))
    /\ WF_vars(KeysExpire)

-----------------------------------------------------------------------------
(* Properties                                                              *)

TypeOK ==
    /\ pc \in [Requests -> {"new", "read", "running", "denied", "counted"}]
    /\ seen \in [Requests -> Nat]
    /\ spent \in Nat /\ sum \in Nat /\ excess \in Nat
    /\ holds \subseteq Requests /\ overdue \subseteq holds
    /\ missed \in [Requests -> SUBSET Requests]
    /\ slipped \in BOOLEAN
    /\ faults \in 0..MaxFaults

\* The companion sum is the sum of the members (the script's two keys).
SumIsHolds == sum = Worth(holds)

\* Checks that race, even on the same reading of the spend, reserve at most one
\* estimate beyond the budget (the overshoot the script was written to close).
ReservationsBounded == sum < Budget + Estimate

Running == {r \in Requests : pc[r] = "running"}

\* The module's docstring: reservations "can never UNDER-count (never lets spend
\* silently exceed budget)".  The spend, with an estimate for each request that
\* still runs, passes the budget by less than one estimate and what requests
\* cost above theirs.
NeverUndercounts == spent - excess + Worth(Running) < Budget + Estimate

\* That holds unless a call failed, or a reservation aged away before its cost was
\* counted or between a check's reading of the spend and its script.
BudgetKept == ~slipped => NeverUndercounts

\* A reservation does not outlive its request for ever, although nobody releases it.
HoldsExpire == \A r \in Requests : r \in holds ~> r \notin holds

-----------------------------------------------------------------------------
(* The inductive invariant behind the safety properties.                   *)

\* Whoever has a reservation was admitted; a check misses only what is counted
\* after its reading.
AdmittedHold ==
    /\ \A r \in holds : pc[r] \in {"running", "counted"}
    /\ \A r \in Requests : \A q \in missed[r] : pc[q] = "counted" /\ pc[r] # "new"

\* A cost that is in no reading of a check stands under a live reservation.
Covered ==
    ~slipped =>
        /\ Running \subseteq holds \ overdue
        /\ \A r \in Requests : pc[r] = "read" =>
              /\ missed[r] \subseteq holds \ overdue
              /\ spent - excess <= seen[r] + Worth(missed[r])

BInv ==
    /\ TypeOK
    /\ AdmittedHold
    /\ Covered
    /\ SumIsHolds
    /\ ReservationsBounded
    /\ BudgetKept

=============================================================================
