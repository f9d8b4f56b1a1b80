------------------------------ MODULE Admission ------------------------------
(***************************************************************************)
(* A proxied request between its two holds and what gives them back.       *)
(*                                                                         *)
(* _enforce_governance takes a tier slot, then a credit hold, then checks  *)
(* the rate limits; a refusal gives back what was taken.  The request then *)
(* dispatches usage records as tasks of their own, and the done-callback   *)
(* of each of them starts a task that frees the slot and one that settles  *)
(* or releases the hold.  The credit ledger appears as CreditAccount, what *)
(* CreditLedger was shown to implement; a slot appears as taken or not.    *)
(***************************************************************************)
EXTENDS Integers

CONSTANTS
    Tenants,
    Requests,
    TenantOf,
    Grace,
    Estimate,       \* hold_estimate_usd
    Costs,          \* costs a record may report, 0 for a free one
    MaxRecords,     \* bound: MaxRecords[r] records of request r
    MaxFaults       \* bound: failed calls, cancellations and crashes

ASSUME AdmissionAssumption ==
    /\ TenantOf \in [Requests -> Tenants]
    /\ Grace \in [Tenants -> Nat]
    /\ Estimate \in Nat \ {0}
    /\ Costs \subseteq Nat
    /\ MaxRecords \in [Requests -> Nat]
    /\ MaxFaults \in Nat

VARIABLES
    pc,             \* pc[r]: what the request's coroutine waits for
    slot,           \* slot[r]: the tier slot, "none", "taken" or "freed"
    funds, status, held, cost,      \* the tenant's account (CreditAccount)
    tasks,          \* tasks of the process that are under way
    records,        \* records[r]: how many were dispatched
    billed,         \* billed[r]: what the usage ledger charges (history)
    mishaps,        \* mishaps[r]: faults and timeouts that hit r (history)
    faults

account == <<funds, status, held, cost>>
history == <<billed, mishaps, faults>>
vars == <<pc, slot, account, tasks, records, history>>

Account == INSTANCE CreditAccount WITH
    Estimates <- {Estimate}, Keys <- {}, Amounts <- {}, topups <- <<>>, None <- "none"

Deciding == {"credit", "rates", "giveCredit", "giveSlot"}
Ended == {"refused", "over", "dead"}
Kinds == {"record", "settle", "release", "free"}
Task == [req: Requests, n: Nat, kind: Kinds, cost: Costs]

TasksOf(r) == {x \in tasks : x.req = r}

Init ==
    /\ pc = [r \in Requests |-> "new"]
    /\ slot = [r \in Requests |-> "none"]
    /\ funds = [t \in Tenants |-> 0]
    /\ status = [r \in Requests |-> "none"]
    /\ held = [r \in Requests |-> 0]
    /\ cost = [r \in Requests |-> 0]
    /\ tasks = {}
    /\ records = [r \in Requests |-> 0]
    /\ billed = [r \in Requests |-> 0]
    /\ mishaps = [r \in Requests |-> {}]
    /\ faults = 0

Goes(r, from, to) == pc[r] = from /\ pc' = [pc EXCEPT ![r] = to]

Hits(r, what) == mishaps' = [mishaps EXCEPT ![r] = @ \cup {what}]

Fault(r) ==
    /\ faults < MaxFaults
    /\ faults' = faults + 1
    /\ Hits(r, "fault")

\* The hold of r is finalised, or none is open and nothing happens.
Resolve(r, op) == op \/ (status[r] # "open" /\ UNCHANGED account)

Free(r) == slot' = [slot EXCEPT ![r] = IF @ = "taken" THEN "freed" ELSE @]

-----------------------------------------------------------------------------
(* _enforce_governance                                                     *)

\* The slot is taken; a pass-through or degraded admission has none.
TierHold(r) ==
    /\ Goes(r, "new", "credit")
    /\ \E s \in {"taken", "none"} : slot' = [slot EXCEPT ![r] = s]
    /\ UNCHANGED <<account, tasks, records, history>>

\* Every pool is full: 503.
TierRefuse(r) ==
    /\ Goes(r, "new", "refused")
    /\ UNCHANGED <<slot, account, tasks, records, history>>

CreditHold(r) ==
    /\ Goes(r, "credit", "rates")
    /\ Account!Hold(r, Estimate)
    /\ UNCHANGED <<slot, tasks, records, history>>

\* The balance does not cover the estimate: 402, and the slot is given back.
CreditRefuse(r) ==
    /\ Goes(r, "credit", "giveSlot")
    /\ funds[TenantOf[r]] - Estimate < -Grace[TenantOf[r]]
    /\ UNCHANGED <<slot, account, tasks, records, history>>

\* The guard swallows a database error and lets the request pass; its commit
\* may have reached the database.
CreditFails(r) ==
    /\ Goes(r, "credit", "rates")
    /\ Fault(r)
    /\ Account!Hold(r, Estimate) \/ UNCHANGED account
    /\ UNCHANGED <<slot, tasks, records, billed>>

\* Both holds are published for the records of this request.
RatesPass(r) ==
    /\ Goes(r, "rates", "serving")
    /\ UNCHANGED <<slot, account, tasks, records, history>>

\* Fault for sensitivity: a rate-limit refusal gives back the slot only.
RatesRefuseKeepsHold(r) ==
    /\ Goes(r, "rates", "giveSlot")
    /\ UNCHANGED <<slot, account, tasks, records, history>>

\* RPM or TPM is exceeded: 429, and both are given back.
RatesRefuse(r) ==
    /\ Goes(r, "rates", "giveCredit")
    /\ UNCHANGED <<slot, account, tasks, records, history>>

GiveCredit(r) ==
    /\ Goes(r, "giveCredit", "giveSlot")
    /\ Resolve(r, Account!Release(r))
    /\ UNCHANGED <<slot, tasks, records, history>>

GiveSlot(r) ==
    /\ Goes(r, "giveSlot", "refused")
    /\ Free(r)
    /\ UNCHANGED <<account, tasks, records, history>>

\* Giving back is best effort: the guards swallow their errors.
GiveBackFails(r) ==
    /\ Goes(r, "giveCredit", "giveSlot") \/ Goes(r, "giveSlot", "refused")
    /\ Fault(r)
    /\ UNCHANGED <<slot, account, tasks, records, billed>>

\* A cancellation is no Exception: nothing is given back.
Cancel(r) ==
    /\ pc[r] \in Deciding \cup {"serving"}
    /\ pc' = [pc EXCEPT ![r] = "dead"]
    /\ Fault(r)
    /\ UNCHANGED <<slot, account, tasks, records, billed>>

-----------------------------------------------------------------------------
(* complete() and stream() after governance                                *)

\* A record is dispatched: the meter of a file search, an attempt whose output
\* failed validation, or the one that ends the request.
DispatchRecord(r) ==
    /\ pc[r] = "serving"
    /\ records[r] < MaxRecords[r]
    /\ records' = [records EXCEPT ![r] = @ + 1]
    /\ \E c \in Costs : tasks' = tasks \cup
          {[req |-> r, n |-> records[r] + 1, kind |-> "record", cost |-> c]}
    /\ UNCHANGED <<pc, slot, account, history>>

\* The answer is sent, or a later check refuses without dispatching a record.
Finish(r) ==
    /\ Goes(r, "serving", "over")
    /\ UNCHANGED <<slot, account, tasks, records, history>>

-----------------------------------------------------------------------------
(* The record tasks, and the tasks their done-callback starts              *)

\* Fault for sensitivity: a settle of the estimate, whatever the cost.
OutcomeEstimate(x) ==
    {[x EXCEPT !.kind = "free"], [x EXCEPT !.kind = "settle", !.cost = Estimate]}

\* Fault for sensitivity: the test of a free record is inverted.
OutcomeInverted(x) ==
    {[x EXCEPT !.kind = "free"],
     [x EXCEPT !.kind = IF x.cost > 0 THEN "release" ELSE "settle"]}

\* Fault for sensitivity: a record without a cost leaves the hold alone.
OutcomePaidOnly(x) ==
    {[x EXCEPT !.kind = "free"]} \cup
    (IF x.cost > 0 THEN {[x EXCEPT !.kind = "settle"]} ELSE {})

\* _settle_or_release_hold: free the slot; settle a cost, release without one.
Outcome(x) ==
    {[x EXCEPT !.kind = "free"],
     [x EXCEPT !.kind = IF x.cost > 0 THEN "settle" ELSE "release"]}

Record(x) ==
    /\ x.kind = "record"
    /\ tasks' = (tasks \ {x}) \cup Outcome(x)
    /\ billed' = [billed EXCEPT ![x.req] = @ + x.cost]
    /\ UNCHANGED <<pc, slot, account, records, mishaps, faults>>

\* A record without an outcome starts nothing; its charge may be in the ledger.
RecordFails(x) ==
    /\ x.kind = "record"
    /\ tasks' = tasks \ {x}
    /\ \E c \in {0, x.cost} : billed' = [billed EXCEPT ![x.req] = @ + c]
    /\ Fault(x.req)
    /\ UNCHANGED <<pc, slot, account, records>>

SettleHold(x) ==
    /\ x.kind = "settle"
    /\ tasks' = tasks \ {x}
    /\ Resolve(x.req, Account!Settle(x.req, x.cost))
    /\ UNCHANGED <<pc, slot, records, history>>

ReleaseHold(x) ==
    /\ x.kind = "release"
    /\ tasks' = tasks \ {x}
    /\ Resolve(x.req, Account!Release(x.req))
    /\ UNCHANGED <<pc, slot, records, history>>

FreeSlot(x) ==
    /\ x.kind = "free"
    /\ tasks' = tasks \ {x}
    /\ Free(x.req)
    /\ UNCHANGED <<pc, account, records, history>>

\* The guards swallow their errors.
CallFails(x) ==
    /\ x.kind # "record"
    /\ tasks' = tasks \ {x}
    /\ Fault(x.req)
    /\ UNCHANGED <<pc, slot, account, records, billed>>

-----------------------------------------------------------------------------
(* What happens to a request from outside                                  *)

\* The hold has outlived its timeout: the sweep releases it, whether or not
\* the request still runs.
Sweep(r) ==
    /\ Account!Release(r)
    /\ Hits(r, "swept")
    /\ UNCHANGED <<pc, slot, tasks, records, billed, faults>>

\* The slot has outlived its TTL.
SlotExpires(r) ==
    /\ slot[r] = "taken"
    /\ Free(r)
    /\ Hits(r, "expired")
    /\ UNCHANGED <<pc, account, tasks, records, billed, faults>>

\* The process dies with its coroutines and tasks.
Crash ==
    /\ faults < MaxFaults
    /\ faults' = faults + 1
    /\ pc' = [r \in Requests |-> IF pc[r] \in Deciding \cup {"serving"} THEN "dead" ELSE pc[r]]
    /\ mishaps' = [r \in Requests |->
          IF pc[r] \in Deciding \cup {"serving"} \/ TasksOf(r) # {}
          THEN mishaps[r] \cup {"fault"} ELSE mishaps[r]]
    /\ tasks' = {}
    /\ UNCHANGED <<slot, account, records, billed>>

Governs(r) ==
    \/ TierHold(r) \/ TierRefuse(r)
    \/ CreditHold(r) \/ CreditRefuse(r) \/ CreditFails(r)
    \/ RatesPass(r) \/ RatesRefuse(r)
    \/ GiveCredit(r) \/ GiveSlot(r) \/ GiveBackFails(r)

Works(x) ==
    \/ Record(x) \/ RecordFails(x)
    \/ SettleHold(x) \/ ReleaseHold(x) \/ FreeSlot(x) \/ CallFails(x)

Next ==
    \/ \E r \in Requests :
          \/ Governs(r) \/ Cancel(r)
          \/ DispatchRecord(r) \/ Finish(r)
          \/ Sweep(r) \/ SlotExpires(r)
    \/ \E x \in tasks : Works(x)
    \/ Crash

Spec == Init /\ [][Next]_vars

\* The event loop runs the record tasks and those their callbacks start.  Neither the
\* sweep nor the TTL is counted on.
FairSpec == Spec /\ WF_vars(\E x \in tasks : Works(x))

-----------------------------------------------------------------------------
(* Properties                                                              *)

TypeOK ==
    /\ pc \in [Requests -> {"new", "serving"} \cup Deciding \cup Ended]
    /\ slot \in [Requests -> {"none", "taken", "freed"}]
    /\ funds \in [Tenants -> Int]
    /\ status \in [Requests -> {"none", "open", "settled", "released"}]
    /\ held \in [Requests -> Nat]
    /\ cost \in [Requests -> Nat]
    /\ tasks \subseteq Task
    /\ records \in [Requests -> Nat]
    /\ billed \in [Requests -> Nat]
    /\ mishaps \in [Requests -> SUBSET {"fault", "swept", "expired"}]
    /\ faults \in 0..MaxFaults

\* A request that governance refused is never charged, and unless giving back
\* failed it keeps neither its hold nor its slot (_enforce_governance).
RefusedGivesBack ==
    \A r \in Requests : pc[r] = "refused" =>
        /\ status[r] # "settled" /\ billed[r] = 0
        /\ "fault" \notin mishaps[r] => status[r] # "open" /\ slot[r] # "taken"

\* The credits are never charged more than the usage ledger bills, however the
\* records of a request, the sweep and faults interleave.
NeverOvercharged == \A r \in Requests : cost[r] <= billed[r]

\* Nothing of r is under way, and nothing went wrong with it.
Quiet(r) == pc[r] = "over" /\ TasksOf(r) = {} /\ mishaps[r] = {}

\* A request with one record is charged exactly what is billed for it, or its
\* hold is given back when that is nothing (_settle_or_release_hold).
OneRecordExact ==
    \A r \in Requests : (Quiet(r) /\ records[r] = 1) =>
        IF billed[r] > 0 THEN status[r] = "settled" /\ cost[r] = billed[r]
                         ELSE status[r] = "released"

\* A request that runs keeps its slot until its TTL, or until one of its records
\* is dispatched (the done-callback of a first record frees it).
ServedInSlot ==
    \A r \in Requests :
        (pc[r] \in {"credit", "rates", "serving"} /\ slot[r] = "freed") =>
            "expired" \in mishaps[r] \/ records[r] > 0

\* The records of a request give back its slot and finalise its hold by themselves: no
\* order of records with and without a cost leaves either to the sweep or the TTL,
\* unless a call failed (_settle_or_release_hold).
RecordsResolve ==
    \A r \in Requests :
        records[r] > 0 ~>
            (status[r] # "open" /\ slot[r] # "taken") \/ "fault" \in mishaps[r]

-----------------------------------------------------------------------------
(* The inductive invariant behind the safety properties.                   *)

\* Only requests that governance admitted dispatch records.
AdmittedRecord ==
    /\ \A r \in Requests : pc[r] \in {"new", "refused"} \cup Deciding => records[r] = 0
    /\ \A x \in tasks : records[x.req] > 0

\* Nothing is taken before its turn.
NothingYet ==
    \A r \in Requests :
        /\ pc[r] = "new" => slot[r] = "none"
        /\ pc[r] \in {"new", "credit"} => status[r] = "none"

\* Without a record nothing is billed, and nothing is settled.
Unrecorded ==
    \A r \in Requests : records[r] = 0 => billed[r] = 0 /\ status[r] # "settled"

\* A pending settle's cost is in the usage ledger.
SettlesBilled == \A x \in tasks : x.kind = "settle" => x.cost <= billed[x.req]

\* An admitted request holds its estimate, a refused one has given it back.
HoldsByStage ==
    \A r \in Requests :
        /\ (pc[r] \in {"rates", "serving"} /\ records[r] = 0 /\ mishaps[r] = {})
              => status[r] = "open"
        /\ (pc[r] = "giveSlot" /\ "fault" \notin mishaps[r]) => status[r] # "open"

\* What still has to be done about the hold of r.
Awaited(r) == {x \in tasks : x.req = r /\ x.kind # "free"}

\* The only record of r is pending, or its outcome is, or it is done.
OneRecordOf(r) ==
    \/ /\ status[r] = "open"
       /\ \E x \in Awaited(r) :
             /\ Awaited(r) = {x}
             /\ \/ x.kind = "record" /\ billed[r] = 0
                \/ x.kind = "settle" /\ x.cost = billed[r] /\ billed[r] > 0
                \/ x.kind = "release" /\ billed[r] = 0
    \/ /\ Awaited(r) = {}
       /\ IF billed[r] > 0 THEN status[r] = "settled" /\ cost[r] = billed[r]
                           ELSE status[r] = "released"

OneRecord == \A r \in Requests : (records[r] = 1 /\ mishaps[r] = {}) => OneRecordOf(r)

AInv ==
    /\ TypeOK
    /\ AdmittedRecord
    /\ NothingYet
    /\ Unrecorded
    /\ SettlesBilled
    /\ HoldsByStage
    /\ OneRecord
    /\ RefusedGivesBack
    /\ NeverOvercharged
    /\ ServedInSlot

=============================================================================
