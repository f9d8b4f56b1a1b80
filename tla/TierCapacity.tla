---------------------------- MODULE TierCapacity ----------------------------
(***************************************************************************)
(* The admission slots of service tiers: RedisTierCapacityGuard in every   *)
(* gateway process, over three sorted sets in Redis shared by all.         *)
(*                                                                         *)
(* A check_and_hold tries the pools of its tier in order, one call of the  *)
(* Lua script each, against the caps its process had when it started.  The *)
(* script drops the members past the hold's TTL, counts, and adds the      *)
(* request if there is room.  A call may fail with or without having taken *)
(* effect.  Each process remembers in _holds which pool a request is in.   *)
(***************************************************************************)
EXTENDS Integers, FiniteSets

CONSTANTS
    Workers, Requests,
    Home,           \* the process that serves each request
    TierOf,         \* the tier each request asks for
    Configs,        \* tier settings an administrator may put
    BootConfig,     \* those a process starts with
    MaxPuts,        \* bound on changes of the settings
    MaxFaults,      \* bound on failed Redis calls and process deaths
    None

Pools == {"priority_floor", "standard_floor", "shared"}
Tiers == {"priority", "standard"}

\* The percentages are the code's fractions, in hundredths.
Config == [cluster: Nat, priorityPct: Nat, standardPct: Nat]

ASSUME TierAssumption ==
    /\ IsFiniteSet(Requests)
    /\ Home \in [Requests -> Workers] /\ TierOf \in [Requests -> Tiers]
    /\ Configs \subseteq Config /\ BootConfig \in Configs
    /\ BootConfig.cluster > 0       \* else the pass-through guard is wired
    /\ \A c \in Configs : c.priorityPct + c.standardPct <= 100
    /\ MaxPuts \in Nat /\ MaxFaults \in Nat
    /\ None \notin Pools \cup Tiers

VARIABLES
    pool,           \* members of each sorted set
    overdue,        \* requests whose member is older than the TTL
    config,         \* the settings in each process
    pc,             \* progress of each request
    against,        \* the settings a request's admission was started with
    left,           \* places in the order of its pools it has not tried
    served,         \* the tier it was told, None before
    held,           \* _holds of its process: the pool it was admitted to
    freeing,        \* the pool a release under way removes it from
    puts, faults

requestVars == <<pc, against, left, served, held, freeing>>
vars == <<pool, overdue, config, pc, against, left, served, held, freeing, puts, faults>>

-----------------------------------------------------------------------------
(* The settings and what they mean.                                        *)

\* round(): to the nearest integer, a tie to the even one.
Rounded(hundredths) ==
    LET whole == hundredths \div 100
        rest == hundredths % 100
    IN  IF rest > 50 \/ (rest = 50 /\ whole % 2 = 1) THEN whole + 1 ELSE whole

Floors(c) == Rounded(c.cluster * c.priorityPct) + Rounded(c.cluster * c.standardPct)

\* Fault for sensitivity: the floors are not taken from the shared pool.
CapSharedWhole(c, k) ==
    CASE k = "priority_floor" -> Rounded(c.cluster * c.priorityPct)
      [] k = "standard_floor" -> Rounded(c.cluster * c.standardPct)
      [] k = "shared" -> c.cluster

Cap(c, k) ==
    CASE k = "priority_floor" -> Rounded(c.cluster * c.priorityPct)
      [] k = "standard_floor" -> Rounded(c.cluster * c.standardPct)
      [] k = "shared" -> IF c.cluster > Floors(c) THEN c.cluster - Floors(c) ELSE 0

PoolsToTry(tier) ==
    IF tier = "priority" THEN <<"priority_floor", "shared", "standard_floor">>
    ELSE <<"standard_floor", "shared">>

\* Fault for sensitivity: the standard floor is served at the tier asked for.
ServedAsAsked(r, k) == TierOf[r]

\* A priority request in the standard floor is served, and billed, as standard.
ServedIn(r, k) == IF k = "standard_floor" THEN "standard" ELSE TierOf[r]

PoolAt(r, i) == PoolsToTry(TierOf[r])[i]

Places(r, c) == {i \in DOMAIN PoolsToTry(TierOf[r]) : Cap(c, PoolAt(r, i)) > 0}

\* The pool a request tries next is that of the first place left.
First(r, i) == i \in left[r] /\ \A j \in left[r] : i <= j

-----------------------------------------------------------------------------
(* Redis calls.                                                            *)

Kept(k) == pool[k] \ overdue

\* Fault for sensitivity: n <= cap.
HasRoomOffByOne(r, k) == Cardinality(Kept(k)) <= Cap(against[r], k)

HasRoom(r, k) == Cardinality(Kept(k)) < Cap(against[r], k)

\* The Lua script: prune, count, add.
AdmitScript(r, k) ==
    [pool EXCEPT ![k] = IF HasRoom(r, k) THEN Kept(k) \cup {r} ELSE Kept(k)]

ZRem(r) == [pool EXCEPT ![freeing[r]] = @ \ {r}]

Fails == faults < MaxFaults /\ faults' = faults + 1

-----------------------------------------------------------------------------
Init ==
    /\ pool = [k \in Pools |-> {}] /\ overdue = {}
    /\ config = [w \in Workers |-> BootConfig]
    /\ pc = [r \in Requests |-> "new"]
    /\ against = [r \in Requests |-> BootConfig]
    /\ left = [r \in Requests |-> {}]
    /\ served = [r \in Requests |-> None]
    /\ held = [r \in Requests |-> None]
    /\ freeing = [r \in Requests |-> None]
    /\ puts = 0 /\ faults = 0

\* Tiering is off: the request runs at the tier it asks for and holds nothing.
PassThrough(r) ==
    /\ pc[r] = "new" /\ config[Home[r]].cluster = 0
    /\ pc' = [pc EXCEPT ![r] = "running"]
    /\ against' = [against EXCEPT ![r] = config[Home[r]]]
    /\ served' = [served EXCEPT ![r] = TierOf[r]]
    /\ UNCHANGED <<pool, overdue, config, left, held, freeing, puts, faults>>

\* check_and_hold fixes its pools and caps; pools without capacity are skipped.
CheckAndHold(r) ==
    LET c == config[Home[r]] IN
    /\ pc[r] = "new" /\ c.cluster > 0
    /\ against' = [against EXCEPT ![r] = c]
    /\ left' = [left EXCEPT ![r] = Places(r, c)]
    /\ pc' = [pc EXCEPT ![r] = IF Places(r, c) = {} THEN "refused" ELSE "trying"]
    /\ UNCHANGED <<pool, overdue, config, served, held, freeing, puts, faults>>

Admit(r) == \E i \in left[r] :
    LET k == PoolAt(r, i) IN
    /\ pc[r] = "trying" /\ First(r, i) /\ HasRoom(r, k)
    /\ pool' = AdmitScript(r, k)
    /\ held' = [held EXCEPT ![r] = k]
    /\ served' = [served EXCEPT ![r] = ServedIn(r, k)]
    /\ pc' = [pc EXCEPT ![r] = "running"]
    /\ UNCHANGED <<overdue, config, against, left, freeing, puts, faults>>

\* The pool is full: try the next, or raise ERR_TIER_CAPACITY_EXHAUSTED.
Full(r) == \E i \in left[r] :
    LET k == PoolAt(r, i) IN
    /\ pc[r] = "trying" /\ First(r, i) /\ ~HasRoom(r, k)
    /\ pool' = AdmitScript(r, k)
    /\ left' = [left EXCEPT ![r] = @ \ {i}]
    /\ pc' = [pc EXCEPT ![r] = IF left[r] = {i} THEN "refused" ELSE "trying"]
    /\ UNCHANGED <<overdue, config, against, served, held, freeing, puts, faults>>

\* Any Redis error admits the request, as standard and degraded, with no hold
\* recorded; the script may have run all the same.
CallFails(r) == \E i \in left[r] :
    LET k == PoolAt(r, i) IN
    /\ pc[r] = "trying" /\ First(r, i)
    /\ Fails
    /\ pool' \in {pool, AdmitScript(r, k)}
    /\ served' = [served EXCEPT ![r] = "standard"]
    /\ pc' = [pc EXCEPT ![r] = "running"]
    /\ UNCHANGED <<overdue, config, against, left, held, freeing, puts>>

\* The request is cancelled, or its process dying, with the call under way: nobody
\* handles the answer.
CallAbandoned(r) == \E i \in left[r] :
    /\ pc[r] = "trying" /\ First(r, i)
    /\ Fails
    /\ pool' \in {pool, AdmitScript(r, PoolAt(r, i))}
    /\ pc' = [pc EXCEPT ![r] = "over"]
    /\ UNCHANGED <<overdue, config, against, left, served, held, freeing, puts>>

-----------------------------------------------------------------------------
(* The end of a request.                                                   *)

\* release() takes the hold out of _holds first; a second one finds nothing.
Release(r) ==
    /\ pc[r] = "running"
    /\ pc' = [pc EXCEPT ![r] = IF held[r] = None THEN "over" ELSE "releasing"]
    /\ freeing' = [freeing EXCEPT ![r] = held[r]]
    /\ held' = [held EXCEPT ![r] = None]
    /\ UNCHANGED <<pool, overdue, config, against, left, served, puts, faults>>

Free(r) ==
    /\ pc[r] = "releasing"
    /\ pool' = ZRem(r)
    /\ pc' = [pc EXCEPT ![r] = "over"]
    /\ UNCHANGED <<overdue, config, against, left, served, held, freeing, puts, faults>>

\* The error is swallowed.
FreeFails(r) ==
    /\ pc[r] = "releasing"
    /\ Fails
    /\ pool' \in {pool, ZRem(r)}
    /\ pc' = [pc EXCEPT ![r] = "over"]
    /\ UNCHANGED <<overdue, config, against, left, served, held, freeing, puts>>

\* A request refused after its admission, or whose usage record failed, ends
\* without anyone calling release().
NeverReleased(r) ==
    /\ pc[r] = "running"
    /\ pc' = [pc EXCEPT ![r] = "over"]
    /\ UNCHANGED <<pool, overdue, config, against, left, served, held, freeing, puts, faults>>

-----------------------------------------------------------------------------
(* Time, settings, processes.                                              *)

TtlPasses(r) ==
    /\ r \in UNION {Kept(k) : k \in Pools}
    /\ overdue' = overdue \cup {r}
    /\ UNCHANGED <<pool, config, requestVars, puts, faults>>

\* Fault for sensitivity: the key never expires.
KeyStays(k) == k \in {} /\ UNCHANGED vars

\* Fault for sensitivity: the key expires one TTL after it was made.
KeyExpiresEarly(k) ==
    /\ pool[k] \cap overdue # {}
    /\ pool' = [pool EXCEPT ![k] = {}]
    /\ UNCHANGED <<overdue, config, requestVars, puts, faults>>

\* The key of a pool outlives its youngest member by one TTL.
KeyExpires(k) ==
    /\ pool[k] # {} /\ Kept(k) = {}
    /\ pool' = [pool EXCEPT ![k] = {}]
    /\ UNCHANGED <<overdue, config, requestVars, puts, faults>>

\* PUT of the settings reaches the process that answers it, no other.
Reconfigure(w, c) ==
    /\ c # config[w] /\ puts < MaxPuts
    /\ config' = [config EXCEPT ![w] = c]
    /\ puts' = puts + 1
    /\ UNCHANGED <<pool, overdue, requestVars, faults>>

\* A process restarts with its boot settings; its requests and _holds are gone.
WorkerDies(w) ==
    LET lost == {r \in Requests : Home[r] = w /\ pc[r] \in {"trying", "running", "releasing"}} IN
    /\ Fails
    /\ config' = [config EXCEPT ![w] = BootConfig]
    /\ pc' = [r \in Requests |-> IF r \in lost THEN "over" ELSE pc[r]]
    /\ held' = [r \in Requests |-> IF Home[r] = w THEN None ELSE held[r]]
    /\ UNCHANGED <<pool, overdue, against, left, served, freeing, puts>>

RequestNext == \E r \in Requests :
    \/ PassThrough(r) \/ CheckAndHold(r)
    \/ Admit(r) \/ Full(r) \/ CallFails(r) \/ CallAbandoned(r)
    \/ Release(r) \/ Free(r) \/ FreeFails(r) \/ NeverReleased(r)

Next ==
    \/ RequestNext
    \/ \E r \in Requests : TtlPasses(r)
    \/ \E k \in Pools : KeyExpires(k)
    \/ \E w \in Workers, c \in Configs : Reconfigure(w, c)
    \/ \E w \in Workers : WorkerDies(w)

Spec == Init /\ [][Next]_vars

\* Time passes, and Redis expires keys; no caller need ever release.
Fairness ==
    /\ \A r \in Requests : WF_vars(TtlPasses(r))
    /\ \A k \in Pools : WF_vars(KeyExpires(k))

FairSpec == Spec /\ Fairness

-----------------------------------------------------------------------------
TypeOK ==
    /\ pool \in [Pools -> SUBSET Requests] /\ overdue \subseteq Requests
    /\ config \in [Workers -> Configs]
    /\ pc \in [Requests -> {"new", "trying", "running", "releasing", "refused", "over"}]
    /\ against \in [Requests -> Configs]
    /\ left \in [Requests -> SUBSET (1..3)]
    /\ \A r \in Requests : left[r] \subseteq DOMAIN PoolsToTry(TierOf[r])
    /\ served \in [Requests -> Tiers \cup {None}]
    /\ held \in [Requests -> Pools \cup {None}]
    /\ freeing \in [Requests -> Pools \cup {None}]
    /\ puts \in Nat /\ faults \in Nat

\* However processes race, die, and disagree about the settings, no pool takes
\* more members than settings that were put allow it (the one Lua script).
PoolWithinCap ==
    \A k \in Pools : \E c \in Configs : Cardinality(pool[k]) <= Cap(c, k)

\* A request has at most one slot, of the right kind: an error after a call that
\* took effect does not lead it to a second pool, and the priority floor is kept
\* from standard requests (check_and_hold's return on error, and its order).
OneSlot ==
    /\ \A r \in Requests, k, l \in Pools : r \in pool[k] /\ r \in pool[l] => k = l
    /\ \A r \in pool["priority_floor"] : TierOf[r] = "priority"

\* A hold a process remembers is a slot in Redis until its TTL, whatever is
\* released, pruned or reconfigured meanwhile ("in-flight holds are unaffected").
HeldIsSlot ==
    \A r \in Requests : held[r] # None => r \in pool[held[r]] \/ r \in overdue

\* A request billed as priority had a priority or shared slot, or tiering was off:
\* never one admitted by an outage or through the standard floor.
PriorityEarned ==
    \A r \in Requests : served[r] = "priority" =>
        /\ TierOf[r] = "priority"
        /\ \/ against[r].cluster = 0
           \/ held[r] \in {"priority_floor", "shared"}
           \/ pc[r] \in {"releasing", "over"}

\* A request that is not admitted, or not yet, is in no pool.
SlotAfterAdmission ==
    \A r \in Requests : pc[r] \in {"new", "trying", "refused"} =>
        /\ held[r] = None /\ served[r] = None
        /\ \A k \in Pools : r \notin pool[k]

\* A release under way knows its pool, and has taken the hold out of _holds.
ReleaseKnowsPool ==
    \A r \in Requests : pc[r] = "releasing" => freeing[r] \in Pools /\ held[r] = None

TInv == TypeOK /\ PoolWithinCap /\ OneSlot /\ HeldIsSlot /\ PriorityEarned
          /\ SlotAfterAdmission /\ ReleaseKnowsPool

\* Any members of a pool are no more than the cap one of them was admitted against:
\* the last of them to come was counted with the others.
OwnCaps ==
    \A k \in Pools : \A S \in SUBSET pool[k] :
        S # {} => \E r \in S : Cardinality(S) <= Cap(against[r], k)

\* Both floors of these settings are ties, and round() may take both up.
FloorsTie(c) ==
    /\ c.priorityPct + c.standardPct = 100
    /\ (c.cluster * c.priorityPct) % 100 = 50

Taken == Cardinality(pool["priority_floor"]) + Cardinality(pool["standard_floor"])
           + Cardinality(pool["shared"])

\* Requests admitted under the same settings never take more slots than its cluster
\* cap together, but for the one that two floors rounded up add ("Partitions
\* cluster_cap into three pools").
ClusterCapKept ==
    \A c \in Configs : (\A k \in Pools : \A r \in pool[k] : against[r] = c) =>
        \/ Taken <= c.cluster
        \/ Taken = c.cluster + 1 /\ FloorsTie(c)

\* A slot leaves its pool by its own request's release or by age, and no other way:
\* no release, prune or reconfiguration takes a running request's slot early.
SlotsKept ==
    [][\A k \in Pools : \A r \in pool[k] \ pool'[k] :
          r \in overdue \/ (pc[r] = "releasing" /\ freeing[r] = k)]_vars

\* A slot whose request is over is reclaimed although its release was lost, its
\* process died, or nobody released it (the TTL and the key's own expiry).
SlotsReclaimed ==
    \A r \in Requests : (pc[r] = "over" /\ \E k \in Pools : r \in pool[k])
                          ~> (\A k \in Pools : r \notin pool[k])

=============================================================================
