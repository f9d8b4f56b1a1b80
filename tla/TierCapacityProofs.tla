------------------------- MODULE TierCapacityProofs -------------------------
(***************************************************************************)
(* The safety of the tier pools, for any processes, requests, settings and *)
(* faults.  Everything follows from TInv, which is inductive: a request is *)
(* in no pool before its admission, so the script that adds it gives it    *)
(* its one slot, and what a process remembers stays true until the TTL.    *)
(***************************************************************************)
EXTENDS TierCapacity, FiniteSetTheorems, TLAPS

-----------------------------------------------------------------------------
(* Settings.                                                               *)

\* Rounding a natural number of hundredths gives a natural number (round()).
LEMMA RoundedNat == ASSUME NEW n \in Nat PROVE Rounded(n) \in Nat
BY SMT DEF Rounded

\* A product of naturals is one.
LEMMA ProductNat == ASSUME NEW m \in Nat, NEW n \in Nat PROVE m * n \in Nat
BY SMT

\* Every pool's cap is a natural number (the constructor's max(..., 0)).
LEMMA CapNat == ASSUME NEW c \in Configs, NEW k \in Pools PROVE Cap(c, k) \in Nat
<1>1. c.cluster \in Nat /\ c.priorityPct \in Nat /\ c.standardPct \in Nat
  BY TierAssumption DEF Config
<1>2. Rounded(c.cluster * c.priorityPct) \in Nat /\ Rounded(c.cluster * c.standardPct) \in Nat
  BY <1>1, RoundedNat, ProductNat
<1>3. Floors(c) \in Nat
  BY <1>2, SMT DEF Floors
<1>4. c.cluster > Floors(c) => c.cluster - Floors(c) \in Nat
  BY <1>1, <1>3, SMT
<1>5. CASE k = "shared"
  BY <1>4, <1>5, SMT DEF Cap
<1>6. CASE k # "shared"
  BY <1>2, <1>6, SMT DEF Cap, Pools
<1> QED BY <1>5, <1>6

\* A request's places name pools; the priority floor is priority's (pools_to_try).
LEMMA PoolAtPlace ==
    ASSUME NEW r \in Requests, NEW i \in DOMAIN PoolsToTry(TierOf[r])
    PROVE  /\ PoolAt(r, i) \in Pools
           /\ PoolAt(r, i) = "priority_floor" => TierOf[r] = "priority"
<1>1. CASE TierOf[r] = "priority"
  BY <1>1, SMT DEF PoolAt, PoolsToTry, Pools
<1>2. CASE TierOf[r] # "priority"
  BY <1>2, SMT DEF PoolAt, PoolsToTry, Pools
<1> QED BY <1>1, <1>2

\* A tier's places are among the first three (pools_to_try).
LEMMA PlacesType == ASSUME NEW r \in Requests, NEW c \in Configs
    PROVE Places(r, c) \in SUBSET (1..3) /\ Places(r, c) \subseteq DOMAIN PoolsToTry(TierOf[r])
<1>1. DOMAIN PoolsToTry(TierOf[r]) \subseteq 1..3
  BY SMT DEF PoolsToTry
<1> QED BY <1>1 DEF Places

\* Served tiers are tiers, and priority is served to priority outside the
\* standard floor (pools_to_try's third column).
LEMMA ServedType == ASSUME NEW r \in Requests, NEW k \in Pools
    PROVE /\ ServedIn(r, k) \in Tiers
          /\ ServedIn(r, k) = "priority" => TierOf[r] = "priority" /\ k # "standard_floor"
<1>1. TierOf[r] \in Tiers
  BY TierAssumption
<1> QED BY <1>1 DEF ServedIn, Tiers

-----------------------------------------------------------------------------
(* Changes of the pools.                                                   *)

\* A change that only removes members keeps the caps and the single slots
\* (release, pruning, expiry of the key).
LEMMA ShrinkKeeps ==
    ASSUME TypeOK, PoolWithinCap, OneSlot, NEW P \in [Pools -> SUBSET Requests],
           \A l \in Pools : P[l] \subseteq pool[l]
    PROVE  /\ \A l \in Pools : \E c \in Configs : Cardinality(P[l]) <= Cap(c, l)
           /\ \A q \in Requests, l, m \in Pools : q \in P[l] /\ q \in P[m] => l = m
           /\ \A q \in P["priority_floor"] : TierOf[q] = "priority"
<1>1. ASSUME NEW l \in Pools PROVE \E c \in Configs : Cardinality(P[l]) <= Cap(c, l)
  <2>1. pool[l] \subseteq Requests /\ P[l] \in SUBSET pool[l]
    BY DEF TypeOK
  <2>2. IsFiniteSet(pool[l])
    BY <2>1, TierAssumption, FS_Subset
  <2>3. IsFiniteSet(P[l]) /\ Cardinality(P[l]) <= Cardinality(pool[l])
    BY <2>1, <2>2, FS_Subset
  <2>4. Cardinality(P[l]) \in Nat /\ Cardinality(pool[l]) \in Nat
    BY <2>2, <2>3, FS_CardinalityType
  <2>5. PICK c \in Configs : Cardinality(pool[l]) <= Cap(c, l)
    BY DEF PoolWithinCap
  <2>6. Cap(c, l) \in Nat
    BY CapNat
  <2>7. Cardinality(P[l]) <= Cap(c, l)
    BY <2>3, <2>4, <2>5, <2>6, SMT
  <2> QED BY <2>7
<1>2. \A q \in Requests, l, m \in Pools : q \in P[l] /\ q \in P[m] => l = m
  BY DEF OneSlot
<1>3. \A q \in P["priority_floor"] : TierOf[q] = "priority"
  <2>1. "priority_floor" \in Pools
    BY DEF Pools
  <2> QED BY <2>1 DEF OneSlot
<1> QED BY <1>1, <1>2, <1>3

\* What the script leaves in the pools: all members within the TTL, and the
\* request if there was room (_POOL_ADMIT_LUA).
LEMMA ScriptMembers ==
    ASSUME TypeOK, NEW r \in Requests, NEW k \in Pools, NEW P, P = AdmitScript(r, k)
    PROVE  /\ P \in [Pools -> SUBSET Requests]
           /\ \A l \in Pools : Kept(l) \subseteq P[l] /\ P[l] \subseteq pool[l] \cup {r}
           /\ \A l \in Pools : l # k => P[l] = pool[l]
           /\ HasRoom(r, k) => P[k] = Kept(k) \cup {r}
           /\ ~HasRoom(r, k) => P[k] = Kept(k)
<1>1. pool \in [Pools -> SUBSET Requests]
  BY DEF TypeOK
<1>2. Kept(k) \subseteq pool[k]
  BY DEF Kept
<1>3. P = [pool EXCEPT ![k] = IF HasRoom(r, k) THEN Kept(k) \cup {r} ELSE Kept(k)]
  BY DEF AdmitScript
<1>4. P[k] = (IF HasRoom(r, k) THEN Kept(k) \cup {r} ELSE Kept(k))
  BY <1>1, <1>3
<1>5. \A l \in Pools : l # k => P[l] = pool[l]
  BY <1>1, <1>3
<1>6. (IF HasRoom(r, k) THEN Kept(k) \cup {r} ELSE Kept(k)) \subseteq Requests
  BY <1>1, <1>2
<1>7. P \in [Pools -> SUBSET Requests]
  BY <1>1, <1>3, <1>6
<1>8. \A l \in Pools : Kept(l) \subseteq pool[l]
  BY DEF Kept
<1>9. ASSUME NEW l \in Pools PROVE Kept(l) \subseteq P[l] /\ P[l] \subseteq pool[l] \cup {r}
  <2>1. CASE l = k
    BY <1>2, <1>4, <2>1
  <2>2. CASE l # k
    BY <1>5, <1>8, <2>2
  <2> QED BY <2>1, <2>2
<1> QED BY <1>4, <1>5, <1>7, <1>9

\* The script keeps the caps and the single slots, whatever settings the
\* admission was started with: it counts and adds at once.
LEMMA ScriptKeeps ==
    ASSUME TypeOK, PoolWithinCap, OneSlot, SlotAfterAdmission,
           NEW r \in Requests, pc[r] = "trying", NEW k \in Pools,
           k = "priority_floor" => TierOf[r] = "priority",
           NEW P, P = AdmitScript(r, k)
    PROVE  /\ \A l \in Pools : \E c \in Configs : Cardinality(P[l]) <= Cap(c, l)
           /\ \A q \in Requests, l, m \in Pools : q \in P[l] /\ q \in P[m] => l = m
           /\ \A q \in P["priority_floor"] : TierOf[q] = "priority"
<1>0. /\ P \in [Pools -> SUBSET Requests]
      /\ \A l \in Pools : Kept(l) \subseteq P[l] /\ P[l] \subseteq pool[l] \cup {r}
      /\ \A l \in Pools : l # k => P[l] = pool[l]
      /\ HasRoom(r, k) => P[k] = Kept(k) \cup {r}
      /\ ~HasRoom(r, k) => P[k] = Kept(k)
  BY ScriptMembers
<1>1. \A l \in Pools : r \notin pool[l]
  BY DEF SlotAfterAdmission
<1>2. Kept(k) \subseteq pool[k] /\ pool[k] \subseteq Requests
  BY DEF Kept, TypeOK
<1>3. CASE HasRoom(r, k)
  <2>1. ASSUME NEW l \in Pools PROVE \E c \in Configs : Cardinality(P[l]) <= Cap(c, l)
    <3>1. CASE l # k
      BY <1>0, <3>1 DEF PoolWithinCap
    <3>2. CASE l = k
      <4>1. IsFiniteSet(Kept(k))
        BY <1>2, TierAssumption, FS_Subset
      <4>2. r \notin Kept(k)
        BY <1>1, <1>2
      <4>3. Cardinality(Kept(k) \cup {r}) = Cardinality(Kept(k)) + 1
        BY <4>1, <4>2, FS_AddElement
      <4>4. Cardinality(Kept(k)) \in Nat
        BY <4>1, FS_CardinalityType
      <4>5. against[r] \in Configs /\ Cap(against[r], k) \in Nat
        BY CapNat DEF TypeOK
      <4>6. Cardinality(Kept(k)) < Cap(against[r], k)
        BY <1>3 DEF HasRoom
      <4>7. Cardinality(Kept(k)) + 1 <= Cap(against[r], k)
        BY <4>4, <4>5, <4>6, SMT
      <4>8. Cardinality(P[l]) <= Cap(against[r], l)
        BY <1>0, <1>3, <3>2, <4>3, <4>7
      <4> QED BY <4>5, <4>8
    <3> QED BY <3>1, <3>2
  <2>2. ASSUME NEW q \in Requests, NEW l \in Pools, NEW m \in Pools, q \in P[l], q \in P[m]
        PROVE  l = m
    <3>1. CASE q = r
      BY <1>0, <1>1, <2>2, <3>1
    <3>2. CASE q # r
      BY <1>0, <2>2, <3>2 DEF OneSlot
    <3> QED BY <3>1, <3>2
  <2>3. \A q \in P["priority_floor"] : TierOf[q] = "priority"
    <3>1. "priority_floor" \in Pools
      BY DEF Pools
    <3>2. CASE k = "priority_floor"
      BY <1>0, <3>1, <3>2 DEF OneSlot
    <3>3. CASE k # "priority_floor"
      BY <1>0, <3>1, <3>3 DEF OneSlot
    <3> QED BY <3>2, <3>3
  <2> QED BY <2>1, <2>2, <2>3
<1>4. CASE ~HasRoom(r, k)
  <2>1. ASSUME NEW l \in Pools PROVE P[l] \subseteq pool[l]
    <3>1. CASE l = k
      BY <1>0, <1>2, <1>4, <3>1
    <3>2. CASE l # k
      BY <1>0, <3>2
    <3> QED BY <3>1, <3>2
  <2> QED BY <1>0, <2>1, ShrinkKeeps
<1> QED BY <1>3, <1>4

-----------------------------------------------------------------------------
(* The inductive invariant.                                                *)

\* No request, no slot, no hold: the initial state is as TInv says (Init).
LEMMA InitTInv == Init => TInv
<1> SUFFICES ASSUME Init PROVE TInv
  OBVIOUS
<1>1. TypeOK
  BY TierAssumption DEF Init, TypeOK
<1>2. \A k \in Pools : pool[k] = {}
  BY DEF Init
<1>3. PoolWithinCap
  <2>1. ASSUME NEW k \in Pools PROVE \E c \in Configs : Cardinality(pool[k]) <= Cap(c, k)
    <3>1. BootConfig \in Configs
      BY TierAssumption
    <3>2. Cap(BootConfig, k) \in Nat
      BY <3>1, CapNat
    <3>3. Cardinality(pool[k]) = 0
      BY <1>2, FS_EmptySet
    <3>4. Cardinality(pool[k]) <= Cap(BootConfig, k)
      BY <3>2, <3>3, SMT
    <3> QED BY <3>1, <3>4
  <2> QED BY <2>1 DEF PoolWithinCap
<1>4. OneSlot
  BY <1>2 DEF OneSlot, Pools
<1>5. HeldIsSlot
  BY DEF Init, HeldIsSlot
<1>6. PriorityEarned
  BY TierAssumption DEF Init, PriorityEarned, Tiers
<1>7. SlotAfterAdmission
  BY <1>2 DEF Init, SlotAfterAdmission
<1>8. ReleaseKnowsPool
  BY DEF Init, ReleaseKnowsPool
<1> QED BY <1>1, <1>3, <1>4, <1>5, <1>6, <1>7, <1>8 DEF TInv

\* Every step keeps the types.
LEMMA TypeStep == ASSUME TypeOK, ReleaseKnowsPool, [Next]_vars PROVE TypeOK'
<1> USE DEF TypeOK
<1>1. ASSUME NEW r \in Requests, PassThrough(r) PROVE TypeOK'
  BY <1>1, TierAssumption DEF PassThrough
<1>2. ASSUME NEW r \in Requests, CheckAndHold(r) PROVE TypeOK'
  <2>1. config[Home[r]] \in Configs
    BY TierAssumption
  <2>2. /\ Places(r, config[Home[r]]) \in SUBSET (1..3)
        /\ Places(r, config[Home[r]]) \subseteq DOMAIN PoolsToTry(TierOf[r])
    BY <2>1, PlacesType
  <2>3. left' \in [Requests -> SUBSET (1..3)]
    BY <1>2, <2>2 DEF CheckAndHold
  <2>4. \A q \in Requests : left'[q] \subseteq DOMAIN PoolsToTry(TierOf[q])
    BY <1>2, <2>2 DEF CheckAndHold
  <2>5. against' \in [Requests -> Configs]
    BY <1>2, <2>1 DEF CheckAndHold
  <2>6. pc' \in [Requests -> {"new", "trying", "running", "releasing", "refused", "over"}]
    BY <1>2 DEF CheckAndHold
  <2> QED BY <1>2, <2>3, <2>4, <2>5, <2>6 DEF CheckAndHold
<1>3. ASSUME NEW r \in Requests, Admit(r) PROVE TypeOK'
  <2>1. PICK i \in left[r] :
          /\ pool' = AdmitScript(r, PoolAt(r, i))
          /\ held' = [held EXCEPT ![r] = PoolAt(r, i)]
          /\ served' = [served EXCEPT ![r] = ServedIn(r, PoolAt(r, i))]
          /\ pc' = [pc EXCEPT ![r] = "running"]
          /\ UNCHANGED <<overdue, config, against, left, freeing, puts, faults>>
    BY <1>3 DEF Admit
  <2>2. PoolAt(r, i) \in Pools
    BY PoolAtPlace
  <2>3. ServedIn(r, PoolAt(r, i)) \in Tiers
    BY <2>2, ServedType
  <2>4. pool' \in [Pools -> SUBSET Requests]
    BY <2>1, <2>2, ScriptMembers
  <2> QED BY <2>1, <2>2, <2>3, <2>4
<1>4. ASSUME NEW r \in Requests, Full(r) PROVE TypeOK'
  <2>1. PICK i \in left[r] :
          /\ pool' = AdmitScript(r, PoolAt(r, i))
          /\ left' = [left EXCEPT ![r] = @ \ {i}]
          /\ pc' = [pc EXCEPT ![r] = IF left[r] = {i} THEN "refused" ELSE "trying"]
          /\ UNCHANGED <<overdue, config, against, served, held, freeing, puts, faults>>
    BY <1>4 DEF Full
  <2>2. PoolAt(r, i) \in Pools
    BY PoolAtPlace
  <2>3. pool' \in [Pools -> SUBSET Requests]
    BY <2>1, <2>2, ScriptMembers
  <2>4. left' \in [Requests -> SUBSET (1..3)]
    BY <2>1
  <2>5. \A q \in Requests : left'[q] \subseteq DOMAIN PoolsToTry(TierOf[q])
    BY <2>1
  <2> QED BY <2>1, <2>3, <2>4, <2>5
<1>5. ASSUME NEW r \in Requests, CallFails(r) PROVE TypeOK'
  <2>1. PICK i \in left[r] :
          /\ Fails
          /\ pool' \in {pool, AdmitScript(r, PoolAt(r, i))}
          /\ served' = [served EXCEPT ![r] = "standard"]
          /\ pc' = [pc EXCEPT ![r] = "running"]
          /\ UNCHANGED <<overdue, config, against, left, held, freeing, puts>>
    BY <1>5 DEF CallFails
  <2>2. PoolAt(r, i) \in Pools
    BY PoolAtPlace
  <2>3. AdmitScript(r, PoolAt(r, i)) \in [Pools -> SUBSET Requests]
    BY <2>2, ScriptMembers
  <2>4. pool' \in [Pools -> SUBSET Requests]
    BY <2>1, <2>3
  <2> QED BY <2>1, <2>4 DEF Fails, Tiers
<1>6. ASSUME NEW r \in Requests, Release(r) PROVE TypeOK'
  BY <1>6 DEF Release
<1>7. ASSUME NEW r \in Requests, Free(r) PROVE TypeOK'
  <2>1. freeing[r] \in Pools
    BY <1>7 DEF Free, ReleaseKnowsPool
  <2>2. pool' \in [Pools -> SUBSET Requests]
    BY <1>7, <2>1 DEF Free, ZRem
  <2> QED BY <1>7, <2>2 DEF Free
<1>8. ASSUME NEW r \in Requests, FreeFails(r) PROVE TypeOK'
  <2>1. freeing[r] \in Pools
    BY <1>8 DEF FreeFails, ReleaseKnowsPool
  <2>2. pool' \in [Pools -> SUBSET Requests]
    BY <1>8, <2>1 DEF FreeFails, ZRem
  <2> QED BY <1>8, <2>2 DEF FreeFails, Fails
<1>9. ASSUME NEW r \in Requests, NeverReleased(r) PROVE TypeOK'
  BY <1>9 DEF NeverReleased
<1>10. ASSUME NEW r \in Requests, TtlPasses(r) PROVE TypeOK'
  BY <1>10 DEF TtlPasses, requestVars
<1>11. ASSUME NEW k \in Pools, KeyExpires(k) PROVE TypeOK'
  BY <1>11 DEF KeyExpires, requestVars
<1>12. ASSUME NEW w \in Workers, NEW c \in Configs, Reconfigure(w, c) PROVE TypeOK'
  BY <1>12 DEF Reconfigure, requestVars
<1>13. ASSUME NEW w \in Workers, WorkerDies(w) PROVE TypeOK'
  BY <1>13, TierAssumption DEF WorkerDies, Fails
<1>14. ASSUME NEW r \in Requests, CallAbandoned(r) PROVE TypeOK'
  <2>1. PICK i \in left[r] :
          /\ Fails
          /\ pool' \in {pool, AdmitScript(r, PoolAt(r, i))}
          /\ pc' = [pc EXCEPT ![r] = "over"]
          /\ UNCHANGED <<overdue, config, against, left, served, held, freeing, puts>>
    BY <1>14 DEF CallAbandoned
  <2>2. PoolAt(r, i) \in Pools
    BY PoolAtPlace
  <2>3. AdmitScript(r, PoolAt(r, i)) \in [Pools -> SUBSET Requests]
    BY <2>2, ScriptMembers
  <2> QED BY <2>1, <2>3 DEF Fails
<1>15. ASSUME UNCHANGED vars PROVE TypeOK'
  BY <1>15 DEF vars
<1> QED BY <1>1, <1>2, <1>3, <1>4, <1>5, <1>6, <1>7, <1>8, <1>9, <1>10, <1>11, <1>12, <1>13,
           <1>14, <1>15 DEF Next, RequestNext

\* A step runs the script for a request that is being admitted, or adds nothing to
\* any pool (only check_and_hold adds).
LEMMA PoolChange == ASSUME TInv, [Next]_vars
    PROVE \/ \A l \in Pools : pool'[l] \subseteq pool[l]
          \/ \E r \in Requests, k \in Pools :
                /\ pc[r] = "trying"
                /\ k = "priority_floor" => TierOf[r] = "priority"
                /\ pool' = AdmitScript(r, k)
<1> DEFINE Shrinks == \A l \in Pools : pool'[l] \subseteq pool[l]
           Runs(r) == \E k \in Pools : /\ pc[r] = "trying"
                                       /\ k = "priority_floor" => TierOf[r] = "priority"
                                       /\ pool' = AdmitScript(r, k)
<1>0. /\ pool \in [Pools -> SUBSET Requests]
      /\ \A r \in Requests : left[r] \subseteq DOMAIN PoolsToTry(TierOf[r])
  BY DEF TInv, TypeOK
<1>1. ASSUME NEW r \in Requests, Admit(r) \/ Full(r) \/ CallFails(r) \/ CallAbandoned(r)
      PROVE  Shrinks \/ Runs(r)
  <2>1. PICK i \in left[r] : /\ pc[r] = "trying"
                             /\ pool' = AdmitScript(r, PoolAt(r, i)) \/ pool' = pool
    BY <1>1 DEF Admit, Full, CallFails, CallAbandoned
  <2>2. PoolAt(r, i) \in Pools /\ (PoolAt(r, i) = "priority_floor" => TierOf[r] = "priority")
    BY <1>0, PoolAtPlace
  <2> QED BY <2>1, <2>2
<1>2. ASSUME NEW r \in Requests, Free(r) \/ FreeFails(r) PROVE Shrinks
  <2>1. freeing[r] \in Pools
    BY <1>2 DEF Free, FreeFails, TInv, ReleaseKnowsPool
  <2>2. pool' = [pool EXCEPT ![freeing[r]] = @ \ {r}] \/ pool' = pool
    BY <1>2 DEF Free, FreeFails, ZRem
  <2> QED BY <1>0, <2>1, <2>2
<1>3. ASSUME NEW k \in Pools, KeyExpires(k) PROVE Shrinks
  BY <1>0, <1>3 DEF KeyExpires
<1>4. ASSUME UNCHANGED pool PROVE Shrinks
  BY <1>4
<1>5. ASSUME NEW r \in Requests,
             PassThrough(r) \/ CheckAndHold(r) \/ Release(r) \/ NeverReleased(r) \/ TtlPasses(r)
      PROVE  UNCHANGED pool
  BY <1>5 DEF PassThrough, CheckAndHold, Release, NeverReleased, TtlPasses
<1>6. ASSUME NEW w \in Workers, WorkerDies(w) \/ \E c \in Configs : Reconfigure(w, c)
      PROVE  UNCHANGED pool
  BY <1>6 DEF WorkerDies, Reconfigure
<1>7. ASSUME UNCHANGED vars PROVE UNCHANGED pool
  BY <1>7 DEF vars
<1> QED BY <1>1, <1>2, <1>3, <1>4, <1>5, <1>6, <1>7 DEF Next, RequestNext

\* Every step keeps the caps and the single slots.
LEMMA PoolsStep == ASSUME TInv, TypeOK', [Next]_vars PROVE PoolWithinCap' /\ OneSlot'
<1>1. TypeOK /\ PoolWithinCap /\ OneSlot /\ SlotAfterAdmission
  BY DEF TInv
<1>2. pool' \in [Pools -> SUBSET Requests]
  BY DEF TypeOK
<1>3. /\ \A l \in Pools : \E c \in Configs : Cardinality(pool'[l]) <= Cap(c, l)
      /\ \A q \in Requests, l, m \in Pools : q \in pool'[l] /\ q \in pool'[m] => l = m
      /\ \A q \in pool'["priority_floor"] : TierOf[q] = "priority"
  <2>1. CASE \A l \in Pools : pool'[l] \subseteq pool[l]
    BY <1>1, <1>2, <2>1, ShrinkKeeps
  <2>2. CASE \E r \in Requests, k \in Pools :
                /\ pc[r] = "trying"
                /\ k = "priority_floor" => TierOf[r] = "priority"
                /\ pool' = AdmitScript(r, k)
    <3>1. PICK r \in Requests, k \in Pools :
                /\ pc[r] = "trying"
                /\ k = "priority_floor" => TierOf[r] = "priority"
                /\ pool' = AdmitScript(r, k)
      BY <2>2
    <3> QED BY <1>1, <3>1, ScriptKeeps
  <2> QED BY <2>1, <2>2, PoolChange
<1> QED BY <1>3 DEF PoolWithinCap, OneSlot

\* A slot a step takes away is past its TTL, or is being released by its request
\* (ZREMRANGEBYSCORE, the key's expiry, ZREM).
LEMMA Losses == ASSUME TInv, [Next]_vars
    PROVE \A k \in Pools : \A q \in pool[k] \ pool'[k] :
             q \in overdue \/ (pc[q] = "releasing" /\ freeing[q] = k)
<1> DEFINE Goal == \A k \in Pools : \A q \in pool[k] \ pool'[k] :
                      q \in overdue \/ (pc[q] = "releasing" /\ freeing[q] = k)
<1>0. /\ TypeOK /\ pool \in [Pools -> SUBSET Requests]
      /\ \A r \in Requests : left[r] \subseteq DOMAIN PoolsToTry(TierOf[r])
  BY DEF TInv, TypeOK
<1>1. ASSUME NEW r \in Requests, Admit(r) \/ Full(r) \/ CallFails(r) \/ CallAbandoned(r) PROVE Goal
  <2>1. PICK i \in left[r] : pool' = AdmitScript(r, PoolAt(r, i)) \/ pool' = pool
    BY <1>1 DEF Admit, Full, CallFails, CallAbandoned
  <2>2. PoolAt(r, i) \in Pools
    BY <1>0, PoolAtPlace
  <2>3. CASE pool' = AdmitScript(r, PoolAt(r, i))
    <3>1. \A l \in Pools : Kept(l) \subseteq pool'[l]
      BY <1>0, <2>2, <2>3, ScriptMembers
    <3> QED BY <3>1 DEF Kept
  <2> QED BY <2>1, <2>3
<1>2. ASSUME NEW r \in Requests, Free(r) \/ FreeFails(r) PROVE Goal
  <2>1. freeing[r] \in Pools /\ pc[r] = "releasing"
    BY <1>2 DEF Free, FreeFails, TInv, ReleaseKnowsPool
  <2>2. pool' = [pool EXCEPT ![freeing[r]] = @ \ {r}] \/ pool' = pool
    BY <1>2 DEF Free, FreeFails, ZRem
  <2> QED BY <1>0, <2>1, <2>2
<1>3. ASSUME NEW k \in Pools, KeyExpires(k) PROVE Goal
  BY <1>0, <1>3 DEF KeyExpires, Kept
<1>4. ASSUME UNCHANGED pool PROVE Goal
  BY <1>4
<1>5. ASSUME NEW r \in Requests,
             PassThrough(r) \/ CheckAndHold(r) \/ Release(r) \/ NeverReleased(r) \/ TtlPasses(r)
      PROVE  UNCHANGED pool
  BY <1>5 DEF PassThrough, CheckAndHold, Release, NeverReleased, TtlPasses
<1>6. ASSUME NEW w \in Workers, WorkerDies(w) \/ \E c \in Configs : Reconfigure(w, c)
      PROVE  UNCHANGED pool
  BY <1>6 DEF WorkerDies, Reconfigure
<1>7. ASSUME UNCHANGED vars PROVE UNCHANGED pool
  BY <1>7 DEF vars
<1> QED BY <1>1, <1>2, <1>3, <1>4, <1>5, <1>6, <1>7 DEF Next, RequestNext

\* Every step keeps a remembered hold in Redis until its TTL, and gives one only
\* with the slot (_holds[request_id] = pool_key).
LEMMA HeldStep == ASSUME TInv, [Next]_vars PROVE HeldIsSlot'
<1>0. TypeOK /\ HeldIsSlot /\ ReleaseKnowsPool
  BY DEF TInv
<1>1. overdue \subseteq overdue'
  BY DEF Next, RequestNext, vars, requestVars, PassThrough, CheckAndHold, Admit, Full, CallFails,
         CallAbandoned, Release, Free, FreeFails, NeverReleased, TtlPasses, KeyExpires,
         Reconfigure, WorkerDies
<1>2. ASSUME NEW q \in Requests, held'[q] = held[q], held[q] # None
      PROVE  q \in pool'[held[q]] \/ q \in overdue'
  <2>1. held[q] \in Pools /\ pc[q] # "releasing"
    BY <1>0, <1>2 DEF TypeOK, ReleaseKnowsPool
  <2>2. q \in pool[held[q]] \/ q \in overdue
    BY <1>0, <1>2 DEF HeldIsSlot
  <2> QED BY <1>1, <2>1, <2>2, Losses
<1>3. ASSUME NEW q \in Requests, held'[q] # held[q], held'[q] # None
      PROVE  q \in pool'[held'[q]]
  <2>1. PICK r \in Requests : Admit(r)
    BY <1>0, <1>3 DEF TypeOK, Next, RequestNext, vars, requestVars, PassThrough, CheckAndHold,
       Full, CallFails, CallAbandoned, Release, Free, FreeFails, NeverReleased, TtlPasses,
       KeyExpires, Reconfigure, WorkerDies
  <2>2. PICK i \in left[r] : /\ HasRoom(r, PoolAt(r, i))
                             /\ pool' = AdmitScript(r, PoolAt(r, i))
                             /\ held' = [held EXCEPT ![r] = PoolAt(r, i)]
    BY <2>1 DEF Admit
  <2>3. q = r /\ held'[q] = PoolAt(r, i)
    BY <1>0, <1>3, <2>2 DEF TypeOK
  <2>4. PoolAt(r, i) \in Pools
    BY <1>0, PoolAtPlace DEF TypeOK
  <2>5. pool'[PoolAt(r, i)] = Kept(PoolAt(r, i)) \cup {r}
    BY <1>0, <2>2, <2>4, ScriptMembers
  <2> QED BY <2>3, <2>5
<1> QED BY <1>2, <1>3 DEF HeldIsSlot

\* Every step keeps a request that is not admitted without slot, hold and served
\* tier (a refusal comes only after every call found its pool full).
LEMMA AdmissionStep == ASSUME TInv, [Next]_vars PROVE SlotAfterAdmission'
<1>0. TypeOK /\ SlotAfterAdmission
  BY DEF TInv
<1>1. ASSUME NEW q \in Requests, pc'[q] \in {"new", "trying", "refused"}
      PROVE  /\ pc[q] \in {"new", "trying", "refused"}
             /\ held'[q] = None /\ served'[q] = None
  BY <1>0, <1>1 DEF TypeOK, SlotAfterAdmission, Next, RequestNext, vars, requestVars, PassThrough,
     CheckAndHold, Admit, Full, CallFails, CallAbandoned, Release, Free, FreeFails,
     NeverReleased, TtlPasses, KeyExpires, Reconfigure, WorkerDies
<1>2. ASSUME NEW q \in Requests, pc'[q] \in {"new", "trying", "refused"}, NEW l \in Pools
      PROVE  q \notin pool'[l]
  <2>1. q \notin pool[l]
    BY <1>0, <1>1, <1>2 DEF SlotAfterAdmission
  <2>2. CASE \A m \in Pools : pool'[m] \subseteq pool[m]
    BY <2>1, <2>2
  <2>3. ASSUME NEW r \in Requests, Full(r) PROVE q \notin pool'[l]
    <3>1. PICK i \in left[r] : /\ ~HasRoom(r, PoolAt(r, i))
                               /\ pool' = AdmitScript(r, PoolAt(r, i))
      BY <2>3 DEF Full
    <3>2. PoolAt(r, i) \in Pools
      BY <1>0, PoolAtPlace DEF TypeOK
    <3>3. /\ pool'[PoolAt(r, i)] = Kept(PoolAt(r, i))
          /\ \A m \in Pools : m # PoolAt(r, i) => pool'[m] = pool[m]
      BY <1>0, <3>1, <3>2, ScriptMembers
    <3> QED BY <2>1, <3>3 DEF Kept
  <2>4. ASSUME NEW r \in Requests, Admit(r) \/ CallFails(r) \/ CallAbandoned(r)
        PROVE  q \notin pool'[l]
    <3>1. PICK i \in left[r] : /\ pool' = AdmitScript(r, PoolAt(r, i)) \/ pool' = pool
                               /\ \/ pc' = [pc EXCEPT ![r] = "running"]
                                  \/ pc' = [pc EXCEPT ![r] = "over"]
      BY <2>4 DEF Admit, CallFails, CallAbandoned
    <3>2. q # r
      BY <1>0, <1>2, <3>1 DEF TypeOK
    <3>3. PoolAt(r, i) \in Pools
      BY <1>0, PoolAtPlace DEF TypeOK
    <3>4. pool' = AdmitScript(r, PoolAt(r, i)) => pool'[l] \subseteq pool[l] \cup {r}
      BY <1>0, <3>3, ScriptMembers
    <3> QED BY <2>1, <3>1, <3>2, <3>4
  <2>5. ASSUME NEW r \in Requests, Free(r) \/ FreeFails(r) PROVE q \notin pool'[l]
    BY <1>0, <2>1, <2>5 DEF Free, FreeFails, ZRem, TypeOK
  <2>6. ASSUME NEW k \in Pools, KeyExpires(k) PROVE q \notin pool'[l]
    BY <1>0, <2>1, <2>6 DEF KeyExpires, TypeOK
  <2>7. ASSUME UNCHANGED pool PROVE q \notin pool'[l]
    BY <2>1, <2>7
  <2>8. ASSUME NEW r \in Requests,
               PassThrough(r) \/ CheckAndHold(r) \/ Release(r) \/ NeverReleased(r) \/ TtlPasses(r)
        PROVE  UNCHANGED pool
    BY <2>8 DEF PassThrough, CheckAndHold, Release, NeverReleased, TtlPasses
  <2>9. ASSUME NEW w \in Workers, WorkerDies(w) \/ \E c \in Configs : Reconfigure(w, c)
        PROVE  UNCHANGED pool
    BY <2>9 DEF WorkerDies, Reconfigure
  <2>10. ASSUME UNCHANGED vars PROVE UNCHANGED pool
    BY <2>10 DEF vars
  <2> QED BY <2>3, <2>4, <2>5, <2>6, <2>7, <2>8, <2>9, <2>10 DEF Next, RequestNext
<1> QED BY <1>1, <1>2 DEF SlotAfterAdmission

\* Every step keeps releases informed (_holds.pop before the ZREM).
LEMMA ReleaseStep == ASSUME TInv, [Next]_vars PROVE ReleaseKnowsPool'
<1>0. TypeOK /\ ReleaseKnowsPool
  BY DEF TInv
<1> QED
  BY <1>0 DEF TypeOK, ReleaseKnowsPool, Next, RequestNext, vars, requestVars, PassThrough,
     CheckAndHold, Admit, Full, CallFails, CallAbandoned, Release, Free, FreeFails,
     NeverReleased, TtlPasses, KeyExpires, Reconfigure, WorkerDies

\* Every step keeps priority earned: it is served by the pass-through or with a slot
\* outside the standard floor, and stays so until the request ends.
LEMMA PriorityStep == ASSUME TInv, [Next]_vars PROVE PriorityEarned'
<1> DEFINE Earned(q) == /\ TierOf[q] = "priority"
                        /\ \/ against'[q].cluster = 0
                           \/ held'[q] \in {"priority_floor", "shared"}
                           \/ pc'[q] \in {"releasing", "over"}
<1>0. TypeOK /\ PriorityEarned /\ SlotAfterAdmission
  BY DEF TInv
<1>1. ASSUME NEW q \in Requests, served'[q] = "priority", served'[q] # served[q] PROVE Earned(q)
  <2>1. PICK r \in Requests : PassThrough(r) \/ Admit(r) \/ CallFails(r)
    BY <1>1 DEF Next, RequestNext, vars, requestVars, CheckAndHold, Full, CallAbandoned, Release,
       Free, FreeFails, NeverReleased, TtlPasses, KeyExpires, Reconfigure, WorkerDies
  <2>2. CASE PassThrough(r)
    <3>1. q = r /\ TierOf[q] = "priority"
      BY <1>0, <1>1, <2>2 DEF PassThrough, TypeOK
    <3>2. against'[q].cluster = 0
      BY <1>0, <2>2, <3>1 DEF PassThrough, TypeOK
    <3> QED BY <3>1, <3>2
  <2>3. CASE Admit(r)
    <3>1. PICK i \in left[r] :
            /\ held' = [held EXCEPT ![r] = PoolAt(r, i)]
            /\ served' = [served EXCEPT ![r] = ServedIn(r, PoolAt(r, i))]
      BY <2>3 DEF Admit
    <3>2. PoolAt(r, i) \in Pools
      BY <1>0, PoolAtPlace DEF TypeOK
    <3>3. q = r /\ served'[q] = ServedIn(r, PoolAt(r, i)) /\ held'[q] = PoolAt(r, i)
      BY <1>0, <1>1, <3>1 DEF TypeOK
    <3>4. TierOf[q] = "priority" /\ PoolAt(r, i) # "standard_floor"
      BY <1>1, <3>2, <3>3, ServedType
    <3> QED BY <3>2, <3>3, <3>4 DEF Pools
  <2>4. CASE CallFails(r)
    BY <1>0, <1>1, <2>4 DEF CallFails, TypeOK
  <2> QED BY <2>1, <2>2, <2>3, <2>4
<1>2. ASSUME NEW q \in Requests, served'[q] = "priority", served'[q] = served[q] PROVE Earned(q)
  <2>1. /\ TierOf[q] = "priority"
        /\ \/ against[q].cluster = 0
           \/ held[q] \in {"priority_floor", "shared"}
           \/ pc[q] \in {"releasing", "over"}
    BY <1>0, <1>2 DEF PriorityEarned
  <2>2. pc[q] \in {"running", "releasing", "over"}
    BY <1>0, <1>2, TierAssumption DEF TypeOK, SlotAfterAdmission, Tiers
  <2>3. /\ against'[q] = against[q]
        /\ pc[q] \in {"releasing", "over"} => pc'[q] \in {"releasing", "over"}
        /\ held'[q] = held[q] \/ pc'[q] \in {"releasing", "over"}
    BY <1>0, <2>2 DEF TypeOK, Next, RequestNext, vars, requestVars, PassThrough, CheckAndHold,
       Admit, Full, CallFails, CallAbandoned, Release, Free, FreeFails, NeverReleased,
       TtlPasses, KeyExpires, Reconfigure, WorkerDies
  <2> QED BY <2>1, <2>3
<1> QED BY <1>1, <1>2 DEF PriorityEarned

-----------------------------------------------------------------------------
(* The pools together.                                                     *)

\* Rounding adds at most a half, and a half only to a tie (round()).
LEMMA RoundedBound == ASSUME NEW n \in Nat
    PROVE 100 * Rounded(n) <= n + 50 /\ (100 * Rounded(n) = n + 50 => n % 100 = 50)
BY SMT DEF Rounded

\* Rounded separately, the two floors exceed the cluster cap by at most one, when both
\* are ties of percentages that leave nothing to share (RedisTierCapacityGuard's
\* constructor).
LEMMA FloorsBound == ASSUME NEW c \in Configs
    PROVE /\ Floors(c) \in Nat
          /\ Floors(c) <= c.cluster \/ (Floors(c) = c.cluster + 1 /\ FloorsTie(c))
<1> DEFINE n == c.cluster
           p == c.priorityPct
           s == c.standardPct
           a == n * p
           b == n * s
           u == n * (100 - (p + s))
<1>1. n \in Nat /\ p \in Nat /\ s \in Nat /\ p + s <= 100
  BY TierAssumption DEF Config
<1>2. a \in Nat /\ b \in Nat /\ u \in Nat
  <2>1. 100 - (p + s) \in Nat
    BY <1>1, SMT
  <2> QED BY <1>1, <2>1, ProductNat
<1>3. a + b + u = 100 * n
  BY <1>1, SMT
<1>4. /\ 100 * Rounded(a) <= a + 50 /\ (100 * Rounded(a) = a + 50 => a % 100 = 50)
      /\ 100 * Rounded(b) <= b + 50
      /\ Rounded(a) \in Nat /\ Rounded(b) \in Nat
  BY <1>2, RoundedBound, RoundedNat
<1>5. Floors(c) = Rounded(a) + Rounded(b)
  BY DEF Floors
<1> HIDE DEF a, b, u
<1>6. Floors(c) \in Nat /\ Floors(c) <= n + 1
  BY <1>1, <1>2, <1>3, <1>4, <1>5, SMT
<1>7. ASSUME Floors(c) = n + 1 PROVE a % 100 = 50 /\ p + s = 100
  <2>1. 100 * Rounded(a) = a + 50 /\ u = 0
    BY <1>1, <1>2, <1>3, <1>4, <1>5, <1>7, SMT
  <2>2. n # 0
    <3>1. a % 100 = 50
      BY <1>4, <2>1
    <3>2. n = 0 => a = 0
      BY <1>1, SMT DEF a
    <3> QED BY <3>1, <3>2, SMT
  <2>3. 100 - (p + s) = 0
    <3>1. \A m, k \in Nat : m * k = 0 => m = 0 \/ k = 0
      BY SMT
    <3>2. 100 - (p + s) \in Nat
      BY <1>1, SMT
    <3>3. n * (100 - (p + s)) = 0
      BY <2>1 DEF u
    <3> HIDE DEF n, p, s
    <3> QED BY <1>1, <2>2, <3>1, <3>2, <3>3
  <2>4. p + s = 100
    BY <1>1, <2>3, SMT
  <2> QED BY <1>4, <2>1, <2>4
<1> HIDE DEF n, p, s
<1>8. Floors(c) <= n \/ Floors(c) = n + 1
  BY <1>1, <1>6, SMT DEF n
<1> QED BY <1>6, <1>7, <1>8 DEF FloorsTie, a, n, p, s

\* A request in a pool keeps the settings it was admitted against (check_and_hold
\* reads the caps once, before its first call).
LEMMA AgainstKept == ASSUME TInv, [Next]_vars, NEW q \in Requests, NEW k \in Pools, q \in pool'[k]
    PROVE against'[q] = against[q]
<1>0. TypeOK /\ SlotAfterAdmission
  BY DEF TInv
<1>1. CASE \E r \in Requests : PassThrough(r) \/ CheckAndHold(r)
  <2>1. PICK r \in Requests : /\ pc[r] = "new" /\ pool' = pool
                              /\ \E c : against' = [against EXCEPT ![r] = c]
    BY <1>1 DEF PassThrough, CheckAndHold
  <2>2. q # r
    BY <1>0, <2>1 DEF SlotAfterAdmission
  <2> QED BY <1>0, <2>1, <2>2 DEF TypeOK
<1>2. CASE ~ \E r \in Requests : PassThrough(r) \/ CheckAndHold(r)
  BY <1>2 DEF Next, RequestNext, vars, requestVars, Admit, Full, CallFails, CallAbandoned,
     Release, Free, FreeFails, NeverReleased, TtlPasses, KeyExpires, Reconfigure, WorkerDies
<1> QED BY <1>1, <1>2

\* Every step keeps any members of a pool within the cap of one of them: the one just
\* admitted was counted with the members the script kept (_POOL_ADMIT_LUA).
LEMMA OwnCapsStep == ASSUME TInv, OwnCaps, [Next]_vars PROVE OwnCaps'
<1>0. TypeOK /\ pool \in [Pools -> SUBSET Requests] /\ against \in [Requests -> Configs]
  BY DEF TInv, TypeOK
<1>1. pool' \in [Pools -> SUBSET Requests]
  BY TypeStep DEF TInv, TypeOK
<1>2. ASSUME NEW k \in Pools, NEW S \in SUBSET pool'[k], S # {}
      PROVE  \E r \in S : Cardinality(S) <= Cap(against'[r], k)
  <2>1. \A r \in S : against'[r] = against[r]
    BY <1>1, <1>2, AgainstKept
  <2>2. CASE S \subseteq pool[k]
    <3>1. PICK r \in S : Cardinality(S) <= Cap(against[r], k)
      BY <1>2, <2>2 DEF OwnCaps
    <3> QED BY <2>1, <3>1
  <2>3. CASE ~(S \subseteq pool[k])
    <3>1. PICK r \in Requests, l \in Pools : pc[r] = "trying" /\ pool' = AdmitScript(r, l)
      BY <1>2, <2>3, PoolChange
    <3>2. /\ \A m \in Pools : m # l => pool'[m] = pool[m]
          /\ HasRoom(r, l) => pool'[l] = Kept(l) \cup {r}
          /\ ~HasRoom(r, l) => pool'[l] = Kept(l)
      BY <1>0, <3>1, ScriptMembers
    <3>3. Kept(l) \subseteq pool[l] /\ pool[l] \subseteq Requests
      BY <1>0 DEF Kept
    <3>4. k = l /\ HasRoom(r, l) /\ r \in S /\ S \subseteq Kept(l) \cup {r}
      BY <1>2, <2>3, <3>2, <3>3
    <3>5. IsFiniteSet(Kept(l)) /\ Cardinality(Kept(l)) \in Nat
      BY <3>3, TierAssumption, FS_Subset, FS_CardinalityType
    <3>6. /\ IsFiniteSet(Kept(l) \cup {r})
          /\ Cardinality(Kept(l) \cup {r}) \in Nat
          /\ Cardinality(Kept(l) \cup {r}) <= Cardinality(Kept(l)) + 1
      <4>1. /\ IsFiniteSet(Kept(l) \cup {r})
            /\ \/ Cardinality(Kept(l) \cup {r}) = Cardinality(Kept(l))
               \/ Cardinality(Kept(l) \cup {r}) = Cardinality(Kept(l)) + 1
        BY <3>5, FS_AddElement
      <4> QED BY <3>5, <4>1, SMT
    <3>7. Cardinality(S) \in Nat /\ Cardinality(S) <= Cardinality(Kept(l) \cup {r})
      BY <3>4, <3>6, FS_Subset, FS_CardinalityType
    <3>8. Cardinality(Kept(l)) < Cap(against[r], l) /\ Cap(against[r], l) \in Nat
      BY <1>0, <3>4, CapNat DEF HasRoom
    <3>9. Cardinality(S) <= Cap(against[r], l)
      BY <3>5, <3>6, <3>7, <3>8, SMT
    <3> QED BY <2>1, <3>4, <3>9
  <2> QED BY <2>2, <2>3
<1> QED BY <1>2 DEF OwnCaps

\* Members admitted under one's settings: each pool is within its cap, and the caps
\* add up to the cluster cap or to the floors (the constructor's max(..., 0)).
LEMMA CapsAddUp == ASSUME TInv, OwnCaps PROVE ClusterCapKept
<1> SUFFICES ASSUME NEW c \in Configs, \A k \in Pools : \A r \in pool[k] : against[r] = c
             PROVE  Taken <= c.cluster \/ (Taken = c.cluster + 1 /\ FloorsTie(c))
  BY DEF ClusterCapKept
<1>1. ASSUME NEW k \in Pools
      PROVE  /\ Cardinality(pool[k]) \in Nat /\ Cap(c, k) \in Nat
             /\ Cardinality(pool[k]) <= Cap(c, k)
  <2>1. pool[k] \subseteq Requests
    BY DEF TInv, TypeOK
  <2>2. Cardinality(pool[k]) \in Nat
    BY <2>1, TierAssumption, FS_Subset, FS_CardinalityType
  <2>3. Cap(c, k) \in Nat
    BY CapNat
  <2>4. CASE pool[k] = {}
    <3>1. Cardinality(pool[k]) = 0
      BY <2>4, FS_EmptySet
    <3> QED BY <2>2, <2>3, <3>1, SMT
  <2>5. CASE pool[k] # {}
    BY <2>2, <2>3, <2>5 DEF OwnCaps
  <2> QED BY <2>2, <2>3, <2>4, <2>5
<1>2. {"priority_floor", "standard_floor", "shared"} \subseteq Pools
  BY DEF Pools
<1>3. /\ Cap(c, "priority_floor") + Cap(c, "standard_floor") = Floors(c)
      /\ Cap(c, "shared") = IF c.cluster > Floors(c) THEN c.cluster - Floors(c) ELSE 0
  BY DEF Cap, Floors
<1>4. Taken \in Nat /\ Taken <= Floors(c) + Cap(c, "shared")
  BY <1>1, <1>2, <1>3, SMT DEF Taken
<1>5. c.cluster \in Nat
  BY TierAssumption DEF Config
<1>6. /\ Floors(c) \in Nat
      /\ Floors(c) <= c.cluster \/ (Floors(c) = c.cluster + 1 /\ FloorsTie(c))
  BY FloorsBound
<1>7. CASE Floors(c) <= c.cluster
  BY <1>3, <1>4, <1>5, <1>6, <1>7, SMT
<1>8. CASE Floors(c) = c.cluster + 1 /\ FloorsTie(c)
  <2>1. Taken <= c.cluster \/ Taken = c.cluster + 1
    BY <1>3, <1>4, <1>5, <1>6, <1>8, SMT
  <2> QED BY <1>8, <2>1
<1> QED BY <1>6, <1>7, <1>8

-----------------------------------------------------------------------------
(* The theorems.                                                           *)

\* The inductive invariant holds throughout every behaviour (TInv).
THEOREM TierInvariant == Spec => []TInv
<1>1. TInv /\ [Next]_vars => TInv'
  <2> SUFFICES ASSUME TInv, [Next]_vars PROVE TInv'
    OBVIOUS
  <2>1. TypeOK'
    BY TypeStep DEF TInv
  <2> QED BY <2>1, PoolsStep, HeldStep, PriorityStep, AdmissionStep, ReleaseStep DEF TInv
<1> QED BY <1>1, InitTInv, PTL DEF Spec

\* No pool takes more members than some settings allow, however many processes with
\* different settings race on it (PoolWithinCap; the one Lua script).
THEOREM Capped == Spec => []PoolWithinCap
<1>1. TInv => PoolWithinCap
  BY DEF TInv
<1> QED BY <1>1, TierInvariant, PTL

\* Any members of a pool are within the cap one of them was admitted against, whatever
\* settings the others and their processes had (OwnCaps).
THEOREM CountedTogether == Spec => []OwnCaps
<1>1. Init => OwnCaps
  BY DEF Init, OwnCaps
<1>2. TInv /\ OwnCaps /\ [Next]_vars => OwnCaps'
  BY OwnCapsStep
<1> QED BY <1>1, <1>2, TierInvariant, PTL DEF Spec

\* Requests admitted under the same settings take no more slots than its cluster cap,
\* but for one when both floors tie (ClusterCapKept; the caps of the constructor).
THEOREM WithinCluster == Spec => []ClusterCapKept
<1>1. TInv /\ OwnCaps => ClusterCapKept
  BY CapsAddUp
<1> QED BY <1>1, TierInvariant, CountedTogether, PTL

\* A request has at most one slot, lost answers included, and the priority floor
\* holds priority requests only (OneSlot).
THEOREM SingleSlot == Spec => []OneSlot
<1>1. TInv => OneSlot
  BY DEF TInv
<1> QED BY <1>1, TierInvariant, PTL

\* A hold a process remembers is a slot in Redis until its TTL (HeldIsSlot).
THEOREM HoldsAreSlots == Spec => []HeldIsSlot
<1>1. TInv => HeldIsSlot
  BY DEF TInv
<1> QED BY <1>1, TierInvariant, PTL

\* Nobody is billed as priority for a slot an outage or the standard floor gave
\* (PriorityEarned).
THEOREM PriorityNeverUnearned == Spec => []PriorityEarned
<1>1. TInv => PriorityEarned
  BY DEF TInv
<1> QED BY <1>1, TierInvariant, PTL

\* A slot leaves its pool by its own release or by age only (SlotsKept).
THEOREM SlotsNeverTaken == Spec => SlotsKept
<1>1. TInv /\ [Next]_vars =>
        [\A k \in Pools : \A r \in pool[k] \ pool'[k] :
            r \in overdue \/ (pc[r] = "releasing" /\ freeing[r] = k)]_vars
  BY Losses
<1> QED BY <1>1, TierInvariant, PTL DEF Spec, SlotsKept
=============================================================================
