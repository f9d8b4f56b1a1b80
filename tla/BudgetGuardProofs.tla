-------------------------- MODULE BudgetGuardProofs --------------------------
(***************************************************************************)
(* The budget of a tenant, for any requests, budget, estimate and costs.   *)
(* BInv is inductive: what a check has not read stands under a live        *)
(* reservation, the script counts every live reservation, so an admission  *)
(* leaves spend and running requests below the budget and one estimate.    *)
(***************************************************************************)
EXTENDS BudgetGuard, FiniteSetTheorems, TLAPS

-----------------------------------------------------------------------------
(* Estimates add up over sets of requests.                                 *)

\* Multiplication distributes over what the lemmas below need.
LEMMA Distributes ==
    ASSUME NEW e \in Nat, NEW a \in Nat, NEW b \in Nat
    PROVE  /\ e * a \in Nat
           /\ e * (a + b) = e * a + e * b
           /\ e * (a - b) = e * a - e * b
           /\ e * (a + 1) = e * a + e
           /\ a <= b => e * a <= e * b
           /\ e * 0 = 0
OBVIOUS

\* Sets of requests are finite, and so is what they hold.
LEMMA WorthType ==
    ASSUME NEW S \in SUBSET Requests
    PROVE  IsFiniteSet(S) /\ Cardinality(S) \in Nat /\ Worth(S) \in Nat
<1>1. IsFiniteSet(S) /\ Cardinality(S) \in Nat
  BY BudgetAssumption, FS_Subset, FS_CardinalityType
<1> QED BY <1>1, BudgetAssumption, Distributes DEF Worth

\* No request, no reservation (the script's empty hash).
LEMMA WorthEmpty == Worth({}) = 0
BY BudgetAssumption, FS_EmptySet, Distributes DEF Worth

\* One more reservation is one more estimate (HSET and INCRBYFLOAT of the script).
LEMMA WorthAdd ==
    ASSUME NEW S \in SUBSET Requests, NEW r \in Requests, r \notin S
    PROVE  Worth(S \cup {r}) = Worth(S) + Estimate
<1>1. Cardinality(S) \in Nat /\ Cardinality(S \cup {r}) = Cardinality(S) + 1
  BY WorthType, FS_AddElement
<1> QED BY <1>1, BudgetAssumption, Distributes DEF Worth

\* One request less is one estimate less.
LEMMA WorthRemove ==
    ASSUME NEW S \in SUBSET Requests, NEW r \in S
    PROVE  Worth(S \ {r}) = Worth(S) - Estimate
<1>1. r \in Requests /\ S \ {r} \in SUBSET Requests /\ r \notin S \ {r} /\ S = (S \ {r}) \cup {r}
  OBVIOUS
<1>2. Worth(S) = Worth(S \ {r}) + Estimate
  BY <1>1, WorthAdd
<1> QED BY <1>1, <1>2, WorthType, BudgetAssumption

\* Dropping some reservations lowers the sum by theirs (the script's eviction).
LEMMA WorthDrop ==
    ASSUME NEW S \in SUBSET Requests, NEW T \in SUBSET S
    PROVE  Worth(S \ T) = Worth(S) - Worth(T) /\ Worth(T) <= Worth(S)
<1>1. T \in SUBSET Requests /\ S \cap T = T /\ IsFiniteSet(S)
  BY WorthType
<1>2. Cardinality(S) \in Nat /\ Cardinality(T) \in Nat
  BY <1>1, WorthType
<1>3. Cardinality(S \ T) = Cardinality(S) - Cardinality(T) /\ Cardinality(T) <= Cardinality(S)
  BY <1>1, FS_Difference, FS_Subset
<1> QED BY <1>2, <1>3, BudgetAssumption, Distributes DEF Worth

\* Requests apart from each other among reservations hold at most theirs.
LEMMA WorthApart ==
    ASSUME NEW S \in SUBSET Requests, NEW A \in SUBSET S, NEW B \in SUBSET S, A \cap B = {}
    PROVE  Worth(A) + Worth(B) <= Worth(S)
<1>1. S \ A \in SUBSET Requests /\ B \in SUBSET (S \ A) /\ A \in SUBSET Requests /\ B \in SUBSET Requests
  OBVIOUS
<1>2. Worth(B) <= Worth(S \ A)
  BY <1>1, WorthDrop
<1>3. Worth(S \ A) = Worth(S) - Worth(A)
  BY WorthDrop
<1> QED BY <1>1, <1>2, <1>3, WorthType

-----------------------------------------------------------------------------
(* What the script does to the two keys.                                   *)

\* After eviction the sum is that of the live reservations.
LEMMA EvictedIsLive ==
    ASSUME BInv
    PROVE  EvictedSum = Worth(holds \ overdue) /\ EvictedSum \in Nat /\ EvictedSum <= sum
<1>1. holds \in SUBSET Requests /\ overdue \in SUBSET holds /\ sum = Worth(holds)
  BY DEF BInv, TypeOK, SumIsHolds
<1>2. Worth(holds \ overdue) = Worth(holds) - Worth(overdue) /\ Worth(overdue) <= Worth(holds)
  BY <1>1, WorthDrop
<1>3. Worth(holds) \in Nat /\ Worth(overdue) \in Nat
  BY <1>1, WorthType
<1> QED BY <1>1, <1>2, <1>3 DEF EvictedSum

\* The script keeps its companion sum exact and bounds it (_CHECK_AND_HOLD_LUA).
LEMMA ScriptKeepsSum ==
    ASSUME BInv, NEW r \in Requests, pc[r] = "read", Script(r)
    PROVE  /\ holds' \in SUBSET Requests /\ overdue' = {} /\ sum' \in Nat
           /\ spent' = spent
           /\ SumIsHolds' /\ ReservationsBounded'
           /\ holds' = IF Admits(r) THEN (holds \ overdue) \cup {r} ELSE holds \ overdue
<1>1. holds \ overdue \in SUBSET Requests /\ r \notin holds \ overdue
  BY DEF BInv, TypeOK, AdmittedHold
<1>2. EvictedSum = Worth(holds \ overdue) /\ EvictedSum \in Nat /\ EvictedSum <= sum
  BY EvictedIsLive
<1>3. seen[r] \in Nat /\ sum \in Nat /\ sum < Budget + Estimate
  BY DEF BInv, TypeOK, ReservationsBounded
<1>4. Worth((holds \ overdue) \cup {r}) = Worth(holds \ overdue) + Estimate
  BY <1>1, WorthAdd
<1>5. Budget \in Nat /\ Estimate \in Nat
  BY BudgetAssumption
<1>6. CASE Admits(r)
  <2>1. holds' = (holds \ overdue) \cup {r} /\ sum' = EvictedSum + Estimate /\ overdue' = {} /\ spent' = spent
    BY <1>6 DEF Script
  <2>2. seen[r] + EvictedSum < Budget
    BY <1>6 DEF Admits
  <2>3. sum' \in Nat /\ sum' < Budget + Estimate
    BY <2>1, <2>2, <1>2, <1>3, <1>5
  <2>4. sum' = Worth(holds')
    BY <2>1, <1>2, <1>4
  <2> QED BY <2>1, <2>3, <2>4, <1>1, <1>6 DEF SumIsHolds, ReservationsBounded, Worth
<1>7. CASE ~Admits(r)
  <2>1. holds' = holds \ overdue /\ sum' = EvictedSum /\ overdue' = {} /\ spent' = spent
    BY <1>7 DEF Script
  <2>2. sum' \in Nat /\ sum' < Budget + Estimate
    BY <2>1, <1>2, <1>3, <1>5
  <2> QED BY <2>1, <2>2, <1>1, <1>2, <1>7 DEF SumIsHolds, ReservationsBounded, Worth
<1> QED BY <1>6, <1>7

-----------------------------------------------------------------------------
(* BInv, one lemma per step that disturbs it.                              *)

\* The steps of a failed call keep every part: what they let slip is excused (fail open).
LEMMA FaultKeeps ==
    ASSUME BInv, slipped' = TRUE, TypeOK', AdmittedHold', SumIsHolds', ReservationsBounded'
    PROVE  BInv'
BY DEF BInv, Covered, BudgetKept

\* Nothing has happened yet.
LEMMA InitB == Init => BInv
<1> SUFFICES ASSUME Init PROVE BInv
  OBVIOUS
<1>1. TypeOK
  <2>0. slipped \in BOOLEAN
    BY DEF Init
  <2>1. faults \in 0..MaxFaults
    BY BudgetAssumption DEF Init
  <2>2. missed \in [Requests -> SUBSET Requests]
    BY DEF Init
  <2> QED BY <2>0, <2>1, <2>2 DEF Init, TypeOK
<1>2. AdmittedHold
  BY DEF Init, AdmittedHold
<1>3. Running = {}
  BY DEF Init, Running
<1>4. Covered
  BY <1>3 DEF Init, Covered
<1>5. SumIsHolds
  BY WorthEmpty DEF Init, SumIsHolds
<1>6. ReservationsBounded
  BY BudgetAssumption DEF Init, ReservationsBounded
<1>7. NeverUndercounts
  BY <1>3, WorthEmpty, BudgetAssumption DEF Init, NeverUndercounts
<1> QED BY <1>1, <1>2, <1>4, <1>5, <1>6, <1>7 DEF BInv, BudgetKept

\* Reading the spend (_fetch_spent): nothing is missed at that moment.
LEMMA FetchSpentB == ASSUME BInv, NEW r \in Requests, FetchSpent(r) PROVE BInv'
<1> USE DEF FetchSpent, Goes, keys, history
<1>1. TypeOK'
  BY DEF BInv, TypeOK
<1>2. AdmittedHold'
  BY DEF BInv, TypeOK, AdmittedHold
<1>3. Running' = Running
  BY DEF BInv, TypeOK, Running
<1>4. missed[r] = {} /\ Worth(missed[r]) = 0
  BY WorthEmpty DEF BInv, TypeOK, AdmittedHold
<1>5. SumIsHolds' /\ ReservationsBounded'
  BY DEF BInv, SumIsHolds, ReservationsBounded, Worth
<1>6. BudgetKept'
  BY <1>3 DEF BInv, BudgetKept, NeverUndercounts, Worth
<1>7. Covered'
  <2> SUFFICES ASSUME ~slipped' PROVE /\ Running' \subseteq holds' \ overdue'
                                      /\ \A q \in Requests : pc'[q] = "read" =>
                                            /\ missed'[q] \subseteq holds' \ overdue'
                                            /\ spent' - excess' <= seen'[q] + Worth(missed[q])
    BY DEF Covered, Worth
  <2>1. Running' \subseteq holds' \ overdue'
    BY <1>3 DEF BInv, Covered
  <2>2. ASSUME NEW q \in Requests, pc'[q] = "read"
        PROVE  missed'[q] \subseteq holds' \ overdue' /\ spent' - excess' <= seen'[q] + Worth(missed[q])
    <3>1. CASE q = r
      <4>1. missed'[r] = {} /\ seen'[r] = spent /\ spent' = spent /\ excess' = excess
        BY <1>4 DEF BInv, TypeOK
      <4>2. spent \in Nat /\ excess \in Nat
        BY DEF BInv, TypeOK
      <4> QED BY <1>4, <3>1, <4>1, <4>2
    <3>2. CASE q # r
      BY <2>2, <3>2 DEF BInv, TypeOK, Covered
    <3> QED BY <3>1, <3>2
  <2> QED BY <2>1, <2>2
<1> QED BY <1>1, <1>2, <1>5, <1>6, <1>7 DEF BInv

\* A read that fails lets the check go on with a spend of 0 (_fetch_spent's except).
LEMMA FetchSpentFailsB == ASSUME BInv, NEW r \in Requests, FetchSpentFails(r) PROVE BInv'
<1> USE DEF FetchSpentFails, Goes, FailsOpen, keys
<1>1. TypeOK'
  BY BudgetAssumption DEF BInv, TypeOK
<1>2. AdmittedHold'
  BY DEF BInv, TypeOK, AdmittedHold
<1>3. SumIsHolds' /\ ReservationsBounded' /\ slipped' = TRUE
  BY DEF BInv, SumIsHolds, ReservationsBounded, Worth
<1> QED BY <1>1, <1>2, <1>3, FaultKeeps

\* A budget that cannot be read lets the request run (check's except).
LEMMA FetchBudgetFailsB == ASSUME BInv, NEW r \in Requests, FetchBudgetFails(r) PROVE BInv'
<1> USE DEF FetchBudgetFails, Goes, FailsOpen, keys
<1>1. TypeOK'
  BY BudgetAssumption DEF BInv, TypeOK
<1>2. AdmittedHold'
  BY DEF BInv, TypeOK, AdmittedHold
<1>3. SumIsHolds' /\ ReservationsBounded' /\ slipped' = TRUE
  BY DEF BInv, SumIsHolds, ReservationsBounded, Worth
<1> QED BY <1>1, <1>2, <1>3, FaultKeeps

\* A script whose call fails did all of it or nothing (check's except).
LEMMA ReserveFailsB == ASSUME BInv, NEW r \in Requests, ReserveFails(r) PROVE BInv'
<1> USE DEF ReserveFails, Goes, FailsOpen
<1>1. holds' \in SUBSET Requests /\ overdue' \subseteq holds' /\ sum' \in Nat /\ spent' = spent
  BY ScriptKeepsSum DEF BInv, TypeOK, keys
<1>2. SumIsHolds' /\ ReservationsBounded'
  BY ScriptKeepsSum DEF BInv, SumIsHolds, ReservationsBounded, Worth, keys
<1>3. holds' \subseteq holds \cup {r}
  BY ScriptKeepsSum DEF keys
<1>4. TypeOK'
  BY <1>1, BudgetAssumption DEF BInv, TypeOK
<1>5. AdmittedHold'
  BY <1>3 DEF BInv, TypeOK, AdmittedHold
<1> QED BY <1>2, <1>4, <1>5, FaultKeeps

\* The check's verdict (_check_and_reserve): an admission counts every live reservation.
LEMMA CheckAndReserveB == ASSUME BInv, NEW r \in Requests, CheckAndReserve(r) PROVE BInv'
<1> DEFINE live == holds \ overdue
<1>1. pc[r] = "read" /\ Script(r) /\ UNCHANGED <<seen, excess, missed, slipped, faults>>
  BY DEF CheckAndReserve, Goes, history
<1>2. /\ holds' \in SUBSET Requests /\ overdue' = {} /\ sum' \in Nat /\ spent' = spent
      /\ SumIsHolds' /\ ReservationsBounded'
      /\ holds' = IF Admits(r) THEN live \cup {r} ELSE live
  BY <1>1, ScriptKeepsSum
<1>3. /\ pc' \in [Requests -> {"new", "read", "running", "denied", "counted"}]
      /\ pc'[r] = IF Admits(r) THEN "running" ELSE "denied"
      /\ \A q \in Requests : q # r => pc'[q] = pc[q]
  BY DEF CheckAndReserve, Goes, BInv, TypeOK
<1>4. TypeOK'
  BY <1>1, <1>2, <1>3 DEF BInv, TypeOK
<1>5. AdmittedHold'
  BY <1>1, <1>2, <1>3 DEF BInv, TypeOK, AdmittedHold
<1>6. Running' = IF Admits(r) THEN Running \cup {r} ELSE Running
  BY <1>1, <1>3 DEF Running
<1>7. r \notin Running /\ Running \in SUBSET Requests
  BY <1>1 DEF Running
<1>8. Covered'
  <2> SUFFICES ASSUME ~slipped PROVE /\ Running' \subseteq holds' \ overdue'
                                     /\ \A q \in Requests : pc'[q] = "read" =>
                                           /\ missed[q] \subseteq holds' \ overdue'
                                           /\ spent' - excess <= seen[q] + Worth(missed[q])
    BY <1>1 DEF Covered, Worth
  <2>1. Running' \subseteq holds' \ overdue'
    BY <1>2, <1>6 DEF BInv, Covered
  <2>2. ASSUME NEW q \in Requests, pc'[q] = "read"
        PROVE  missed[q] \subseteq holds' \ overdue' /\ spent' - excess <= seen[q] + Worth(missed[q])
    BY <1>2, <1>3, <2>2 DEF BInv, Covered
  <2> QED BY <2>1, <2>2
<1>9. BudgetKept'
  <2> SUFFICES ASSUME ~slipped PROVE spent' - excess' + Worth(Running') < Budget + Estimate
    BY <1>1 DEF BudgetKept, NeverUndercounts, Worth
  <2>1. spent - excess + Worth(Running) < Budget + Estimate
    BY DEF BInv, BudgetKept, NeverUndercounts
  <2>2. CASE ~Admits(r)
    BY <1>1, <1>2, <1>6, <2>1, <2>2
  <2>3. CASE Admits(r)
    <3>1. seen[r] + Worth(live) < Budget
      BY <2>3, EvictedIsLive DEF Admits
    <3>2. Running \in SUBSET live /\ missed[r] \in SUBSET live /\ live \in SUBSET Requests
      BY <1>1 DEF BInv, TypeOK, Covered
    <3>3. spent - excess <= seen[r] + Worth(missed[r])
      BY <1>1 DEF BInv, Covered
    <3>4. Running \cap missed[r] = {}
      BY DEF BInv, AdmittedHold, Running
    <3>5. Worth(missed[r]) + Worth(Running) <= Worth(live)
      BY <3>2, <3>4, WorthApart
    <3>6. Worth(Running') = Worth(Running) + Estimate
      BY <1>6, <1>7, <2>3, WorthAdd
    <3>7. Worth(missed[r]) \in Nat /\ Worth(Running) \in Nat /\ Worth(live) \in Nat
      BY <1>7, <3>2, WorthType DEF BInv, TypeOK
    <3>8. spent \in Nat /\ excess \in Nat /\ seen[r] \in Nat /\ Budget \in Nat /\ Estimate \in Nat
      BY BudgetAssumption DEF BInv, TypeOK
    <3> HIDE DEF live
    <3>9. spent - excess + Worth(Running) < Budget
      BY <3>1, <3>3, <3>5, <3>7, <3>8
    <3>10. spent - excess + (Worth(Running) + Estimate) < Budget + Estimate
      BY <3>7, <3>8, <3>9
    <3> QED BY <1>1, <1>2, <3>6, <3>10
  <2> QED BY <2>2, <2>3
<1> QED BY <1>2, <1>4, <1>5, <1>8, <1>9 DEF BInv

\* A cost reaches the counter: the reservation it stood under was an estimate of it.
LEMMA CountB == ASSUME BInv, NEW r \in Requests, Count(r) PROVE BInv'
<1> PICK c \in Costs : /\ spent' = spent + c
                       /\ excess' = IF c > Estimate THEN excess + (c - Estimate) ELSE excess
  BY DEF Count
<1>1. /\ pc[r] = "running" /\ UNCHANGED <<seen, holds, overdue, sum, slipped, faults>>
      /\ missed' = [q \in Requests |-> IF pc[q] = "read" THEN missed[q] \cup {r} ELSE missed[q]]
  BY DEF Count, Goes
<1>2. /\ pc' \in [Requests -> {"new", "read", "running", "denied", "counted"}]
      /\ pc'[r] = "counted"
      /\ \A q \in Requests : q # r => pc'[q] = pc[q]
  BY DEF Count, Goes, BInv, TypeOK
<1>3. c \in Nat /\ spent \in Nat /\ excess \in Nat /\ Estimate \in Nat /\ Budget \in Nat
  BY BudgetAssumption DEF BInv, TypeOK
<1>4. spent' \in Nat /\ excess' \in Nat /\ spent' - excess' <= spent - excess + Estimate
  BY <1>3
<1>5. TypeOK'
  BY <1>1, <1>2, <1>4 DEF BInv, TypeOK
<1>6. AdmittedHold'
  BY <1>1, <1>2 DEF BInv, TypeOK, AdmittedHold
<1>7. SumIsHolds' /\ ReservationsBounded'
  BY <1>1 DEF BInv, SumIsHolds, ReservationsBounded, Worth
<1>8. Running' = Running \ {r} /\ r \in Running /\ Running \in SUBSET Requests
  BY <1>1, <1>2 DEF Running
<1>9. Covered'
  <2> SUFFICES ASSUME ~slipped PROVE /\ Running' \subseteq holds \ overdue
                                     /\ \A q \in Requests : pc'[q] = "read" =>
                                           /\ missed'[q] \subseteq holds \ overdue
                                           /\ spent' - excess' <= seen[q] + Worth(missed'[q])
    BY <1>1 DEF Covered, Worth
  <2>1. Running' \subseteq holds \ overdue
    BY <1>8 DEF BInv, Covered
  <2>2. ASSUME NEW q \in Requests, pc'[q] = "read"
        PROVE  missed'[q] \subseteq holds \ overdue /\ spent' - excess' <= seen[q] + Worth(missed'[q])
    <3>1. pc[q] = "read"
      BY <1>2, <2>2
    <3>2. missed'[q] = missed[q] \cup {r} /\ missed[q] \in SUBSET Requests /\ r \notin missed[q]
      BY <1>1, <3>1 DEF BInv, TypeOK, AdmittedHold
    <3>3. missed[q] \subseteq holds \ overdue /\ r \in holds \ overdue
      BY <1>8, <3>1 DEF BInv, Covered
    <3>4. spent - excess <= seen[q] + Worth(missed[q])
      BY <3>1 DEF BInv, Covered
    <3>5. Worth(missed[q] \cup {r}) = Worth(missed[q]) + Estimate /\ Worth(missed[q]) \in Nat
      BY <3>2, WorthAdd, WorthType
    <3>6. seen[q] \in Nat
      BY DEF BInv, TypeOK
    <3>7. spent' - excess' <= seen[q] + (Worth(missed[q]) + Estimate)
      BY <1>3, <1>4, <3>4, <3>5, <3>6
    <3> QED BY <3>2, <3>3, <3>5, <3>7
  <2> QED BY <2>1, <2>2
<1>10. BudgetKept'
  <2> SUFFICES ASSUME ~slipped PROVE spent' - excess' + Worth(Running') < Budget + Estimate
    BY <1>1 DEF BudgetKept, NeverUndercounts, Worth
  <2>1. spent - excess + Worth(Running) < Budget + Estimate
    BY DEF BInv, BudgetKept, NeverUndercounts
  <2>2. Worth(Running') = Worth(Running) - Estimate /\ Worth(Running) \in Nat
    BY <1>8, WorthRemove, WorthType
  <2>3. spent' - excess' + (Worth(Running) - Estimate) < Budget + Estimate
    BY <1>3, <1>4, <2>1, <2>2
  <2> QED BY <2>2, <2>3
<1> QED BY <1>5, <1>6, <1>7, <1>9, <1>10 DEF BInv

\* A counter that is not moved is a failed call (recorder).
LEMMA CountFailsB == ASSUME BInv, NEW r \in Requests, CountFails(r) PROVE BInv'
<1> USE DEF CountFails, Goes, FailsOpen, keys
<1>1. TypeOK'
  BY BudgetAssumption DEF BInv, TypeOK
<1>2. AdmittedHold'
  BY DEF BInv, TypeOK, AdmittedHold
<1>3. SumIsHolds' /\ ReservationsBounded' /\ slipped' = TRUE
  BY DEF BInv, SumIsHolds, ReservationsBounded, Worth
<1> QED BY <1>1, <1>2, <1>3, FaultKeeps

\* A reservation ages: either its cost is in every reading, or it has slipped.
LEMMA TtlPassesB == ASSUME BInv, NEW r \in Requests, TtlPasses(r) PROVE BInv'
<1> USE DEF TtlPasses
<1>1. slipped' \in BOOLEAN /\ (~slipped' => ~slipped)
  BY DEF BInv, TypeOK
<1>2. TypeOK'
  BY <1>1 DEF BInv, TypeOK
<1>3. AdmittedHold'
  BY DEF BInv, AdmittedHold
<1>4. SumIsHolds' /\ ReservationsBounded'
  BY DEF BInv, SumIsHolds, ReservationsBounded, Worth
<1>5. Running' = Running
  BY DEF Running
<1>6. Covered'
  <2> SUFFICES ASSUME ~slipped' PROVE /\ Running \subseteq holds \ overdue'
                                      /\ \A q \in Requests : pc[q] = "read" =>
                                            /\ missed[q] \subseteq holds \ overdue'
                                            /\ spent - excess <= seen[q] + Worth(missed[q])
    BY <1>5 DEF Covered, Worth
  <2>1. pc[r] # "running" /\ \A q \in Requests : pc[q] = "read" => r \notin missed[q]
    OBVIOUS
  <2> QED BY <1>1, <2>1 DEF BInv, Covered, Running
<1>7. BudgetKept'
  BY <1>1, <1>5 DEF BInv, BudgetKept, NeverUndercounts, Worth
<1> QED BY <1>2, <1>3, <1>4, <1>6, <1>7 DEF BInv

\* The keys expire when all that is in them has (EXPIRE of the script).
LEMMA KeysExpireB == ASSUME BInv, KeysExpire PROVE BInv'
<1> USE DEF KeysExpire, history
<1>1. TypeOK'
  BY DEF BInv, TypeOK
<1>2. AdmittedHold'
  BY DEF BInv, AdmittedHold
<1>3. SumIsHolds'
  <2>1. Worth({}) = 0
    BY WorthEmpty
  <2> QED BY <2>1 DEF SumIsHolds, Worth
<1>4. ReservationsBounded'
  BY BudgetAssumption DEF ReservationsBounded
<1>5. Running' = Running /\ holds' \ overdue' = holds \ overdue
  BY DEF Running
<1>6. Covered'
  BY <1>5 DEF BInv, Covered, Worth
<1>7. BudgetKept'
  BY <1>5 DEF BInv, BudgetKept, NeverUndercounts, Worth
<1> QED BY <1>1, <1>2, <1>3, <1>4, <1>6, <1>7 DEF BInv

\* A step that changes nothing.
LEMMA StutterB == ASSUME BInv, UNCHANGED vars PROVE BInv'
<1> USE DEF vars, keys, history
<1>1. TypeOK' /\ AdmittedHold' /\ SumIsHolds' /\ ReservationsBounded'
  BY DEF BInv, TypeOK, AdmittedHold, SumIsHolds, ReservationsBounded, Worth
<1>2. Running' = Running
  BY DEF Running
<1>3. Covered' /\ BudgetKept'
  BY <1>2 DEF BInv, Covered, BudgetKept, NeverUndercounts, Worth
<1> QED BY <1>1, <1>3 DEF BInv

-----------------------------------------------------------------------------
(* The theorems.                                                           *)

\* BInv holds of every check, count and expiry (RedisBudgetGuard).
THEOREM BudgetInvariant == Spec => []BInv
<1>1. Init => BInv
  BY InitB
<1>2. BInv /\ [Next]_vars => BInv'
  <2> SUFFICES ASSUME BInv, [Next]_vars PROVE BInv'
    OBVIOUS
  <2>1. ASSUME NEW r \in Requests, FetchSpent(r) PROVE BInv'
    BY <2>1, FetchSpentB
  <2>2. ASSUME NEW r \in Requests, FetchSpentFails(r) PROVE BInv'
    BY <2>2, FetchSpentFailsB
  <2>3. ASSUME NEW r \in Requests, FetchBudgetFails(r) PROVE BInv'
    BY <2>3, FetchBudgetFailsB
  <2>4. ASSUME NEW r \in Requests, CheckAndReserve(r) PROVE BInv'
    BY <2>4, CheckAndReserveB
  <2>5. ASSUME NEW r \in Requests, ReserveFails(r) PROVE BInv'
    BY <2>5, ReserveFailsB
  <2>6. ASSUME NEW r \in Requests, Count(r) PROVE BInv'
    BY <2>6, CountB
  <2>7. ASSUME NEW r \in Requests, CountFails(r) PROVE BInv'
    BY <2>7, CountFailsB
  <2>8. ASSUME NEW r \in Requests, TtlPasses(r) PROVE BInv'
    BY <2>8, TtlPassesB
  <2> QED BY <2>1, <2>2, <2>3, <2>4, <2>5, <2>6, <2>7, <2>8, KeysExpireB, StutterB DEF Next
<1> QED BY <1>1, <1>2, PTL DEF Spec

\* However many checks race, reservations pass the budget by less than one estimate
\* (the overshoot _CHECK_AND_HOLD_LUA closes).
THEOREM RaceClosed == Spec => []ReservationsBounded
<1>1. BInv => ReservationsBounded
  BY DEF BInv
<1> QED BY <1>1, BudgetInvariant, PTL

\* With no failed call and no reservation aged too early, the spend and the running
\* requests pass the budget by less than one estimate and their overruns.
THEOREM KeptWithinBudget == Spec => []BudgetKept
<1>1. BInv => BudgetKept
  BY DEF BInv
<1> QED BY <1>1, BudgetInvariant, PTL

=============================================================================
