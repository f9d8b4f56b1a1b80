-------------------------- MODULE VectorIngestProofs --------------------------
(***************************************************************************)
(* Proofs about VectorIngest, for every number of tenants, stores, rows,   *)
(* drivers, calls and faults.                                              *)
(***************************************************************************)
EXTENDS VectorIngest, FiniteSetTheorems, TLAPS

-----------------------------------------------------------------------------
\* Every action keeps the types.
LEMMA TypeOKStep ==
    ASSUME TypeOK, DriversHold, Next
    PROVE  TypeOK'
<1> USE IngestAssumption DEF TypeOK, DriversHold, Fails, OrNot, Push, Pop, Takes, Goes, Leaves, Idle, Tasks, Unlocks, bounds, driverVars, storeVars, Stages, Statuses, Owner
<1>1. ASSUME NEW d \in Drivers, NEW r \in Rows, Attach(d, r) PROVE TypeOK'
    BY <1>1 DEF Attach
<1>2. ASSUME NEW d \in Drivers, Enqueue(d) PROVE TypeOK'
    BY <1>2 DEF Enqueue
<1>3. ASSUME NEW d \in Drivers, EnqueueFails(d) PROVE TypeOK'
    BY <1>3 DEF EnqueueFails
<1>4. ASSUME NEW t \in Tenants, PutZdr(t) PROVE TypeOK'
    BY <1>4 DEF PutZdr
<1>5. ASSUME NEW s \in Stores, DeleteStore(s) PROVE TypeOK'
    BY <1>5 DEF DeleteStore
<1>6. ASSUME NEW t \in Tenants, Sweep(t) PROVE TypeOK'
    BY <1>6 DEF Sweep
<1>7. ASSUME NEW d \in Drivers, NEW r \in Rows, Claim(d, r) PROVE TypeOK'
    BY <1>7 DEF Claim
<1>8. ASSUME NEW d \in Drivers, Load(d) PROVE TypeOK'
    BY <1>8 DEF Load, Drives
<1>9. ASSUME NEW d \in Drivers, Gate(d) PROVE TypeOK'
    BY <1>9 DEF Gate, Drives
<1>10. ASSUME NEW d \in Drivers, Read(d) PROVE TypeOK'
    BY <1>10 DEF Read, Drives
<1>11. ASSUME NEW d \in Drivers, Embed(d) PROVE TypeOK'
    BY <1>11 DEF Embed, Drives
<1>12. ASSUME NEW d \in Drivers, LockTenant(d) PROVE TypeOK'
    BY <1>12 DEF LockTenant, Drives
<1>13. ASSUME NEW d \in Drivers, Finalize(d) PROVE TypeOK'
    BY <1>13 DEF Finalize, FinalizeCompleted, Outcome, Finalizable
<1>14. ASSUME NEW d \in Drivers, Fail(d) PROVE TypeOK'
    BY <1>14 DEF Fail, SetFailed
<1>15. ASSUME NEW d \in Drivers, Record(d) PROVE TypeOK'
    BY <1>15 DEF Record
<1>16. ASSUME NEW d \in Drivers, RecordFails(d) PROVE TypeOK'
    BY <1>16 DEF RecordFails
<1>17. ASSUME NEW d \in Drivers, DriveFails(d) PROVE TypeOK'
    BY <1>17 DEF DriveFails, SetFailed, FinalizeCompleted, Finalizable
<1>18. ASSUME NEW p \in Processes, Crash(p) PROVE TypeOK'
    BY <1>18 DEF Crash
<1>19. ASSUME NEW p \in Processes, Restart(p) PROVE TypeOK'
    BY <1>19 DEF Restart, Enqueues, Orphans
<1>20. ASSUME NEW p \in Processes, RestartFails(p) PROVE TypeOK'
    BY <1>20 DEF RestartFails, Enqueues, Orphans
<1>21. ASSUME NEW d \in Drivers, NEW r \in Rows, AttachUnacknowledged(d, r) PROVE TypeOK'
    BY <1>21 DEF AttachUnacknowledged
<1> QED
    BY <1>1, <1>2, <1>3, <1>4, <1>5, <1>6, <1>7, <1>8, <1>9, <1>10,
       <1>11, <1>12, <1>13, <1>14, <1>15, <1>16, <1>17, <1>18, <1>19, <1>20, <1>21 DEF Next, Drive

\* A driver keeps the lock from the second check to its commit, and no PUT runs meanwhile.
LEMMA DriversHoldStep ==
    ASSUME TypeOK, DriversHold, Next
    PROVE  DriversHold'
<1> USE IngestAssumption DEF TypeOK, DriversHold, Fails, OrNot, Push, Pop, Takes, Goes, Leaves, Idle, Tasks, Unlocks, bounds, driverVars, storeVars, Owner
<1>1. ASSUME NEW d \in Drivers, NEW r \in Rows, Attach(d, r) PROVE DriversHold'
    BY <1>1 DEF Attach
<1>2. ASSUME NEW d \in Drivers, Enqueue(d) PROVE DriversHold'
    BY <1>2 DEF Enqueue
<1>3. ASSUME NEW d \in Drivers, EnqueueFails(d) PROVE DriversHold'
    BY <1>3 DEF EnqueueFails
<1>4. ASSUME NEW t \in Tenants, PutZdr(t) PROVE DriversHold'
    BY <1>4 DEF PutZdr
<1>5. ASSUME NEW s \in Stores, DeleteStore(s) PROVE DriversHold'
    BY <1>5 DEF DeleteStore
<1>6. ASSUME NEW t \in Tenants, Sweep(t) PROVE DriversHold'
    BY <1>6 DEF Sweep
<1>7. ASSUME NEW d \in Drivers, NEW r \in Rows, Claim(d, r) PROVE DriversHold'
    BY <1>7 DEF Claim
<1>8. ASSUME NEW d \in Drivers, Load(d) PROVE DriversHold'
    BY <1>8 DEF Load, Drives
<1>9. ASSUME NEW d \in Drivers, Gate(d) PROVE DriversHold'
    BY <1>9 DEF Gate, Drives
<1>10. ASSUME NEW d \in Drivers, Read(d) PROVE DriversHold'
    BY <1>10 DEF Read, Drives
<1>11. ASSUME NEW d \in Drivers, Embed(d) PROVE DriversHold'
    BY <1>11 DEF Embed, Drives
<1>12. ASSUME NEW d \in Drivers, LockTenant(d) PROVE DriversHold'
    BY <1>12 DEF LockTenant, Drives
<1>13. ASSUME NEW d \in Drivers, Finalize(d) PROVE DriversHold'
    BY <1>13 DEF Finalize, FinalizeCompleted, Outcome, Finalizable
<1>14. ASSUME NEW d \in Drivers, Fail(d) PROVE DriversHold'
    BY <1>14 DEF Fail, SetFailed
<1>15. ASSUME NEW d \in Drivers, Record(d) PROVE DriversHold'
    BY <1>15 DEF Record
<1>16. ASSUME NEW d \in Drivers, RecordFails(d) PROVE DriversHold'
    BY <1>16 DEF RecordFails
<1>17. ASSUME NEW d \in Drivers, DriveFails(d) PROVE DriversHold'
    BY <1>17 DEF DriveFails, SetFailed, FinalizeCompleted, Finalizable
<1>18. ASSUME NEW p \in Processes, Crash(p) PROVE DriversHold'
    BY <1>18 DEF Crash
<1>19. ASSUME NEW p \in Processes, Restart(p) PROVE DriversHold'
    BY <1>19 DEF Restart, Enqueues, Orphans
<1>20. ASSUME NEW p \in Processes, RestartFails(p) PROVE DriversHold'
    BY <1>20 DEF RestartFails, Enqueues, Orphans
<1>21. ASSUME NEW d \in Drivers, NEW r \in Rows, AttachUnacknowledged(d, r) PROVE DriversHold'
    BY <1>21 DEF AttachUnacknowledged
<1> QED
    BY <1>1, <1>2, <1>3, <1>4, <1>5, <1>6, <1>7, <1>8, <1>9, <1>10,
       <1>11, <1>12, <1>13, <1>14, <1>15, <1>16, <1>17, <1>18, <1>19, <1>20, <1>21 DEF Next, Drive

\* The chunks of a row change with its status, in one transaction.
LEMMA ChunksStep ==
    ASSUME TypeOK, DriversHold, ChunksMatchStatus, BillsLeft, Next
    PROVE  ChunksMatchStatus'
<1> USE IngestAssumption DEF TypeOK, DriversHold, ChunksMatchStatus, BillsLeft, Fails, OrNot, Push, Pop, Takes, Goes, Leaves, Idle, Tasks, Unlocks, bounds, driverVars, storeVars, Owner
<1>1. ASSUME NEW d \in Drivers, NEW r \in Rows, Attach(d, r) PROVE ChunksMatchStatus'
    BY <1>1 DEF Attach
<1>2. ASSUME NEW d \in Drivers, Enqueue(d) PROVE ChunksMatchStatus'
    BY <1>2 DEF Enqueue
<1>3. ASSUME NEW d \in Drivers, EnqueueFails(d) PROVE ChunksMatchStatus'
    BY <1>3 DEF EnqueueFails
<1>4. ASSUME NEW t \in Tenants, PutZdr(t) PROVE ChunksMatchStatus'
    BY <1>4 DEF PutZdr
<1>5. ASSUME NEW s \in Stores, DeleteStore(s) PROVE ChunksMatchStatus'
    <2> SUFFICES ASSUME NEW q \in Rows PROVE chunks'[q] = IF status'[q] = "completed" THEN 1 ELSE 0
        BY DEF ChunksMatchStatus
    <2>1. CASE StoreOf[q] = s
        <3>1. chunks'[q] = 0 BY <1>5, <2>1 DEF DeleteStore
        <3>2. status'[q] = None BY <1>5, <2>1 DEF DeleteStore
        <3> QED BY <3>1, <3>2 DEF Statuses
    <2>2. CASE StoreOf[q] # s
        <3>1. chunks'[q] = chunks[q] BY <1>5, <2>2 DEF DeleteStore
        <3>2. status'[q] = status[q] BY <1>5, <2>2 DEF DeleteStore
        <3> QED BY <3>1, <3>2
    <2> QED BY <2>1, <2>2
<1>6. ASSUME NEW t \in Tenants, Sweep(t) PROVE ChunksMatchStatus'
    BY <1>6 DEF Sweep
<1>7. ASSUME NEW d \in Drivers, NEW r \in Rows, Claim(d, r) PROVE ChunksMatchStatus'
    BY <1>7 DEF Claim
<1>8. ASSUME NEW d \in Drivers, Load(d) PROVE ChunksMatchStatus'
    BY <1>8 DEF Load, Drives
<1>9. ASSUME NEW d \in Drivers, Gate(d) PROVE ChunksMatchStatus'
    BY <1>9 DEF Gate, Drives
<1>10. ASSUME NEW d \in Drivers, Read(d) PROVE ChunksMatchStatus'
    BY <1>10 DEF Read, Drives
<1>11. ASSUME NEW d \in Drivers, Embed(d) PROVE ChunksMatchStatus'
    BY <1>11 DEF Embed, Drives
<1>12. ASSUME NEW d \in Drivers, LockTenant(d) PROVE ChunksMatchStatus'
    BY <1>12 DEF LockTenant, Drives
<1>13. ASSUME NEW d \in Drivers, Finalize(d) PROVE ChunksMatchStatus'
    BY <1>13 DEF Finalize, FinalizeCompleted, Outcome, Finalizable
<1>14. ASSUME NEW d \in Drivers, Fail(d) PROVE ChunksMatchStatus'
    BY <1>14 DEF Fail, SetFailed
<1>15. ASSUME NEW d \in Drivers, Record(d) PROVE ChunksMatchStatus'
    BY <1>15 DEF Record
<1>16. ASSUME NEW d \in Drivers, RecordFails(d) PROVE ChunksMatchStatus'
    BY <1>16 DEF RecordFails
<1>17. ASSUME NEW d \in Drivers, DriveFails(d) PROVE ChunksMatchStatus'
    BY <1>17 DEF DriveFails, SetFailed, FinalizeCompleted, Finalizable
<1>18. ASSUME NEW p \in Processes, Crash(p) PROVE ChunksMatchStatus'
    BY <1>18 DEF Crash
<1>19. ASSUME NEW p \in Processes, Restart(p) PROVE ChunksMatchStatus'
    BY <1>19 DEF Restart, Enqueues, Orphans
<1>20. ASSUME NEW p \in Processes, RestartFails(p) PROVE ChunksMatchStatus'
    BY <1>20 DEF RestartFails, Enqueues, Orphans
<1>21. ASSUME NEW d \in Drivers, NEW r \in Rows, AttachUnacknowledged(d, r) PROVE ChunksMatchStatus'
    BY <1>21 DEF AttachUnacknowledged, Statuses
<1> QED
    BY <1>1, <1>2, <1>3, <1>4, <1>5, <1>6, <1>7, <1>8, <1>9, <1>10,
       <1>11, <1>12, <1>13, <1>14, <1>15, <1>16, <1>17, <1>18, <1>19, <1>20, <1>21 DEF Next, Drive

\* Only the drive that completed a row bills it.
LEMMA BilledOnceStep ==
    ASSUME TypeOK, DriversHold, BilledOnce, BillsLeft, Next
    PROVE  BilledOnce'
<1> USE IngestAssumption DEF TypeOK, DriversHold, BilledOnce, BillsLeft, Recording, Fails, OrNot, Push, Pop, Takes, Goes, Leaves, Idle, Tasks, Unlocks, bounds, driverVars, storeVars, Owner, Statuses
<1>1. ASSUME NEW d \in Drivers, NEW r \in Rows, Attach(d, r) PROVE BilledOnce'
    BY <1>1 DEF Attach
<1>2. ASSUME NEW d \in Drivers, Enqueue(d) PROVE BilledOnce'
    BY <1>2 DEF Enqueue
<1>3. ASSUME NEW d \in Drivers, EnqueueFails(d) PROVE BilledOnce'
    BY <1>3 DEF EnqueueFails
<1>4. ASSUME NEW t \in Tenants, PutZdr(t) PROVE BilledOnce'
    BY <1>4 DEF PutZdr
<1>5. ASSUME NEW s \in Stores, DeleteStore(s) PROVE BilledOnce'
    BY <1>5 DEF DeleteStore
<1>6. ASSUME NEW t \in Tenants, Sweep(t) PROVE BilledOnce'
    BY <1>6 DEF Sweep
<1>7. ASSUME NEW d \in Drivers, NEW r \in Rows, Claim(d, r) PROVE BilledOnce'
    BY <1>7 DEF Claim
<1>8. ASSUME NEW d \in Drivers, Load(d) PROVE BilledOnce'
    BY <1>8 DEF Load, Drives
<1>9. ASSUME NEW d \in Drivers, Gate(d) PROVE BilledOnce'
    BY <1>9 DEF Gate, Drives
<1>10. ASSUME NEW d \in Drivers, Read(d) PROVE BilledOnce'
    BY <1>10 DEF Read, Drives
<1>11. ASSUME NEW d \in Drivers, Embed(d) PROVE BilledOnce'
    BY <1>11 DEF Embed, Drives
<1>12. ASSUME NEW d \in Drivers, LockTenant(d) PROVE BilledOnce'
    BY <1>12 DEF LockTenant, Drives
<1>13. ASSUME NEW d \in Drivers, Finalize(d) PROVE BilledOnce'
    BY <1>13 DEF Finalize, FinalizeCompleted, Outcome, Finalizable
<1>14. ASSUME NEW d \in Drivers, Fail(d) PROVE BilledOnce'
    BY <1>14 DEF Fail, SetFailed
<1>15. ASSUME NEW d \in Drivers, Record(d) PROVE BilledOnce'
    BY <1>15 DEF Record
<1>16. ASSUME NEW d \in Drivers, RecordFails(d) PROVE BilledOnce'
    BY <1>16 DEF RecordFails
<1>17. ASSUME NEW d \in Drivers, DriveFails(d) PROVE BilledOnce'
    BY <1>17 DEF DriveFails, SetFailed, FinalizeCompleted, Finalizable
<1>18. ASSUME NEW p \in Processes, Crash(p) PROVE BilledOnce'
    BY <1>18 DEF Crash
<1>19. ASSUME NEW p \in Processes, Restart(p) PROVE BilledOnce'
    BY <1>19 DEF Restart, Enqueues, Orphans
<1>20. ASSUME NEW p \in Processes, RestartFails(p) PROVE BilledOnce'
    BY <1>20 DEF RestartFails, Enqueues, Orphans
<1>21. ASSUME NEW d \in Drivers, NEW r \in Rows, AttachUnacknowledged(d, r) PROVE BilledOnce'
    BY <1>21 DEF AttachUnacknowledged
<1> QED
    BY <1>1, <1>2, <1>3, <1>4, <1>5, <1>6, <1>7, <1>8, <1>9, <1>10,
       <1>11, <1>12, <1>13, <1>14, <1>15, <1>16, <1>17, <1>18, <1>19, <1>20, <1>21 DEF Next, Drive

\* A row is completed by one drive, which alone is left to bill it.
LEMMA BillsLeftStep ==
    ASSUME TypeOK, DriversHold, BilledOnce, BillsLeft, Next
    PROVE  BillsLeft'
<1> USE IngestAssumption DEF TypeOK, DriversHold, BilledOnce, BillsLeft, Recording, Fails, OrNot, Push, Pop, Takes, Goes, Leaves, Idle, Tasks, Unlocks, bounds, driverVars, storeVars, Owner, Statuses
<1>1. ASSUME NEW d \in Drivers, NEW r \in Rows, Attach(d, r) PROVE BillsLeft'
    BY <1>1 DEF Attach
<1>2. ASSUME NEW d \in Drivers, Enqueue(d) PROVE BillsLeft'
    BY <1>2 DEF Enqueue
<1>3. ASSUME NEW d \in Drivers, EnqueueFails(d) PROVE BillsLeft'
    BY <1>3 DEF EnqueueFails
<1>4. ASSUME NEW t \in Tenants, PutZdr(t) PROVE BillsLeft'
    BY <1>4 DEF PutZdr
<1>5. ASSUME NEW s \in Stores, DeleteStore(s) PROVE BillsLeft'
    BY <1>5 DEF DeleteStore
<1>6. ASSUME NEW t \in Tenants, Sweep(t) PROVE BillsLeft'
    BY <1>6 DEF Sweep
<1>7. ASSUME NEW d \in Drivers, NEW r \in Rows, Claim(d, r) PROVE BillsLeft'
    BY <1>7 DEF Claim
<1>8. ASSUME NEW d \in Drivers, Load(d) PROVE BillsLeft'
    BY <1>8 DEF Load, Drives
<1>9. ASSUME NEW d \in Drivers, Gate(d) PROVE BillsLeft'
    BY <1>9 DEF Gate, Drives
<1>10. ASSUME NEW d \in Drivers, Read(d) PROVE BillsLeft'
    <2>1. status' = status /\ stores' = stores /\ billed' = billed
        BY <1>10 DEF Read, Drives
    <2>2. \A r \in Rows : Recording(r)' = Recording(r)
        BY <1>10 DEF Read, Drives
    <2> QED BY <2>1, <2>2
<1>11. ASSUME NEW d \in Drivers, Embed(d) PROVE BillsLeft'
    BY <1>11 DEF Embed, Drives
<1>12. ASSUME NEW d \in Drivers, LockTenant(d) PROVE BillsLeft'
    BY <1>12 DEF LockTenant, Drives
<1>13. ASSUME NEW d \in Drivers, Finalize(d) PROVE BillsLeft'
    <2>0. PICK q \in Rows : q = row[d]
        BY <1>13 DEF Finalize
    <2> DEFINE B(r) == /\ \A e, f \in Recording(r) : e = f
                       /\ Recording(r) # {} => billed[r] = 0
                       /\ StoreOf[r] \in stores /\ status[r] # "completed" => Recording(r) = {}
                       /\ StoreOf[r] \notin stores => status[r] = None
    <2>1. q \in Rows /\ stores' = stores /\ billed' = billed
        BY <1>13, <2>0 DEF Finalize, FinalizeCompleted
    <2>2. \A r \in Rows : r # q => status'[r] = status[r] /\ Recording(r)' = Recording(r)
        BY <1>13, <2>0 DEF Finalize, FinalizeCompleted, Outcome
    <2>3. CASE Finalizable(q)
        <3>1. status'[q] = "completed" /\ StoreOf[q] \in stores
            BY <1>13, <2>0, <2>1, <2>3 DEF Finalize, FinalizeCompleted, Finalizable
        <3>2. Recording(q) = {}
            BY <2>1, <2>3, <3>1 DEF Finalizable
        <3>3. billed[q] = 0
            <4>1. status[q] # "completed"
                BY <2>3 DEF Finalizable
            <4>2. billed[q] \in Nat /\ billed[q] <= 1 /\ billed[q] # 1
                BY <3>1, <4>1
            <4> QED BY <4>2
        <3>4. Recording(q)' = {d}
            BY <1>13, <2>0, <2>1, <2>3, <3>2 DEF Finalize, Outcome
        <3>5. B(q)'
            BY <2>1, <3>1, <3>3, <3>4
        <3>6. \A r \in Rows : r # q => B(r)'
            BY <2>1, <2>2
        <3> QED BY <3>5, <3>6
    <2>4. CASE ~Finalizable(q)
        <3>1. status' = status
            BY <1>13, <2>0, <2>1, <2>4 DEF Finalize, FinalizeCompleted
        <3>2. \A e \in Drivers : e \in Recording(q)' => e \in Recording(q)
            BY <1>13, <2>0, <2>1, <2>4 DEF Finalize, Outcome, Finalizable
        <3>3. B(q)'
            BY <2>1, <3>1, <3>2
        <3>4. \A r \in Rows : r # q => B(r)'
            BY <2>1, <2>2
        <3> QED BY <3>3, <3>4
    <2> QED BY <2>3, <2>4
<1>14. ASSUME NEW d \in Drivers, Fail(d) PROVE BillsLeft'
    BY <1>14 DEF Fail, SetFailed
<1>15. ASSUME NEW d \in Drivers, Record(d) PROVE BillsLeft'
    BY <1>15 DEF Record
<1>16. ASSUME NEW d \in Drivers, RecordFails(d) PROVE BillsLeft'
    BY <1>16 DEF RecordFails
<1>17. ASSUME NEW d \in Drivers, DriveFails(d) PROVE BillsLeft'
    BY <1>17 DEF DriveFails, SetFailed, FinalizeCompleted, Finalizable
<1>18. ASSUME NEW p \in Processes, Crash(p) PROVE BillsLeft'
    BY <1>18 DEF Crash
<1>19. ASSUME NEW p \in Processes, Restart(p) PROVE BillsLeft'
    BY <1>19 DEF Restart, Enqueues, Orphans
<1>20. ASSUME NEW p \in Processes, RestartFails(p) PROVE BillsLeft'
    BY <1>20 DEF RestartFails, Enqueues, Orphans
<1>21. ASSUME NEW d \in Drivers, NEW r \in Rows, AttachUnacknowledged(d, r) PROVE BillsLeft'
    BY <1>21 DEF AttachUnacknowledged
<1> QED
    BY <1>1, <1>2, <1>3, <1>4, <1>5, <1>6, <1>7, <1>8, <1>9, <1>10,
       <1>11, <1>12, <1>13, <1>14, <1>15, <1>16, <1>17, <1>18, <1>19, <1>20, <1>21 DEF Next, Drive

\* No step takes the last way to a row in progress away.
LEMMA StrandedStep ==
    ASSUME TypeOK, DriversHold, BillsLeft, NeverStranded, Next
    PROVE  NeverStranded'
<1> USE IngestAssumption DEF TypeOK, DriversHold, BillsLeft, NeverStranded, Reachable, Fails, OrNot, Push, Pop, Takes, Goes, Leaves, Idle, Tasks, Unlocks, bounds, driverVars, storeVars, Owner, Statuses, Recording
<1>1. ASSUME NEW d \in Drivers, NEW r \in Rows, Attach(d, r) PROVE NeverStranded'
    BY <1>1 DEF Attach
<1>2. ASSUME NEW d \in Drivers, Enqueue(d) PROVE NeverStranded'
    BY <1>2 DEF Enqueue
<1>3. ASSUME NEW d \in Drivers, EnqueueFails(d) PROVE NeverStranded'
    BY <1>3 DEF EnqueueFails
<1>4. ASSUME NEW t \in Tenants, PutZdr(t) PROVE NeverStranded'
    BY <1>4 DEF PutZdr
<1>5. ASSUME NEW s \in Stores, DeleteStore(s) PROVE NeverStranded'
    BY <1>5 DEF DeleteStore
<1>6. ASSUME NEW t \in Tenants, Sweep(t) PROVE NeverStranded'
    BY <1>6 DEF Sweep
<1>7. ASSUME NEW d \in Drivers, NEW r \in Rows, Claim(d, r) PROVE NeverStranded'
    BY <1>7 DEF Claim
<1>8. ASSUME NEW d \in Drivers, Load(d) PROVE NeverStranded'
    BY <1>8 DEF Load, Drives
<1>9. ASSUME NEW d \in Drivers, Gate(d) PROVE NeverStranded'
    BY <1>9 DEF Gate, Drives
<1>10. ASSUME NEW d \in Drivers, Read(d) PROVE NeverStranded'
    BY <1>10 DEF Read, Drives
<1>11. ASSUME NEW d \in Drivers, Embed(d) PROVE NeverStranded'
    BY <1>11 DEF Embed, Drives
<1>12. ASSUME NEW d \in Drivers, LockTenant(d) PROVE NeverStranded'
    BY <1>12 DEF LockTenant, Drives
<1>13. ASSUME NEW d \in Drivers, Finalize(d) PROVE NeverStranded'
    BY <1>13 DEF Finalize, FinalizeCompleted, Outcome, Finalizable
<1>14. ASSUME NEW d \in Drivers, Fail(d) PROVE NeverStranded'
    BY <1>14 DEF Fail, SetFailed
<1>15. ASSUME NEW d \in Drivers, Record(d) PROVE NeverStranded'
    <2>1. row[d] \in Rows /\ d \in Recording(row[d])
        BY <1>15 DEF Record, Recording
    <2>2. status[row[d]] # "in_progress"
        BY <2>1
    <2> QED BY <1>15, <2>1, <2>2 DEF Record
<1>16. ASSUME NEW d \in Drivers, RecordFails(d) PROVE NeverStranded'
    <2>1. row[d] \in Rows /\ d \in Recording(row[d])
        BY <1>16 DEF RecordFails, Recording
    <2>2. status[row[d]] # "in_progress"
        BY <2>1
    <2> QED BY <1>16, <2>1, <2>2 DEF RecordFails
<1>17. ASSUME NEW d \in Drivers, DriveFails(d) PROVE NeverStranded'
    BY <1>17 DEF DriveFails, SetFailed, FinalizeCompleted, Finalizable
<1>18. ASSUME NEW p \in Processes, Crash(p) PROVE NeverStranded'
    BY <1>18 DEF Crash
<1>19. ASSUME NEW p \in Processes, Restart(p) PROVE NeverStranded'
    BY <1>19 DEF Restart, Enqueues, Orphans
<1>20. ASSUME NEW p \in Processes, RestartFails(p) PROVE NeverStranded'
    BY <1>20 DEF RestartFails, Enqueues, Orphans
<1>21. ASSUME NEW d \in Drivers, NEW r \in Rows, AttachUnacknowledged(d, r) PROVE NeverStranded'
    BY <1>21 DEF AttachUnacknowledged
<1> QED
    BY <1>1, <1>2, <1>3, <1>4, <1>5, <1>6, <1>7, <1>8, <1>9, <1>10,
       <1>11, <1>12, <1>13, <1>14, <1>15, <1>16, <1>17, <1>18, <1>19, <1>20, <1>21 DEF Next, Drive

\* A set of rows is finite, and so is what is completed of it.
LEMMA CompletedFinite == ASSUME NEW s \in Stores PROVE IsFiniteSet(Completed(s)) /\ IsFiniteSet(Completed(s)')
<1>1. Completed(s) \subseteq Rows /\ Completed(s)' \subseteq Rows BY DEF Completed, RowsOf
<1> QED BY <1>1, IngestAssumption, FS_Subset

\* finalize_completed adds to its store what it completes, or changes nothing.
LEMMA FinalizeUsage ==
    ASSUME TypeOK, UsageIsSum, NEW r \in Rows, FinalizeCompleted(r)
    PROVE  UsageIsSum'
<1> USE IngestAssumption DEF TypeOK, UsageIsSum, FinalizeCompleted, Finalizable
<1> SUFFICES ASSUME NEW s \in Stores PROVE usage'[s] = Cardinality(Completed(s)')
    OBVIOUS
<1>1. CASE status[r] = "in_progress" /\ StoreOf[r] = s
    <2>1. Completed(s)' = Completed(s) \cup {r}
        BY <1>1 DEF Completed, RowsOf
    <2>2. r \notin Completed(s)
        BY <1>1 DEF Completed
    <2>3. IsFiniteSet(Completed(s))
        BY CompletedFinite
    <2>4. Cardinality(Completed(s) \cup {r}) = Cardinality(Completed(s)) + 1
        BY <2>2, <2>3, FS_AddElement
    <2> QED BY <1>1, <2>1, <2>4
<1>2. CASE ~(status[r] = "in_progress" /\ StoreOf[r] = s)
    <2>1. Completed(s)' = Completed(s)
        BY <1>2 DEF Completed, RowsOf
    <2> QED BY <1>2, <2>1
<1> QED BY <1>1, <1>2

\* A store's bytes change with the rows completed in it.
LEMMA UsageStep ==
    ASSUME TypeOK, DriversHold, BillsLeft, UsageIsSum, Next
    PROVE  UsageIsSum'
<1> USE IngestAssumption DEF TypeOK, DriversHold, UsageIsSum, Fails, OrNot, Push, Pop, Takes, Goes, Leaves, Idle, Tasks, Unlocks, bounds, driverVars, storeVars
<1>1. ASSUME NEW d \in Drivers, NEW r \in Rows, Attach(d, r) PROVE UsageIsSum'
    <2>1. usage' = usage /\ \A s \in Stores : Completed(s)' = Completed(s)
        BY <1>1 DEF Attach, Completed, RowsOf
    <2> QED BY <2>1
<1>2. ASSUME NEW d \in Drivers, Enqueue(d) PROVE UsageIsSum'
    <2>1. usage' = usage /\ \A s \in Stores : Completed(s)' = Completed(s)
        BY <1>2 DEF Enqueue, Completed, RowsOf
    <2> QED BY <2>1
<1>3. ASSUME NEW d \in Drivers, EnqueueFails(d) PROVE UsageIsSum'
    <2>1. usage' = usage /\ \A s \in Stores : Completed(s)' = Completed(s)
        BY <1>3 DEF EnqueueFails, Completed, RowsOf
    <2> QED BY <2>1
<1>4. ASSUME NEW t \in Tenants, PutZdr(t) PROVE UsageIsSum'
    <2>1. usage' = usage /\ \A s \in Stores : Completed(s)' = Completed(s)
        BY <1>4 DEF PutZdr, Completed, RowsOf
    <2> QED BY <2>1
<1>5. ASSUME NEW s \in Stores, DeleteStore(s) PROVE UsageIsSum'
    <2> SUFFICES ASSUME NEW z \in Stores PROVE usage'[z] = Cardinality(Completed(z)')
        OBVIOUS
    <2>1. CASE z = s
        <3>1. Completed(z)' = {} BY <1>5, <2>1 DEF DeleteStore, Completed, RowsOf, Statuses
        <3> QED BY <1>5, <2>1, <3>1, FS_EmptySet DEF DeleteStore
    <2>2. CASE z # s
        <3>1. Completed(z)' = Completed(z) BY <1>5, <2>2 DEF DeleteStore, Completed, RowsOf
        <3> QED BY <1>5, <2>2, <3>1 DEF DeleteStore
    <2> QED BY <2>1, <2>2
<1>6. ASSUME NEW t \in Tenants, Sweep(t) PROVE UsageIsSum'
    <2>1. usage' = usage /\ \A s \in Stores : Completed(s)' = Completed(s)
        BY <1>6 DEF Sweep, Completed, RowsOf
    <2> QED BY <2>1
<1>7. ASSUME NEW d \in Drivers, NEW r \in Rows, Claim(d, r) PROVE UsageIsSum'
    <2>1. usage' = usage /\ \A s \in Stores : Completed(s)' = Completed(s)
        BY <1>7 DEF Claim, Completed, RowsOf
    <2> QED BY <2>1
<1>8. ASSUME NEW d \in Drivers, Load(d) PROVE UsageIsSum'
    <2>1. usage' = usage /\ \A s \in Stores : Completed(s)' = Completed(s)
        BY <1>8 DEF Load, Drives, Completed, RowsOf
    <2> QED BY <2>1
<1>9. ASSUME NEW d \in Drivers, Gate(d) PROVE UsageIsSum'
    <2>1. usage' = usage /\ \A s \in Stores : Completed(s)' = Completed(s)
        BY <1>9 DEF Gate, Drives, Completed, RowsOf
    <2> QED BY <2>1
<1>10. ASSUME NEW d \in Drivers, Read(d) PROVE UsageIsSum'
    <2>1. usage' = usage /\ \A s \in Stores : Completed(s)' = Completed(s)
        BY <1>10 DEF Read, Drives, Completed, RowsOf
    <2> QED BY <2>1
<1>11. ASSUME NEW d \in Drivers, Embed(d) PROVE UsageIsSum'
    <2>1. usage' = usage /\ \A s \in Stores : Completed(s)' = Completed(s)
        BY <1>11 DEF Embed, Drives, Completed, RowsOf
    <2> QED BY <2>1
<1>12. ASSUME NEW d \in Drivers, LockTenant(d) PROVE UsageIsSum'
    <2>1. usage' = usage /\ \A s \in Stores : Completed(s)' = Completed(s)
        BY <1>12 DEF LockTenant, Drives, Completed, RowsOf
    <2> QED BY <2>1
<1>13. ASSUME NEW d \in Drivers, Finalize(d) PROVE UsageIsSum'
    BY <1>13, FinalizeUsage DEF Finalize
<1>14. ASSUME NEW d \in Drivers, Fail(d) PROVE UsageIsSum'
    <2>1. usage' = usage /\ \A s \in Stores : Completed(s)' = Completed(s)
        BY <1>14 DEF Fail, SetFailed, Completed, RowsOf
    <2> QED BY <2>1
<1>15. ASSUME NEW d \in Drivers, Record(d) PROVE UsageIsSum'
    <2>1. usage' = usage /\ \A s \in Stores : Completed(s)' = Completed(s)
        BY <1>15 DEF Record, Completed, RowsOf
    <2> QED BY <2>1
<1>16. ASSUME NEW d \in Drivers, RecordFails(d) PROVE UsageIsSum'
    <2>1. usage' = usage /\ \A s \in Stores : Completed(s)' = Completed(s)
        BY <1>16 DEF RecordFails, Completed, RowsOf
    <2> QED BY <2>1
<1>17. ASSUME NEW d \in Drivers, DriveFails(d) PROVE UsageIsSum'
    <2>1. CASE stage[d] = "finalizing" /\ FinalizeCompleted(row[d])
        BY <1>17, <2>1, FinalizeUsage DEF DriveFails
    <2>2. CASE UNCHANGED storeVars \/ SetFailed(row[d])
        <3>1. usage' = usage /\ \A s \in Stores : Completed(s)' = Completed(s)
            BY <1>17, <2>2 DEF DriveFails, SetFailed, Completed, RowsOf
        <3> QED BY <3>1
    <2> QED BY <1>17, <2>1, <2>2 DEF DriveFails
<1>18. ASSUME NEW p \in Processes, Crash(p) PROVE UsageIsSum'
    <2>1. usage' = usage /\ \A s \in Stores : Completed(s)' = Completed(s)
        BY <1>18 DEF Crash, Completed, RowsOf
    <2> QED BY <2>1
<1>19. ASSUME NEW p \in Processes, Restart(p) PROVE UsageIsSum'
    <2>1. usage' = usage /\ \A s \in Stores : Completed(s)' = Completed(s)
        BY <1>19 DEF Restart, Enqueues, Orphans, Completed, RowsOf
    <2> QED BY <2>1
<1>20. ASSUME NEW p \in Processes, RestartFails(p) PROVE UsageIsSum'
    <2>1. usage' = usage /\ \A s \in Stores : Completed(s)' = Completed(s)
        BY <1>20 DEF RestartFails, Enqueues, Orphans, Completed, RowsOf
    <2> QED BY <2>1
<1>21. ASSUME NEW d \in Drivers, NEW r \in Rows, AttachUnacknowledged(d, r) PROVE UsageIsSum'
    <2>1. usage' = usage /\ \A s \in Stores : Completed(s)' = Completed(s)
        BY <1>21 DEF AttachUnacknowledged, Completed, RowsOf, Statuses
    <2> QED BY <2>1
<1> QED
    BY <1>1, <1>2, <1>3, <1>4, <1>5, <1>6, <1>7, <1>8, <1>9, <1>10,
       <1>11, <1>12, <1>13, <1>14, <1>15, <1>16, <1>17, <1>18, <1>19, <1>20, <1>21 DEF Next, Drive

\* Chunks are written by the driver that holds the tenant's lock.
LEMMA ZdrStep ==
    ASSUME TypeOK, DriversHold, Next
    PROVE  \A q \in Rows : chunks'[q] > chunks[q] => ~zdr[Owner(q)] /\ ~zdr'[Owner(q)]
<1> USE IngestAssumption DEF TypeOK, DriversHold, Fails, OrNot, Push, Pop, Takes, Goes, Leaves, Idle, Tasks, Unlocks, bounds, driverVars, storeVars, Owner
<1>1. ASSUME NEW d \in Drivers, NEW r \in Rows, Attach(d, r) PROVE \A q \in Rows : chunks'[q] > chunks[q] => ~zdr[Owner(q)] /\ ~zdr'[Owner(q)]
    BY <1>1 DEF Attach
<1>2. ASSUME NEW d \in Drivers, Enqueue(d) PROVE \A q \in Rows : chunks'[q] > chunks[q] => ~zdr[Owner(q)] /\ ~zdr'[Owner(q)]
    BY <1>2 DEF Enqueue
<1>3. ASSUME NEW d \in Drivers, EnqueueFails(d) PROVE \A q \in Rows : chunks'[q] > chunks[q] => ~zdr[Owner(q)] /\ ~zdr'[Owner(q)]
    BY <1>3 DEF EnqueueFails
<1>4. ASSUME NEW t \in Tenants, PutZdr(t) PROVE \A q \in Rows : chunks'[q] > chunks[q] => ~zdr[Owner(q)] /\ ~zdr'[Owner(q)]
    BY <1>4 DEF PutZdr
<1>5. ASSUME NEW s \in Stores, DeleteStore(s) PROVE \A q \in Rows : chunks'[q] > chunks[q] => ~zdr[Owner(q)] /\ ~zdr'[Owner(q)]
    BY <1>5 DEF DeleteStore
<1>6. ASSUME NEW t \in Tenants, Sweep(t) PROVE \A q \in Rows : chunks'[q] > chunks[q] => ~zdr[Owner(q)] /\ ~zdr'[Owner(q)]
    BY <1>6 DEF Sweep
<1>7. ASSUME NEW d \in Drivers, NEW r \in Rows, Claim(d, r) PROVE \A q \in Rows : chunks'[q] > chunks[q] => ~zdr[Owner(q)] /\ ~zdr'[Owner(q)]
    BY <1>7 DEF Claim
<1>8. ASSUME NEW d \in Drivers, Load(d) PROVE \A q \in Rows : chunks'[q] > chunks[q] => ~zdr[Owner(q)] /\ ~zdr'[Owner(q)]
    BY <1>8 DEF Load, Drives
<1>9. ASSUME NEW d \in Drivers, Gate(d) PROVE \A q \in Rows : chunks'[q] > chunks[q] => ~zdr[Owner(q)] /\ ~zdr'[Owner(q)]
    BY <1>9 DEF Gate, Drives
<1>10. ASSUME NEW d \in Drivers, Read(d) PROVE \A q \in Rows : chunks'[q] > chunks[q] => ~zdr[Owner(q)] /\ ~zdr'[Owner(q)]
    BY <1>10 DEF Read, Drives
<1>11. ASSUME NEW d \in Drivers, Embed(d) PROVE \A q \in Rows : chunks'[q] > chunks[q] => ~zdr[Owner(q)] /\ ~zdr'[Owner(q)]
    BY <1>11 DEF Embed, Drives
<1>12. ASSUME NEW d \in Drivers, LockTenant(d) PROVE \A q \in Rows : chunks'[q] > chunks[q] => ~zdr[Owner(q)] /\ ~zdr'[Owner(q)]
    BY <1>12 DEF LockTenant, Drives
<1>13. ASSUME NEW d \in Drivers, Finalize(d) PROVE \A q \in Rows : chunks'[q] > chunks[q] => ~zdr[Owner(q)] /\ ~zdr'[Owner(q)]
    BY <1>13 DEF Finalize, FinalizeCompleted, Outcome, Finalizable
<1>14. ASSUME NEW d \in Drivers, Fail(d) PROVE \A q \in Rows : chunks'[q] > chunks[q] => ~zdr[Owner(q)] /\ ~zdr'[Owner(q)]
    BY <1>14 DEF Fail, SetFailed
<1>15. ASSUME NEW d \in Drivers, Record(d) PROVE \A q \in Rows : chunks'[q] > chunks[q] => ~zdr[Owner(q)] /\ ~zdr'[Owner(q)]
    BY <1>15 DEF Record
<1>16. ASSUME NEW d \in Drivers, RecordFails(d) PROVE \A q \in Rows : chunks'[q] > chunks[q] => ~zdr[Owner(q)] /\ ~zdr'[Owner(q)]
    BY <1>16 DEF RecordFails
<1>17. ASSUME NEW d \in Drivers, DriveFails(d) PROVE \A q \in Rows : chunks'[q] > chunks[q] => ~zdr[Owner(q)] /\ ~zdr'[Owner(q)]
    BY <1>17 DEF DriveFails, SetFailed, FinalizeCompleted, Finalizable
<1>18. ASSUME NEW p \in Processes, Crash(p) PROVE \A q \in Rows : chunks'[q] > chunks[q] => ~zdr[Owner(q)] /\ ~zdr'[Owner(q)]
    BY <1>18 DEF Crash
<1>19. ASSUME NEW p \in Processes, Restart(p) PROVE \A q \in Rows : chunks'[q] > chunks[q] => ~zdr[Owner(q)] /\ ~zdr'[Owner(q)]
    BY <1>19 DEF Restart, Enqueues, Orphans
<1>20. ASSUME NEW p \in Processes, RestartFails(p) PROVE \A q \in Rows : chunks'[q] > chunks[q] => ~zdr[Owner(q)] /\ ~zdr'[Owner(q)]
    BY <1>20 DEF RestartFails, Enqueues, Orphans
<1>21. ASSUME NEW d \in Drivers, NEW r \in Rows, AttachUnacknowledged(d, r) PROVE \A q \in Rows : chunks'[q] > chunks[q] => ~zdr[Owner(q)] /\ ~zdr'[Owner(q)]
    BY <1>21 DEF AttachUnacknowledged
<1> QED
    BY <1>1, <1>2, <1>3, <1>4, <1>5, <1>6, <1>7, <1>8, <1>9, <1>10,
       <1>11, <1>12, <1>13, <1>14, <1>15, <1>16, <1>17, <1>18, <1>19, <1>20, <1>21 DEF Next, Drive

\* Nothing but the deletion of its store changes a completed row.
LEMMA FinalStep ==
    ASSUME TypeOK, DriversHold, Next
    PROVE  \A q \in Rows : status[q] = "completed" => status'[q] = "completed" \/ StoreOf[q] \notin stores'
<1> USE IngestAssumption DEF TypeOK, DriversHold, Fails, OrNot, Push, Pop, Takes, Goes, Leaves, Idle, Tasks, Unlocks, bounds, driverVars, storeVars, Owner, Statuses
<1>1. ASSUME NEW d \in Drivers, NEW r \in Rows, Attach(d, r) PROVE \A q \in Rows : status[q] = "completed" => status'[q] = "completed" \/ StoreOf[q] \notin stores'
    BY <1>1 DEF Attach
<1>2. ASSUME NEW d \in Drivers, Enqueue(d) PROVE \A q \in Rows : status[q] = "completed" => status'[q] = "completed" \/ StoreOf[q] \notin stores'
    BY <1>2 DEF Enqueue
<1>3. ASSUME NEW d \in Drivers, EnqueueFails(d) PROVE \A q \in Rows : status[q] = "completed" => status'[q] = "completed" \/ StoreOf[q] \notin stores'
    BY <1>3 DEF EnqueueFails
<1>4. ASSUME NEW t \in Tenants, PutZdr(t) PROVE \A q \in Rows : status[q] = "completed" => status'[q] = "completed" \/ StoreOf[q] \notin stores'
    BY <1>4 DEF PutZdr
<1>5. ASSUME NEW s \in Stores, DeleteStore(s) PROVE \A q \in Rows : status[q] = "completed" => status'[q] = "completed" \/ StoreOf[q] \notin stores'
    BY <1>5 DEF DeleteStore
<1>6. ASSUME NEW t \in Tenants, Sweep(t) PROVE \A q \in Rows : status[q] = "completed" => status'[q] = "completed" \/ StoreOf[q] \notin stores'
    BY <1>6 DEF Sweep
<1>7. ASSUME NEW d \in Drivers, NEW r \in Rows, Claim(d, r) PROVE \A q \in Rows : status[q] = "completed" => status'[q] = "completed" \/ StoreOf[q] \notin stores'
    BY <1>7 DEF Claim
<1>8. ASSUME NEW d \in Drivers, Load(d) PROVE \A q \in Rows : status[q] = "completed" => status'[q] = "completed" \/ StoreOf[q] \notin stores'
    BY <1>8 DEF Load, Drives
<1>9. ASSUME NEW d \in Drivers, Gate(d) PROVE \A q \in Rows : status[q] = "completed" => status'[q] = "completed" \/ StoreOf[q] \notin stores'
    BY <1>9 DEF Gate, Drives
<1>10. ASSUME NEW d \in Drivers, Read(d) PROVE \A q \in Rows : status[q] = "completed" => status'[q] = "completed" \/ StoreOf[q] \notin stores'
    BY <1>10 DEF Read, Drives
<1>11. ASSUME NEW d \in Drivers, Embed(d) PROVE \A q \in Rows : status[q] = "completed" => status'[q] = "completed" \/ StoreOf[q] \notin stores'
    BY <1>11 DEF Embed, Drives
<1>12. ASSUME NEW d \in Drivers, LockTenant(d) PROVE \A q \in Rows : status[q] = "completed" => status'[q] = "completed" \/ StoreOf[q] \notin stores'
    BY <1>12 DEF LockTenant, Drives
<1>13. ASSUME NEW d \in Drivers, Finalize(d) PROVE \A q \in Rows : status[q] = "completed" => status'[q] = "completed" \/ StoreOf[q] \notin stores'
    BY <1>13 DEF Finalize, FinalizeCompleted, Outcome, Finalizable
<1>14. ASSUME NEW d \in Drivers, Fail(d) PROVE \A q \in Rows : status[q] = "completed" => status'[q] = "completed" \/ StoreOf[q] \notin stores'
    BY <1>14 DEF Fail, SetFailed
<1>15. ASSUME NEW d \in Drivers, Record(d) PROVE \A q \in Rows : status[q] = "completed" => status'[q] = "completed" \/ StoreOf[q] \notin stores'
    BY <1>15 DEF Record
<1>16. ASSUME NEW d \in Drivers, RecordFails(d) PROVE \A q \in Rows : status[q] = "completed" => status'[q] = "completed" \/ StoreOf[q] \notin stores'
    BY <1>16 DEF RecordFails
<1>17. ASSUME NEW d \in Drivers, DriveFails(d) PROVE \A q \in Rows : status[q] = "completed" => status'[q] = "completed" \/ StoreOf[q] \notin stores'
    BY <1>17 DEF DriveFails, SetFailed, FinalizeCompleted, Finalizable
<1>18. ASSUME NEW p \in Processes, Crash(p) PROVE \A q \in Rows : status[q] = "completed" => status'[q] = "completed" \/ StoreOf[q] \notin stores'
    BY <1>18 DEF Crash
<1>19. ASSUME NEW p \in Processes, Restart(p) PROVE \A q \in Rows : status[q] = "completed" => status'[q] = "completed" \/ StoreOf[q] \notin stores'
    BY <1>19 DEF Restart, Enqueues, Orphans
<1>20. ASSUME NEW p \in Processes, RestartFails(p) PROVE \A q \in Rows : status[q] = "completed" => status'[q] = "completed" \/ StoreOf[q] \notin stores'
    BY <1>20 DEF RestartFails, Enqueues, Orphans
<1>21. ASSUME NEW d \in Drivers, NEW r \in Rows, AttachUnacknowledged(d, r) PROVE \A q \in Rows : status[q] = "completed" => status'[q] = "completed" \/ StoreOf[q] \notin stores'
    BY <1>21 DEF AttachUnacknowledged
<1> QED
    BY <1>1, <1>2, <1>3, <1>4, <1>5, <1>6, <1>7, <1>8, <1>9, <1>10,
       <1>11, <1>12, <1>13, <1>14, <1>15, <1>16, <1>17, <1>18, <1>19, <1>20, <1>21 DEF Next, Drive

-----------------------------------------------------------------------------
\* A step that changes nothing keeps the invariant.
LEMMA VInvStutter == ASSUME VInv, UNCHANGED vars PROVE VInv'
<1> USE DEF vars, VInv
<1>1. TypeOK' BY DEF TypeOK
<1>2. DriversHold' BY DEF DriversHold
<1>3. ChunksMatchStatus' BY DEF ChunksMatchStatus
<1>4. BilledOnce' BY DEF BilledOnce
<1>5. BillsLeft' BY DEF BillsLeft, Recording
<1>6. UsageIsSum' BY DEF UsageIsSum, Completed
<1>7. NeverStranded' BY DEF NeverStranded, Reachable
<1> QED BY <1>1, <1>2, <1>3, <1>4, <1>5, <1>6, <1>7

\* VInv is inductive.
LEMMA VInvStep == ASSUME VInv, [Next]_vars PROVE VInv'
<1>1. CASE Next
    BY <1>1, TypeOKStep, DriversHoldStep, ChunksStep, BilledOnceStep, BillsLeftStep, UsageStep,
       StrandedStep DEF VInv
<1>2. CASE UNCHANGED vars
    BY <1>2, VInvStutter
<1> QED BY <1>1, <1>2

\* Initially nothing is attached.
LEMMA VInvInit == ASSUME Init PROVE VInv
<1> USE IngestAssumption DEF Init
<1>1. TypeOK BY DEF TypeOK, Stages
<1>2. DriversHold BY DEF DriversHold
<1>3. ChunksMatchStatus BY DEF ChunksMatchStatus, Statuses
<1>4. BilledOnce BY DEF BilledOnce
<1>5. BillsLeft BY DEF BillsLeft, Recording
<1>6. UsageIsSum
    <2>1. \A s \in Stores : Completed(s) = {} BY DEF Completed, RowsOf, Statuses
    <2> QED BY <2>1, FS_EmptySet DEF UsageIsSum
<1>7. NeverStranded BY DEF NeverStranded, Statuses
<1> QED BY <1>1, <1>2, <1>3, <1>4, <1>5, <1>6, <1>7 DEF VInv

-----------------------------------------------------------------------------
(* VectorIngest implements DurableWork.                                    *)

\* What the views say of a row that is open, and of one that is completed.
LEMMA ViewsSay == ASSUME VInv
    PROVE  /\ Work!Open = {r \in Rows : status[r] = "in_progress"}
           /\ EffectsView = {r \in Rows : status[r] = "completed"}
<1>1. ASSUME NEW r \in Rows PROVE StateView[r] = "open" <=> status[r] = "in_progress"
    BY DEF VInv, TypeOK, StateView, Statuses
<1>2. ASSUME NEW r \in Rows PROVE chunks[r] > 0 <=> status[r] = "completed"
    BY DEF VInv, ChunksMatchStatus
<1> QED BY <1>1, <1>2 DEF Work!Open, EffectsView

\* A step that leaves the status of the rows alone hands them over: NeverStranded says
\* that none gets out of sight.
LEMMA HandOverRefines == ASSUME VInv, VInv', UNCHANGED status PROVE Work!WorkNext
<1>1. CareView' \cup DroppedView' = {r \in Rows : status[r] = "in_progress"}
    BY DEF VInv, TypeOK, NeverStranded, CareView, DroppedView
<1>2. Work!Open = {r \in Rows : status[r] = "in_progress"}
    BY ViewsSay
<1>3. EffectsView' = EffectsView
    <2>1. EffectsView' = {r \in Rows : status'[r] = "completed"}
        BY DEF VInv, ChunksMatchStatus, EffectsView
    <2> QED BY <2>1, ViewsSay
<1>4. StateView' = StateView
    BY DEF StateView
<1>5. Work!HandOver
    BY <1>1, <1>2, <1>3, <1>4 DEF Work!HandOver
<1> QED BY <1>5 DEF Work!WorkNext

\* The update that ends a row was a driver's that has it, and writes the chunks if it
\* completes the row (finalize_completed, set_failed).
LEMMA FinishRefines ==
    ASSUME VInv, VInv', NEW r \in Rows, status[r] = "in_progress", Reachable(r),
           NEW e \in {"completed", "failed"}, status' = [status EXCEPT ![r] = e],
           \A q \in Rows : q # r => (Reachable(q)' <=> Reachable(q)),
           lost' \ {r} = lost \ {r}
    PROVE  Work!WorkNext
<1>1. /\ \A q \in Rows : q # r => status'[q] = status[q]
      /\ status'[r] = e /\ e # None
    BY IngestAssumption DEF VInv, TypeOK, Statuses
<1>2. StateView' = [StateView EXCEPT ![r] = e]
    BY <1>1 DEF StateView
<1>3. EffectsView' = IF e = "completed" THEN EffectsView \cup {r} ELSE EffectsView
    <2>1. /\ EffectsView = {q \in Rows : status[q] = "completed"}
          /\ EffectsView' = {q \in Rows : status'[q] = "completed"}
        BY ViewsSay DEF VInv, ChunksMatchStatus, EffectsView
    <2> QED BY <1>1, <2>1
<1>4. CareView' = CareView \ {r} /\ r \in CareView
    BY <1>1 DEF CareView
<1>5. DroppedView' = DroppedView \ {r}
    BY <1>1 DEF DroppedView, VInv, TypeOK
<1>6. Work!Finish(r, e)
    BY <1>2, <1>3, <1>4, <1>5 DEF Work!Finish
<1> QED BY <1>6 DEF Work!WorkNext

\* The attach endpoint offers a new or a failed row, and drives one in progress again.
LEMMA AttachRefines ==
    ASSUME VInv, VInv', NEW d \in Drivers, NEW r \in Rows, Attach(d, r)
    PROVE  Work!WorkNext
<1>1. /\ status[r] # "completed" /\ status' = [status EXCEPT ![r] = "in_progress"]
      /\ UNCHANGED <<queue, up, lost>> /\ row[d] = None /\ row' = [row EXCEPT ![d] = r]
    BY DEF Attach, Idle, Takes, VInv, DriversHold
<1>2. CASE status[r] = "in_progress"
    BY <1>1, <1>2, HandOverRefines DEF VInv, TypeOK
<1>3. CASE status[r] # "in_progress"
    <2>1. /\ \A q \in Rows : q # r => status'[q] = status[q]
          /\ status'[r] = "in_progress"
        BY <1>1 DEF VInv, TypeOK
    <2>2. Reachable(r)' /\ \A q \in Rows : q # r => (Reachable(q)' <=> Reachable(q))
        <3>1. row'[d] = r
            BY <1>1 DEF VInv, TypeOK
        <3>2. \A q \in Rows, c \in Drivers : q # r => (row'[c] = q <=> row[c] = q)
            BY <1>1, IngestAssumption DEF VInv, TypeOK
        <3> QED BY <1>1, <3>1, <3>2 DEF Reachable
    <2>3. StateView[r] \in {"none", "failed"} /\ StateView' = [StateView EXCEPT ![r] = "open"]
        BY <1>1, <1>3, <2>1 DEF StateView, VInv, TypeOK, Statuses
    <2>4. CareView' = CareView \cup {r}
        BY <2>1, <2>2, <1>3 DEF CareView
    <2>5. DroppedView' \in {DroppedView, DroppedView \cup {r}}
        BY <1>1, <1>3, <2>1 DEF DroppedView, VInv, TypeOK
    <2>6. EffectsView' = EffectsView
        BY DEF Attach, EffectsView
    <2>7. Work!Offer(r)
        BY <2>3, <2>4, <2>5, <2>6 DEF Work!Offer
    <2> QED BY <2>7 DEF Work!WorkNext
<1> QED BY <1>2, <1>3

\* An attach that ends in an error after its commit offers the row and nobody knows of it.
LEMMA AttachUnacknowledgedRefines ==
    ASSUME VInv, VInv', NEW d \in Drivers, NEW r \in Rows, AttachUnacknowledged(d, r)
    PROVE  Work!WorkNext
<1>1. /\ status[r] \in {None, "failed"} /\ status' = [status EXCEPT ![r] = "in_progress"]
      /\ UNCHANGED <<queue, row, up>> /\ lost' = lost \cup {r}
    BY DEF AttachUnacknowledged, driverVars
<1>2. /\ \A q \in Rows : q # r => status'[q] = status[q]
      /\ status'[r] = "in_progress" /\ status[r] # "in_progress"
    BY <1>1, IngestAssumption DEF VInv, TypeOK, Statuses
<1>3. \A q \in Rows : Reachable(q)' <=> Reachable(q)
    BY <1>1 DEF Reachable
<1>4. StateView[r] \in {"none", "failed"} /\ StateView' = [StateView EXCEPT ![r] = "open"]
    BY <1>1, <1>2 DEF StateView, VInv, TypeOK, Statuses
<1>5. CareView' \in {CareView, CareView \cup {r}}
    BY <1>2, <1>3 DEF CareView
<1>6. DroppedView' = DroppedView \cup {r}
    BY <1>1, <1>2 DEF DroppedView
<1>7. EffectsView' = EffectsView
    BY DEF AttachUnacknowledged, EffectsView
<1>8. Work!Offer(r)
    BY <1>4, <1>5, <1>6, <1>7 DEF Work!Offer
<1> QED BY <1>8 DEF Work!WorkNext

\* Deleting a store withdraws its rows with their chunks (the foreign keys' cascade).
LEMMA DeleteRefines ==
    ASSUME VInv, VInv', NEW s \in Stores, DeleteStore(s)
    PROVE  Work!WorkNext
<1>1. /\ \A r \in Rows : status'[r] = IF r \in RowsOf(s) THEN None ELSE status[r]
      /\ UNCHANGED <<queue, row, up, lost>>
    BY DEF DeleteStore, RowsOf, driverVars
<1>2. None \notin Statuses
    BY IngestAssumption
<1>3. StateView' = [r \in Rows |-> IF r \in RowsOf(s) THEN "none" ELSE StateView[r]]
    BY <1>1, <1>2 DEF StateView, Statuses
<1>4. EffectsView' = EffectsView \ RowsOf(s)
    <2>1. /\ EffectsView = {q \in Rows : status[q] = "completed"}
          /\ EffectsView' = {q \in Rows : status'[q] = "completed"}
        BY ViewsSay DEF VInv, ChunksMatchStatus, EffectsView
    <2> QED BY <1>1, <1>2, <2>1 DEF Statuses
<1>5. CareView' = CareView \ RowsOf(s)
    BY <1>1, <1>2 DEF CareView, Reachable, Statuses
<1>6. DroppedView' = DroppedView \ RowsOf(s)
    BY <1>1, <1>2 DEF DroppedView, VInv, TypeOK, Statuses
<1>7. Work!Withdraw(RowsOf(s))
    BY <1>3, <1>4, <1>5, <1>6 DEF Work!Withdraw
<1> QED BY <1>7 DEF Work!WorkNext

\* A driver's update of its row ends it or leaves it: the driver has it in care.
LEMMA UpdateRefines ==
    ASSUME VInv, VInv', NEW d \in Drivers, Finalize(d) \/ Fail(d) \/ DriveFails(d)
    PROVE  Work!WorkNext
<1> DEFINE r == row[d]
<1>1. r \in Rows /\ row[d] = r
    BY DEF Finalize, Fail, DriveFails, VInv, DriversHold
<1>2. /\ \A c \in Drivers : c # d => row'[c] = row[c]
      /\ row'[d] \in {r, None}
      /\ UNCHANGED <<queue, up>> /\ lost' \ {r} = lost \ {r}
    BY DEF Finalize, Fail, DriveFails, Outcome, Goes, Leaves, Takes, VInv, TypeOK
<1>3. \/ status' = status
      \/ /\ status[r] = "in_progress"
         /\ \E e \in {"completed", "failed"} : status' = [status EXCEPT ![r] = e]
    BY DEF Finalize, Fail, DriveFails, FinalizeCompleted, Finalizable, SetFailed, storeVars, VInv, TypeOK
<1>4. None \notin Rows
    BY IngestAssumption
<1> HIDE DEF r
<1>5. Reachable(r) /\ \A q \in Rows : q # r => (Reachable(q)' <=> Reachable(q))
    <2>1. \A q \in Rows, c \in Drivers : q # r => (row'[c] = q <=> row[c] = q)
        BY <1>1, <1>2, <1>4
    <2> QED BY <1>1, <1>2, <2>1 DEF Reachable
<1>6. CASE status' = status
    BY <1>6, HandOverRefines
<1>7. CASE status[r] = "in_progress" /\ \E e \in {"completed", "failed"} : status' = [status EXCEPT ![r] = e]
    BY <1>1, <1>2, <1>5, <1>7, FinishRefines
<1> QED BY <1>3, <1>6, <1>7

-----------------------------------------------------------------------------
(* The theorems.                                                           *)

\* Rows, chunks, bytes, bills and drivers always agree.
THEOREM IngestInvariant == Spec => []VInv
BY VInvInit, VInvStep, PTL DEF Spec

\* No interleaving leaves a row half indexed or with its chunks twice.
THEOREM NeverHalfIndexed == Spec => []ChunksMatchStatus
<1>1. VInv => ChunksMatchStatus BY DEF VInv
<1> QED BY <1>1, IngestInvariant, PTL

\* However many drives embed a row, one of them bills it, if any.
THEOREM BilledAtMostOnce == Spec => []BilledOnce
<1>1. VInv => BilledOnce BY DEF VInv
<1> QED BY <1>1, IngestInvariant, PTL

\* usage_bytes of a store is the sum of what is completed in it.
THEOREM UsageAddsUp == Spec => []UsageIsSum
<1>1. VInv => UsageIsSum BY DEF VInv
<1> QED BY <1>1, IngestInvariant, PTL

\* A row in progress is not forgotten, but for an error that was swallowed or answered.
THEOREM NotStranded == Spec => []NeverStranded
<1>1. VInv => NeverStranded BY DEF VInv
<1> QED BY <1>1, IngestInvariant, PTL

\* The locked check makes the ZDR decision and the write one.
THEOREM NoWriteUnderZdr == Spec => ZdrNeverWrites
<1>1. VInv /\ [Next]_vars =>
        [\A r \in Rows : chunks'[r] > chunks[r] => ~zdr[Owner(r)] /\ ~zdr'[Owner(r)]]_vars
    BY ZdrStep DEF VInv
<1> QED BY <1>1, IngestInvariant, PTL DEF Spec, ZdrNeverWrites

\* A late failure does not undo a completed row.
THEOREM CompletedStays == Spec => CompletedIsFinal
<1>1. VInv /\ [Next]_vars =>
        [\A r \in Rows : status[r] = "completed" =>
            status'[r] = "completed" \/ StoreOf[r] \notin stores']_vars
    BY FinalStep DEF VInv
<1> QED BY <1>1, IngestInvariant, PTL DEF Spec, CompletedIsFinal

\* Indexing a file is work that ends once for each attempt, by a driver that has it and
\* with its chunks, and that is never silently stranded: attach, drives, deletion and
\* recovery implement DurableWork.
THEOREM IngestRefines == Spec => WorkRefined
<1>1. Init => Work!WorkInit
    <2> SUFFICES ASSUME Init PROVE Work!WorkInit
        OBVIOUS
    <2>1. None # "in_progress"
        BY IngestAssumption DEF Statuses
    <2>2. \A r \in Rows : status[r] = None /\ ~(chunks[r] > 0)
        BY DEF Init
    <2> QED BY <2>1, <2>2 DEF Init, Work!WorkInit, StateView, EffectsView, CareView, DroppedView
<1>2. ASSUME VInv, [Next]_vars PROVE Work!WorkNext
    <2>1. VInv'
        BY <1>2, VInvStep
    <2>2. \/ \E d \in Drivers, r \in Rows : Attach(d, r)
          \/ \E d \in Drivers, r \in Rows : AttachUnacknowledged(d, r)
          \/ \E s \in Stores : DeleteStore(s)
          \/ \E d \in Drivers : Finalize(d) \/ Fail(d) \/ DriveFails(d)
          \/ UNCHANGED status
        BY <1>2 DEF Next, Drive, vars, storeVars, Enqueue, EnqueueFails, PutZdr, Sweep, Claim, Drives,
           Load, Gate, Read, Embed, LockTenant, Record, RecordFails, Crash, Restart, RestartFails
    <2> QED BY <1>2, <2>1, <2>2, AttachRefines, AttachUnacknowledgedRefines, DeleteRefines, UpdateRefines, HandOverRefines
<1>3. VInv /\ [Next]_vars => [Work!WorkNext]_(Work!workVars)
    BY <1>2
<1> QED BY <1>1, <1>3, IngestInvariant, PTL DEF Spec, WorkRefined, Work!WorkSpec

==============================================================================
