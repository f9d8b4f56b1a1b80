--------------------------- MODULE AdmissionProofs ---------------------------
(***************************************************************************)
(* Proofs about Admission, for every number of requests, records and       *)
(* faults.  AInv is inductive: each lemma takes one of its parts over      *)
(* every action.                                                           *)
(***************************************************************************)
EXTENDS Admission, TLAPS

-----------------------------------------------------------------------------
\* Every action keeps the types.
LEMMA TypeOKStep ==
    ASSUME TypeOK, Next
    PROVE  TypeOK'
<1> USE AdmissionAssumption DEF AdmissionAssumption, TypeOK, Ended, Kinds, Task, Goes, Hits, Fault, Free, Resolve, Deciding, account, history, vars
<1>1. ASSUME NEW r \in Requests, TierHold(r) PROVE TypeOK'
    BY <1>1 DEF TierHold
<1>2. ASSUME NEW r \in Requests, TierRefuse(r) PROVE TypeOK'
    BY <1>2 DEF TierRefuse
<1>3. ASSUME NEW r \in Requests, CreditHold(r) PROVE TypeOK'
    BY <1>3 DEF CreditHold, Account!Hold
<1>4. ASSUME NEW r \in Requests, CreditRefuse(r) PROVE TypeOK'
    BY <1>4 DEF CreditRefuse
<1>5. ASSUME NEW r \in Requests, CreditFails(r) PROVE TypeOK'
    BY <1>5 DEF CreditFails, Account!Hold
<1>6. ASSUME NEW r \in Requests, RatesPass(r) PROVE TypeOK'
    BY <1>6 DEF RatesPass
<1>7. ASSUME NEW r \in Requests, RatesRefuse(r) PROVE TypeOK'
    BY <1>7 DEF RatesRefuse
<1>8. ASSUME NEW r \in Requests, GiveCredit(r) PROVE TypeOK'
    BY <1>8 DEF GiveCredit, Account!Release
<1>9. ASSUME NEW r \in Requests, GiveSlot(r) PROVE TypeOK'
    BY <1>9 DEF GiveSlot
<1>10. ASSUME NEW r \in Requests, GiveBackFails(r) PROVE TypeOK'
    BY <1>10 DEF GiveBackFails
<1>11. ASSUME NEW r \in Requests, Cancel(r) PROVE TypeOK'
    BY <1>11 DEF Cancel
<1>12. ASSUME NEW r \in Requests, DispatchRecord(r) PROVE TypeOK'
    BY <1>12 DEF DispatchRecord
<1>13. ASSUME NEW r \in Requests, Finish(r) PROVE TypeOK'
    BY <1>13 DEF Finish
<1>14. ASSUME NEW r \in Requests, Sweep(r) PROVE TypeOK'
    BY <1>14 DEF Sweep, Account!Release
<1>15. ASSUME NEW r \in Requests, SlotExpires(r) PROVE TypeOK'
    BY <1>15 DEF SlotExpires
<1>16. ASSUME NEW x \in tasks, Record(x) PROVE TypeOK'
    BY <1>16 DEF Record, Outcome
<1>17. ASSUME NEW x \in tasks, RecordFails(x) PROVE TypeOK'
    BY <1>17 DEF RecordFails
<1>18. ASSUME NEW x \in tasks, SettleHold(x) PROVE TypeOK'
    <2>1. x.req \in Requests /\ x.cost \in Nat /\ TenantOf[x.req] \in Tenants
        OBVIOUS
    <2>2. funds' \in [Tenants -> Int]
        BY <1>18, <2>1 DEF SettleHold, Account!Settle
    <2>3. status' \in [Requests -> {"none", "open", "settled", "released"}] /\ held' = held
        BY <1>18, <2>1 DEF SettleHold, Account!Settle
    <2>4. cost' \in [Requests -> Nat]
        BY <1>18, <2>1 DEF SettleHold, Account!Settle
    <2> QED BY <1>18, <2>2, <2>3, <2>4 DEF SettleHold
<1>19. ASSUME NEW x \in tasks, ReleaseHold(x) PROVE TypeOK'
    BY <1>19 DEF ReleaseHold, Account!Release
<1>20. ASSUME NEW x \in tasks, FreeSlot(x) PROVE TypeOK'
    BY <1>20 DEF FreeSlot
<1>21. ASSUME NEW x \in tasks, CallFails(x) PROVE TypeOK'
    BY <1>21 DEF CallFails
<1>22. ASSUME Crash PROVE TypeOK'
    BY <1>22 DEF Crash
<1> QED
    BY <1>1, <1>2, <1>3, <1>4, <1>5, <1>6, <1>7, <1>8, <1>9, <1>10, <1>11, <1>12, <1>13, <1>14, <1>15, <1>16, <1>17, <1>18, <1>19, <1>20, <1>21, <1>22 DEF Next, Governs, Works

\* Only admitted requests dispatch records.
LEMMA AdmittedRecordStep ==
    ASSUME TypeOK, AdmittedRecord, Next
    PROVE  AdmittedRecord'
<1> USE AdmissionAssumption DEF AdmissionAssumption, TypeOK, Ended, Kinds, Task, AdmittedRecord, Goes, Hits, Fault, Free, Resolve, Deciding, account, history, vars
<1>1. ASSUME NEW r \in Requests, TierHold(r) PROVE AdmittedRecord'
    BY <1>1 DEF TierHold
<1>2. ASSUME NEW r \in Requests, TierRefuse(r) PROVE AdmittedRecord'
    BY <1>2 DEF TierRefuse
<1>3. ASSUME NEW r \in Requests, CreditHold(r) PROVE AdmittedRecord'
    BY <1>3 DEF CreditHold, Account!Hold
<1>4. ASSUME NEW r \in Requests, CreditRefuse(r) PROVE AdmittedRecord'
    BY <1>4 DEF CreditRefuse
<1>5. ASSUME NEW r \in Requests, CreditFails(r) PROVE AdmittedRecord'
    BY <1>5 DEF CreditFails, Account!Hold
<1>6. ASSUME NEW r \in Requests, RatesPass(r) PROVE AdmittedRecord'
    BY <1>6 DEF RatesPass
<1>7. ASSUME NEW r \in Requests, RatesRefuse(r) PROVE AdmittedRecord'
    BY <1>7 DEF RatesRefuse
<1>8. ASSUME NEW r \in Requests, GiveCredit(r) PROVE AdmittedRecord'
    BY <1>8 DEF GiveCredit, Account!Release
<1>9. ASSUME NEW r \in Requests, GiveSlot(r) PROVE AdmittedRecord'
    BY <1>9 DEF GiveSlot
<1>10. ASSUME NEW r \in Requests, GiveBackFails(r) PROVE AdmittedRecord'
    BY <1>10 DEF GiveBackFails
<1>11. ASSUME NEW r \in Requests, Cancel(r) PROVE AdmittedRecord'
    BY <1>11 DEF Cancel
<1>12. ASSUME NEW r \in Requests, DispatchRecord(r) PROVE AdmittedRecord'
    BY <1>12 DEF DispatchRecord
<1>13. ASSUME NEW r \in Requests, Finish(r) PROVE AdmittedRecord'
    BY <1>13 DEF Finish
<1>14. ASSUME NEW r \in Requests, Sweep(r) PROVE AdmittedRecord'
    BY <1>14 DEF Sweep, Account!Release
<1>15. ASSUME NEW r \in Requests, SlotExpires(r) PROVE AdmittedRecord'
    BY <1>15 DEF SlotExpires
<1>16. ASSUME NEW x \in tasks, Record(x) PROVE AdmittedRecord'
    BY <1>16 DEF Record, Outcome
<1>17. ASSUME NEW x \in tasks, RecordFails(x) PROVE AdmittedRecord'
    BY <1>17 DEF RecordFails
<1>18. ASSUME NEW x \in tasks, SettleHold(x) PROVE AdmittedRecord'
    BY <1>18 DEF SettleHold, Account!Settle
<1>19. ASSUME NEW x \in tasks, ReleaseHold(x) PROVE AdmittedRecord'
    BY <1>19 DEF ReleaseHold, Account!Release
<1>20. ASSUME NEW x \in tasks, FreeSlot(x) PROVE AdmittedRecord'
    BY <1>20 DEF FreeSlot
<1>21. ASSUME NEW x \in tasks, CallFails(x) PROVE AdmittedRecord'
    BY <1>21 DEF CallFails
<1>22. ASSUME Crash PROVE AdmittedRecord'
    BY <1>22 DEF Crash
<1> QED
    BY <1>1, <1>2, <1>3, <1>4, <1>5, <1>6, <1>7, <1>8, <1>9, <1>10, <1>11, <1>12, <1>13, <1>14, <1>15, <1>16, <1>17, <1>18, <1>19, <1>20, <1>21, <1>22 DEF Next, Governs, Works

\* Neither hold is taken before its turn.
LEMMA NothingYetStep ==
    ASSUME TypeOK, AdmittedRecord, NothingYet, Next
    PROVE  NothingYet'
<1> USE AdmissionAssumption DEF AdmissionAssumption, TypeOK, Ended, Kinds, Task, AdmittedRecord, NothingYet, Goes, Hits, Fault, Free, Resolve, Deciding, account, history, vars
<1>1. ASSUME NEW r \in Requests, TierHold(r) PROVE NothingYet'
    BY <1>1 DEF TierHold
<1>2. ASSUME NEW r \in Requests, TierRefuse(r) PROVE NothingYet'
    BY <1>2 DEF TierRefuse
<1>3. ASSUME NEW r \in Requests, CreditHold(r) PROVE NothingYet'
    BY <1>3 DEF CreditHold, Account!Hold
<1>4. ASSUME NEW r \in Requests, CreditRefuse(r) PROVE NothingYet'
    BY <1>4 DEF CreditRefuse
<1>5. ASSUME NEW r \in Requests, CreditFails(r) PROVE NothingYet'
    BY <1>5 DEF CreditFails, Account!Hold
<1>6. ASSUME NEW r \in Requests, RatesPass(r) PROVE NothingYet'
    BY <1>6 DEF RatesPass
<1>7. ASSUME NEW r \in Requests, RatesRefuse(r) PROVE NothingYet'
    BY <1>7 DEF RatesRefuse
<1>8. ASSUME NEW r \in Requests, GiveCredit(r) PROVE NothingYet'
    BY <1>8 DEF GiveCredit, Account!Release
<1>9. ASSUME NEW r \in Requests, GiveSlot(r) PROVE NothingYet'
    BY <1>9 DEF GiveSlot
<1>10. ASSUME NEW r \in Requests, GiveBackFails(r) PROVE NothingYet'
    BY <1>10 DEF GiveBackFails
<1>11. ASSUME NEW r \in Requests, Cancel(r) PROVE NothingYet'
    BY <1>11 DEF Cancel
<1>12. ASSUME NEW r \in Requests, DispatchRecord(r) PROVE NothingYet'
    BY <1>12 DEF DispatchRecord
<1>13. ASSUME NEW r \in Requests, Finish(r) PROVE NothingYet'
    BY <1>13 DEF Finish
<1>14. ASSUME NEW r \in Requests, Sweep(r) PROVE NothingYet'
    BY <1>14 DEF Sweep, Account!Release
<1>15. ASSUME NEW r \in Requests, SlotExpires(r) PROVE NothingYet'
    BY <1>15 DEF SlotExpires
<1>16. ASSUME NEW x \in tasks, Record(x) PROVE NothingYet'
    BY <1>16 DEF Record, Outcome
<1>17. ASSUME NEW x \in tasks, RecordFails(x) PROVE NothingYet'
    BY <1>17 DEF RecordFails
<1>18. ASSUME NEW x \in tasks, SettleHold(x) PROVE NothingYet'
    BY <1>18 DEF SettleHold, Account!Settle
<1>19. ASSUME NEW x \in tasks, ReleaseHold(x) PROVE NothingYet'
    BY <1>19 DEF ReleaseHold, Account!Release
<1>20. ASSUME NEW x \in tasks, FreeSlot(x) PROVE NothingYet'
    BY <1>20 DEF FreeSlot
<1>21. ASSUME NEW x \in tasks, CallFails(x) PROVE NothingYet'
    BY <1>21 DEF CallFails
<1>22. ASSUME Crash PROVE NothingYet'
    BY <1>22 DEF Crash
<1> QED
    BY <1>1, <1>2, <1>3, <1>4, <1>5, <1>6, <1>7, <1>8, <1>9, <1>10, <1>11, <1>12, <1>13, <1>14, <1>15, <1>16, <1>17, <1>18, <1>19, <1>20, <1>21, <1>22 DEF Next, Governs, Works

\* A settle and a charge need a record.
LEMMA UnrecordedStep ==
    ASSUME TypeOK, AdmittedRecord, Unrecorded, Next
    PROVE  Unrecorded'
<1> USE AdmissionAssumption DEF AdmissionAssumption, TypeOK, Ended, Kinds, Task, AdmittedRecord, Unrecorded, Goes, Hits, Fault, Free, Resolve, Deciding, account, history, vars
<1>1. ASSUME NEW r \in Requests, TierHold(r) PROVE Unrecorded'
    BY <1>1 DEF TierHold
<1>2. ASSUME NEW r \in Requests, TierRefuse(r) PROVE Unrecorded'
    BY <1>2 DEF TierRefuse
<1>3. ASSUME NEW r \in Requests, CreditHold(r) PROVE Unrecorded'
    BY <1>3 DEF CreditHold, Account!Hold
<1>4. ASSUME NEW r \in Requests, CreditRefuse(r) PROVE Unrecorded'
    BY <1>4 DEF CreditRefuse
<1>5. ASSUME NEW r \in Requests, CreditFails(r) PROVE Unrecorded'
    BY <1>5 DEF CreditFails, Account!Hold
<1>6. ASSUME NEW r \in Requests, RatesPass(r) PROVE Unrecorded'
    BY <1>6 DEF RatesPass
<1>7. ASSUME NEW r \in Requests, RatesRefuse(r) PROVE Unrecorded'
    BY <1>7 DEF RatesRefuse
<1>8. ASSUME NEW r \in Requests, GiveCredit(r) PROVE Unrecorded'
    BY <1>8 DEF GiveCredit, Account!Release
<1>9. ASSUME NEW r \in Requests, GiveSlot(r) PROVE Unrecorded'
    BY <1>9 DEF GiveSlot
<1>10. ASSUME NEW r \in Requests, GiveBackFails(r) PROVE Unrecorded'
    BY <1>10 DEF GiveBackFails
<1>11. ASSUME NEW r \in Requests, Cancel(r) PROVE Unrecorded'
    BY <1>11 DEF Cancel
<1>12. ASSUME NEW r \in Requests, DispatchRecord(r) PROVE Unrecorded'
    BY <1>12 DEF DispatchRecord
<1>13. ASSUME NEW r \in Requests, Finish(r) PROVE Unrecorded'
    BY <1>13 DEF Finish
<1>14. ASSUME NEW r \in Requests, Sweep(r) PROVE Unrecorded'
    BY <1>14 DEF Sweep, Account!Release
<1>15. ASSUME NEW r \in Requests, SlotExpires(r) PROVE Unrecorded'
    BY <1>15 DEF SlotExpires
<1>16. ASSUME NEW x \in tasks, Record(x) PROVE Unrecorded'
    BY <1>16 DEF Record, Outcome
<1>17. ASSUME NEW x \in tasks, RecordFails(x) PROVE Unrecorded'
    BY <1>17 DEF RecordFails
<1>18. ASSUME NEW x \in tasks, SettleHold(x) PROVE Unrecorded'
    BY <1>18 DEF SettleHold, Account!Settle
<1>19. ASSUME NEW x \in tasks, ReleaseHold(x) PROVE Unrecorded'
    BY <1>19 DEF ReleaseHold, Account!Release
<1>20. ASSUME NEW x \in tasks, FreeSlot(x) PROVE Unrecorded'
    BY <1>20 DEF FreeSlot
<1>21. ASSUME NEW x \in tasks, CallFails(x) PROVE Unrecorded'
    BY <1>21 DEF CallFails
<1>22. ASSUME Crash PROVE Unrecorded'
    BY <1>22 DEF Crash
<1> QED
    BY <1>1, <1>2, <1>3, <1>4, <1>5, <1>6, <1>7, <1>8, <1>9, <1>10, <1>11, <1>12, <1>13, <1>14, <1>15, <1>16, <1>17, <1>18, <1>19, <1>20, <1>21, <1>22 DEF Next, Governs, Works

\* A settle starts after its cost was billed.
LEMMA SettlesBilledStep ==
    ASSUME TypeOK, SettlesBilled, Next
    PROVE  SettlesBilled'
<1> USE AdmissionAssumption DEF AdmissionAssumption, TypeOK, Ended, Kinds, Task, SettlesBilled, Goes, Hits, Fault, Free, Resolve, Deciding, account, history, vars
<1>1. ASSUME NEW r \in Requests, TierHold(r) PROVE SettlesBilled'
    BY <1>1 DEF TierHold
<1>2. ASSUME NEW r \in Requests, TierRefuse(r) PROVE SettlesBilled'
    BY <1>2 DEF TierRefuse
<1>3. ASSUME NEW r \in Requests, CreditHold(r) PROVE SettlesBilled'
    BY <1>3 DEF CreditHold, Account!Hold
<1>4. ASSUME NEW r \in Requests, CreditRefuse(r) PROVE SettlesBilled'
    BY <1>4 DEF CreditRefuse
<1>5. ASSUME NEW r \in Requests, CreditFails(r) PROVE SettlesBilled'
    BY <1>5 DEF CreditFails, Account!Hold
<1>6. ASSUME NEW r \in Requests, RatesPass(r) PROVE SettlesBilled'
    BY <1>6 DEF RatesPass
<1>7. ASSUME NEW r \in Requests, RatesRefuse(r) PROVE SettlesBilled'
    BY <1>7 DEF RatesRefuse
<1>8. ASSUME NEW r \in Requests, GiveCredit(r) PROVE SettlesBilled'
    BY <1>8 DEF GiveCredit, Account!Release
<1>9. ASSUME NEW r \in Requests, GiveSlot(r) PROVE SettlesBilled'
    BY <1>9 DEF GiveSlot
<1>10. ASSUME NEW r \in Requests, GiveBackFails(r) PROVE SettlesBilled'
    BY <1>10 DEF GiveBackFails
<1>11. ASSUME NEW r \in Requests, Cancel(r) PROVE SettlesBilled'
    BY <1>11 DEF Cancel
<1>12. ASSUME NEW r \in Requests, DispatchRecord(r) PROVE SettlesBilled'
    BY <1>12 DEF DispatchRecord
<1>13. ASSUME NEW r \in Requests, Finish(r) PROVE SettlesBilled'
    BY <1>13 DEF Finish
<1>14. ASSUME NEW r \in Requests, Sweep(r) PROVE SettlesBilled'
    BY <1>14 DEF Sweep, Account!Release
<1>15. ASSUME NEW r \in Requests, SlotExpires(r) PROVE SettlesBilled'
    BY <1>15 DEF SlotExpires
<1>16. ASSUME NEW x \in tasks, Record(x) PROVE SettlesBilled'
    BY <1>16 DEF Record, Outcome
<1>17. ASSUME NEW x \in tasks, RecordFails(x) PROVE SettlesBilled'
    <2>1. PICK c \in {0, x.cost} : billed' = [billed EXCEPT ![x.req] = @ + c]
        BY <1>17 DEF RecordFails
    <2>2. c \in Nat /\ x.req \in Requests
        BY DEF TypeOK, Task
    <2>3. \A q \in Requests : billed[q] <= billed'[q]
        BY <2>1, <2>2 DEF TypeOK
    <2>4. tasks' \subseteq tasks /\ tasks \subseteq Task
        BY <1>17 DEF RecordFails, TypeOK
    <2>5. billed' \in [Requests -> Nat]
        BY <2>1, <2>2 DEF TypeOK
    <2> SUFFICES ASSUME NEW y \in tasks', y.kind = "settle"
                 PROVE  y.cost <= billed'[y.req]
        BY DEF SettlesBilled
    <2>6. y \in tasks /\ y.req \in Requests /\ y.cost \in Nat
        <3>1. y \in tasks /\ y \in Task
            BY <2>4
        <3>2. y.req \in Requests /\ y.cost \in Costs
            BY <3>1 DEF Task
        <3> QED BY <3>1, <3>2
    <2>7. y.cost <= billed[y.req] /\ billed[y.req] <= billed'[y.req]
        BY <2>3, <2>6 DEF SettlesBilled
    <2>8. billed[y.req] \in Nat /\ billed'[y.req] \in Nat
        BY <2>5, <2>6 DEF TypeOK
    <2> HIDE DEF SettlesBilled, TypeOK, Task
    <2> QED BY <2>6, <2>7, <2>8
<1>18. ASSUME NEW x \in tasks, SettleHold(x) PROVE SettlesBilled'
    BY <1>18 DEF SettleHold, Account!Settle
<1>19. ASSUME NEW x \in tasks, ReleaseHold(x) PROVE SettlesBilled'
    BY <1>19 DEF ReleaseHold, Account!Release
<1>20. ASSUME NEW x \in tasks, FreeSlot(x) PROVE SettlesBilled'
    BY <1>20 DEF FreeSlot
<1>21. ASSUME NEW x \in tasks, CallFails(x) PROVE SettlesBilled'
    BY <1>21 DEF CallFails
<1>22. ASSUME Crash PROVE SettlesBilled'
    BY <1>22 DEF Crash
<1> QED
    BY <1>1, <1>2, <1>3, <1>4, <1>5, <1>6, <1>7, <1>8, <1>9, <1>10, <1>11, <1>12, <1>13, <1>14, <1>15, <1>16, <1>17, <1>18, <1>19, <1>20, <1>21, <1>22 DEF Next, Governs, Works

\* The hold is open from the admission on, and given back before the slot.
LEMMA HoldsByStageStep ==
    ASSUME TypeOK, AdmittedRecord, NothingYet, HoldsByStage, Next
    PROVE  HoldsByStage'
<1> USE AdmissionAssumption DEF AdmissionAssumption, TypeOK, Ended, Kinds, Task, AdmittedRecord, NothingYet, HoldsByStage, Goes, Hits, Fault, Free, Resolve, Deciding, account, history, vars
<1>1. ASSUME NEW r \in Requests, TierHold(r) PROVE HoldsByStage'
    BY <1>1 DEF TierHold
<1>2. ASSUME NEW r \in Requests, TierRefuse(r) PROVE HoldsByStage'
    BY <1>2 DEF TierRefuse
<1>3. ASSUME NEW r \in Requests, CreditHold(r) PROVE HoldsByStage'
    BY <1>3 DEF CreditHold, Account!Hold
<1>4. ASSUME NEW r \in Requests, CreditRefuse(r) PROVE HoldsByStage'
    BY <1>4 DEF CreditRefuse
<1>5. ASSUME NEW r \in Requests, CreditFails(r) PROVE HoldsByStage'
    BY <1>5 DEF CreditFails, Account!Hold
<1>6. ASSUME NEW r \in Requests, RatesPass(r) PROVE HoldsByStage'
    BY <1>6 DEF RatesPass
<1>7. ASSUME NEW r \in Requests, RatesRefuse(r) PROVE HoldsByStage'
    BY <1>7 DEF RatesRefuse
<1>8. ASSUME NEW r \in Requests, GiveCredit(r) PROVE HoldsByStage'
    BY <1>8 DEF GiveCredit, Account!Release
<1>9. ASSUME NEW r \in Requests, GiveSlot(r) PROVE HoldsByStage'
    BY <1>9 DEF GiveSlot
<1>10. ASSUME NEW r \in Requests, GiveBackFails(r) PROVE HoldsByStage'
    BY <1>10 DEF GiveBackFails
<1>11. ASSUME NEW r \in Requests, Cancel(r) PROVE HoldsByStage'
    BY <1>11 DEF Cancel
<1>12. ASSUME NEW r \in Requests, DispatchRecord(r) PROVE HoldsByStage'
    BY <1>12 DEF DispatchRecord
<1>13. ASSUME NEW r \in Requests, Finish(r) PROVE HoldsByStage'
    BY <1>13 DEF Finish
<1>14. ASSUME NEW r \in Requests, Sweep(r) PROVE HoldsByStage'
    BY <1>14 DEF Sweep, Account!Release
<1>15. ASSUME NEW r \in Requests, SlotExpires(r) PROVE HoldsByStage'
    BY <1>15 DEF SlotExpires
<1>16. ASSUME NEW x \in tasks, Record(x) PROVE HoldsByStage'
    BY <1>16 DEF Record, Outcome
<1>17. ASSUME NEW x \in tasks, RecordFails(x) PROVE HoldsByStage'
    BY <1>17 DEF RecordFails
<1>18. ASSUME NEW x \in tasks, SettleHold(x) PROVE HoldsByStage'
    BY <1>18 DEF SettleHold, Account!Settle
<1>19. ASSUME NEW x \in tasks, ReleaseHold(x) PROVE HoldsByStage'
    BY <1>19 DEF ReleaseHold, Account!Release
<1>20. ASSUME NEW x \in tasks, FreeSlot(x) PROVE HoldsByStage'
    BY <1>20 DEF FreeSlot
<1>21. ASSUME NEW x \in tasks, CallFails(x) PROVE HoldsByStage'
    BY <1>21 DEF CallFails
<1>22. ASSUME Crash PROVE HoldsByStage'
    BY <1>22 DEF Crash
<1> QED
    BY <1>1, <1>2, <1>3, <1>4, <1>5, <1>6, <1>7, <1>8, <1>9, <1>10, <1>11, <1>12, <1>13, <1>14, <1>15, <1>16, <1>17, <1>18, <1>19, <1>20, <1>21, <1>22 DEF Next, Governs, Works

\* A request whose record, hold and bill do not change keeps its place.
LEMMA OneRecordFrame ==
    ASSUME OneRecord, NEW q \in Requests, UNCHANGED <<records[q], mishaps[q], status[q], billed[q], cost[q]>>,
           Awaited(q)' = Awaited(q)
    PROVE  (records'[q] = 1 /\ mishaps'[q] = {}) => OneRecordOf(q)'
BY DEF OneRecord, OneRecordOf

\* A single record's outcome reaches the hold.
LEMMA OneRecordStep ==
    ASSUME TypeOK, AdmittedRecord, Unrecorded, HoldsByStage, OneRecord, Next
    PROVE  OneRecord'
<1> USE AdmissionAssumption DEF AdmissionAssumption, TypeOK, Ended, Kinds, Task, OneRecord, Goes, Hits, Fault, Free, Resolve, Deciding, account, history, vars
<1>1. ASSUME NEW r \in Requests, TierHold(r) PROVE OneRecord'
    BY <1>1, OneRecordFrame DEF TierHold, Awaited
<1>2. ASSUME NEW r \in Requests, TierRefuse(r) PROVE OneRecord'
    BY <1>2, OneRecordFrame DEF TierRefuse, Awaited
<1>3. ASSUME NEW r \in Requests, CreditHold(r) PROVE OneRecord'
    <2> SUFFICES ASSUME NEW q \in Requests, records'[q] = 1, mishaps'[q] = {}
                 PROVE  OneRecordOf(q)'
        OBVIOUS
    <2>1. records[r] = 0 /\ UNCHANGED records
        BY <1>3 DEF CreditHold, Account!Hold, AdmittedRecord
    <2>2. q # r
        BY <2>1
    <2>3. UNCHANGED <<mishaps[q], status[q], billed, cost[q], tasks>>
        BY <1>3, <2>2 DEF CreditHold, Account!Hold
    <2>4. Awaited(q)' = Awaited(q)
        BY <2>3 DEF Awaited
    <2> QED BY <2>1, <2>3, <2>4, OneRecordFrame
<1>4. ASSUME NEW r \in Requests, CreditRefuse(r) PROVE OneRecord'
    BY <1>4, OneRecordFrame DEF CreditRefuse, Awaited
<1>5. ASSUME NEW r \in Requests, CreditFails(r) PROVE OneRecord'
    <2> SUFFICES ASSUME NEW q \in Requests, records'[q] = 1, mishaps'[q] = {}
                 PROVE  OneRecordOf(q)'
        OBVIOUS
    <2>1. records[r] = 0 /\ UNCHANGED records
        BY <1>5 DEF CreditFails, Account!Hold, AdmittedRecord
    <2>2. q # r
        BY <2>1
    <2>3. UNCHANGED <<mishaps[q], status[q], billed, cost[q], tasks>>
        BY <1>5, <2>2 DEF CreditFails, Account!Hold
    <2>4. Awaited(q)' = Awaited(q)
        BY <2>3 DEF Awaited
    <2> QED BY <2>1, <2>3, <2>4, OneRecordFrame
<1>6. ASSUME NEW r \in Requests, RatesPass(r) PROVE OneRecord'
    BY <1>6, OneRecordFrame DEF RatesPass, Awaited
<1>7. ASSUME NEW r \in Requests, RatesRefuse(r) PROVE OneRecord'
    BY <1>7, OneRecordFrame DEF RatesRefuse, Awaited
<1>8. ASSUME NEW r \in Requests, GiveCredit(r) PROVE OneRecord'
    <2> SUFFICES ASSUME NEW q \in Requests, records'[q] = 1, mishaps'[q] = {}
                 PROVE  OneRecordOf(q)'
        OBVIOUS
    <2>1. records[r] = 0 /\ UNCHANGED records
        BY <1>8 DEF GiveCredit, Account!Release, AdmittedRecord
    <2>2. q # r
        BY <2>1
    <2>3. UNCHANGED <<mishaps[q], status[q], billed, cost[q], tasks>>
        BY <1>8, <2>2 DEF GiveCredit, Account!Release
    <2>4. Awaited(q)' = Awaited(q)
        BY <2>3 DEF Awaited
    <2> QED BY <2>1, <2>3, <2>4, OneRecordFrame
<1>9. ASSUME NEW r \in Requests, GiveSlot(r) PROVE OneRecord'
    BY <1>9, OneRecordFrame DEF GiveSlot, Awaited
<1>10. ASSUME NEW r \in Requests, GiveBackFails(r) PROVE OneRecord'
    BY <1>10, OneRecordFrame DEF GiveBackFails, Awaited
<1>11. ASSUME NEW r \in Requests, Cancel(r) PROVE OneRecord'
    BY <1>11, OneRecordFrame DEF Cancel, Awaited
<1>12. ASSUME NEW r \in Requests, DispatchRecord(r) PROVE OneRecord'
    <2> SUFFICES ASSUME NEW q \in Requests, records'[q] = 1, mishaps'[q] = {}
                 PROVE  OneRecordOf(q)'
        OBVIOUS
    <2>1. PICK c \in Costs : tasks' = tasks \cup
              {[req |-> r, n |-> records[r] + 1, kind |-> "record", cost |-> c]}
        BY <1>12 DEF DispatchRecord
    <2>2. CASE q # r
        <3>1. Awaited(q)' = Awaited(q)
            BY <2>1, <2>2 DEF Awaited
        <3>2. UNCHANGED <<records[q], mishaps, status, billed, cost>>
            BY <1>12, <2>2 DEF DispatchRecord
        <3> QED BY <3>1, <3>2, OneRecordFrame
    <2>3. CASE q = r
        <3>1. records[q] = 0 /\ mishaps[q] = {} /\ pc[q] = "serving"
            BY <1>12, <2>3 DEF DispatchRecord
        <3>2. status'[q] = "open" /\ billed'[q] = 0
            BY <1>12, <3>1 DEF DispatchRecord, Unrecorded, HoldsByStage
        <3> DEFINE y == [req |-> r, n |-> records[r] + 1, kind |-> "record", cost |-> c]
        <3>3. Awaited(q)' = {y}
            BY <2>1, <2>3, <3>1 DEF Awaited, AdmittedRecord
        <3>4. y.kind = "record" OBVIOUS
        <3> HIDE DEF y
        <3> QED BY <3>2, <3>3, <3>4 DEF OneRecordOf
    <2> QED BY <2>2, <2>3
<1>13. ASSUME NEW r \in Requests, Finish(r) PROVE OneRecord'
    BY <1>13, OneRecordFrame DEF Finish, Awaited
<1>14. ASSUME NEW r \in Requests, Sweep(r) PROVE OneRecord'
    <2> SUFFICES ASSUME NEW q \in Requests, records'[q] = 1, mishaps'[q] = {}
                 PROVE  OneRecordOf(q)'
        OBVIOUS
    <2>1. q # r
        BY <1>14 DEF Sweep
    <2>2. UNCHANGED <<mishaps[q], status[q], billed, cost[q], tasks, records>>
        BY <1>14, <2>1 DEF Sweep, Account!Release
    <2>3. Awaited(q)' = Awaited(q)
        BY <2>2 DEF Awaited
    <2> QED BY <2>2, <2>3, OneRecordFrame
<1>15. ASSUME NEW r \in Requests, SlotExpires(r) PROVE OneRecord'
    BY <1>15, OneRecordFrame DEF SlotExpires, Awaited
<1>16. ASSUME NEW x \in tasks, Record(x) PROVE OneRecord'
    <2> SUFFICES ASSUME NEW q \in Requests, records'[q] = 1, mishaps'[q] = {}
                 PROVE  OneRecordOf(q)'
        OBVIOUS
    <2>1. CASE q # x.req
        <3>1. Awaited(q)' = Awaited(q)
            BY <1>16, <2>1 DEF Awaited, Record, Outcome
        <3>2. UNCHANGED <<mishaps[q], status[q], billed[q], cost[q], records>>
            BY <1>16, <2>1 DEF Record, Outcome
        <3> QED BY <3>1, <3>2, OneRecordFrame
    <2>2. CASE q = x.req
        <3>1. OneRecordOf(q) /\ x \in Awaited(q)
            BY <1>16, <2>2 DEF Record, Awaited
        <3>2. status[q] = "open" /\ Awaited(q) = {x} /\ billed[q] = 0
            BY <1>16, <3>1 DEF Record, OneRecordOf
        <3>3. /\ x.cost \in Nat /\ billed'[q] = x.cost /\ status'[q] = "open"
            BY <1>16, <2>2, <3>2 DEF Record
        <3> DEFINE y == [x EXCEPT !.kind = IF x.cost > 0 THEN "settle" ELSE "release"]
        <3>4. Awaited(q)' = {y}
            BY <1>16, <2>2, <3>2 DEF Record, Outcome, Awaited
        <3>5. y.kind = (IF x.cost > 0 THEN "settle" ELSE "release") /\ y.cost = x.cost
            BY DEF Task
        <3> HIDE DEF y
        <3> QED BY <3>3, <3>4, <3>5 DEF OneRecordOf
    <2> QED BY <2>1, <2>2
<1>17. ASSUME NEW x \in tasks, RecordFails(x) PROVE OneRecord'
    <2> SUFFICES ASSUME NEW q \in Requests, records'[q] = 1, mishaps'[q] = {}
                 PROVE  OneRecordOf(q)'
        OBVIOUS
    <2>1. CASE q # x.req
        <3>1. Awaited(q)' = Awaited(q)
            BY <1>17, <2>1 DEF Awaited, RecordFails
        <3>2. UNCHANGED <<mishaps[q], status[q], billed[q], cost[q], records>>
            BY <1>17, <2>1 DEF RecordFails
        <3> QED BY <3>1, <3>2, OneRecordFrame
    <2>2. CASE q = x.req
        BY <1>17, <2>2 DEF RecordFails
    <2> QED BY <2>1, <2>2
<1>18. ASSUME NEW x \in tasks, SettleHold(x) PROVE OneRecord'
    <2> SUFFICES ASSUME NEW q \in Requests, records'[q] = 1, mishaps'[q] = {}
                 PROVE  OneRecordOf(q)'
        OBVIOUS
    <2>1. CASE q # x.req
        <3>1. Awaited(q)' = Awaited(q)
            BY <1>18, <2>1 DEF Awaited, SettleHold, Account!Settle
        <3>2. UNCHANGED <<mishaps[q], status[q], billed[q], cost[q], records>>
            BY <1>18, <2>1 DEF SettleHold, Account!Settle
        <3> QED BY <3>1, <3>2, OneRecordFrame
    <2>2. CASE q = x.req
        <3>1. OneRecordOf(q) /\ x \in Awaited(q)
            BY <1>18, <2>2 DEF SettleHold, Awaited
        <3>2. status[q] = "open" /\ Awaited(q) = {x} /\ x.cost = billed[q] /\ billed[q] > 0
            BY <1>18, <3>1 DEF SettleHold, OneRecordOf
        <3>3. Awaited(q)' = {}
            BY <1>18, <3>2 DEF SettleHold, Awaited
        <3>4. billed'[q] = billed[q] /\ status'[q] = "settled" /\ cost'[q] = x.cost
            BY <1>18, <2>2, <3>2 DEF SettleHold, Account!Settle
        <3> QED BY <3>2, <3>3, <3>4 DEF OneRecordOf
    <2> QED BY <2>1, <2>2
<1>19. ASSUME NEW x \in tasks, ReleaseHold(x) PROVE OneRecord'
    <2> SUFFICES ASSUME NEW q \in Requests, records'[q] = 1, mishaps'[q] = {}
                 PROVE  OneRecordOf(q)'
        OBVIOUS
    <2>1. CASE q # x.req
        <3>1. Awaited(q)' = Awaited(q)
            BY <1>19, <2>1 DEF Awaited, ReleaseHold, Account!Release
        <3>2. UNCHANGED <<mishaps[q], status[q], billed[q], cost[q], records>>
            BY <1>19, <2>1 DEF ReleaseHold, Account!Release
        <3> QED BY <3>1, <3>2, OneRecordFrame
    <2>2. CASE q = x.req
        <3>1. OneRecordOf(q) /\ x \in Awaited(q)
            BY <1>19, <2>2 DEF ReleaseHold, Awaited
        <3>2. status[q] = "open" /\ Awaited(q) = {x} /\ billed[q] = 0
            BY <1>19, <3>1 DEF ReleaseHold, OneRecordOf
        <3>3. Awaited(q)' = {}
            BY <1>19, <3>2 DEF ReleaseHold, Awaited
        <3>4. billed'[q] = billed[q] /\ status'[q] = "released"
            BY <1>19, <2>2, <3>2 DEF ReleaseHold, Account!Release
        <3> QED BY <3>2, <3>3, <3>4 DEF OneRecordOf
    <2> QED BY <2>1, <2>2
<1>20. ASSUME NEW x \in tasks, FreeSlot(x) PROVE OneRecord'
    <2> SUFFICES ASSUME NEW q \in Requests, records'[q] = 1, mishaps'[q] = {}
                 PROVE  OneRecordOf(q)'
        OBVIOUS
    <2>1. CASE q # x.req
        <3>1. Awaited(q)' = Awaited(q)
            BY <1>20, <2>1 DEF Awaited, FreeSlot
        <3>2. UNCHANGED <<mishaps[q], status[q], billed[q], cost[q], records>>
            BY <1>20, <2>1 DEF FreeSlot
        <3> QED BY <3>1, <3>2, OneRecordFrame
    <2>2. CASE q = x.req
        <3>1. Awaited(q)' = Awaited(q)
            BY <1>20 DEF Awaited, FreeSlot
        <3> QED BY <1>20, <3>1, OneRecordFrame DEF FreeSlot
    <2> QED BY <2>1, <2>2
<1>21. ASSUME NEW x \in tasks, CallFails(x) PROVE OneRecord'
    <2> SUFFICES ASSUME NEW q \in Requests, records'[q] = 1, mishaps'[q] = {}
                 PROVE  OneRecordOf(q)'
        OBVIOUS
    <2>1. CASE q # x.req
        <3>1. Awaited(q)' = Awaited(q)
            BY <1>21, <2>1 DEF Awaited, CallFails
        <3>2. UNCHANGED <<mishaps[q], status[q], billed[q], cost[q], records>>
            BY <1>21, <2>1 DEF CallFails
        <3> QED BY <3>1, <3>2, OneRecordFrame
    <2>2. CASE q = x.req
        BY <1>21, <2>2 DEF CallFails
    <2> QED BY <2>1, <2>2
<1>22. ASSUME Crash PROVE OneRecord'
    <2> SUFFICES ASSUME NEW q \in Requests, records'[q] = 1, mishaps'[q] = {}
                 PROVE  OneRecordOf(q)'
        OBVIOUS
    <2>1. TasksOf(q) = {} /\ mishaps[q] = {}
        BY <1>22 DEF Crash
    <2>2. Awaited(q) = {} /\ Awaited(q)' = {}
        BY <1>22, <2>1 DEF Crash, TasksOf, Awaited
    <2>3. OneRecordOf(q)
        BY <1>22, <2>1 DEF Crash
    <2> QED BY <1>22, <2>2, <2>3 DEF Crash, OneRecordOf, account
<1> QED
    BY <1>1, <1>2, <1>3, <1>4, <1>5, <1>6, <1>7, <1>8, <1>9, <1>10, <1>11, <1>12, <1>13, <1>14, <1>15, <1>16, <1>17, <1>18, <1>19, <1>20, <1>21, <1>22 DEF Next, Governs, Works

\* A refusal gives back what was taken.
LEMMA RefusedGivesBackStep ==
    ASSUME TypeOK, AdmittedRecord, NothingYet, Unrecorded, HoldsByStage, RefusedGivesBack, Next
    PROVE  RefusedGivesBack'
<1> USE AdmissionAssumption DEF AdmissionAssumption, TypeOK, Ended, Kinds, Task, AdmittedRecord, NothingYet, Unrecorded, HoldsByStage, RefusedGivesBack, Goes, Hits, Fault, Free, Resolve, Deciding, account, history, vars
<1>1. ASSUME NEW r \in Requests, TierHold(r) PROVE RefusedGivesBack'
    BY <1>1 DEF TierHold
<1>2. ASSUME NEW r \in Requests, TierRefuse(r) PROVE RefusedGivesBack'
    BY <1>2 DEF TierRefuse
<1>3. ASSUME NEW r \in Requests, CreditHold(r) PROVE RefusedGivesBack'
    BY <1>3 DEF CreditHold, Account!Hold
<1>4. ASSUME NEW r \in Requests, CreditRefuse(r) PROVE RefusedGivesBack'
    BY <1>4 DEF CreditRefuse
<1>5. ASSUME NEW r \in Requests, CreditFails(r) PROVE RefusedGivesBack'
    BY <1>5 DEF CreditFails, Account!Hold
<1>6. ASSUME NEW r \in Requests, RatesPass(r) PROVE RefusedGivesBack'
    BY <1>6 DEF RatesPass
<1>7. ASSUME NEW r \in Requests, RatesRefuse(r) PROVE RefusedGivesBack'
    BY <1>7 DEF RatesRefuse
<1>8. ASSUME NEW r \in Requests, GiveCredit(r) PROVE RefusedGivesBack'
    BY <1>8 DEF GiveCredit, Account!Release
<1>9. ASSUME NEW r \in Requests, GiveSlot(r) PROVE RefusedGivesBack'
    BY <1>9 DEF GiveSlot
<1>10. ASSUME NEW r \in Requests, GiveBackFails(r) PROVE RefusedGivesBack'
    BY <1>10 DEF GiveBackFails
<1>11. ASSUME NEW r \in Requests, Cancel(r) PROVE RefusedGivesBack'
    BY <1>11 DEF Cancel
<1>12. ASSUME NEW r \in Requests, DispatchRecord(r) PROVE RefusedGivesBack'
    BY <1>12 DEF DispatchRecord
<1>13. ASSUME NEW r \in Requests, Finish(r) PROVE RefusedGivesBack'
    BY <1>13 DEF Finish
<1>14. ASSUME NEW r \in Requests, Sweep(r) PROVE RefusedGivesBack'
    BY <1>14 DEF Sweep, Account!Release
<1>15. ASSUME NEW r \in Requests, SlotExpires(r) PROVE RefusedGivesBack'
    BY <1>15 DEF SlotExpires
<1>16. ASSUME NEW x \in tasks, Record(x) PROVE RefusedGivesBack'
    BY <1>16 DEF Record, Outcome
<1>17. ASSUME NEW x \in tasks, RecordFails(x) PROVE RefusedGivesBack'
    BY <1>17 DEF RecordFails
<1>18. ASSUME NEW x \in tasks, SettleHold(x) PROVE RefusedGivesBack'
    BY <1>18 DEF SettleHold, Account!Settle
<1>19. ASSUME NEW x \in tasks, ReleaseHold(x) PROVE RefusedGivesBack'
    BY <1>19 DEF ReleaseHold, Account!Release
<1>20. ASSUME NEW x \in tasks, FreeSlot(x) PROVE RefusedGivesBack'
    BY <1>20 DEF FreeSlot
<1>21. ASSUME NEW x \in tasks, CallFails(x) PROVE RefusedGivesBack'
    BY <1>21 DEF CallFails
<1>22. ASSUME Crash PROVE RefusedGivesBack'
    BY <1>22 DEF Crash
<1> QED
    BY <1>1, <1>2, <1>3, <1>4, <1>5, <1>6, <1>7, <1>8, <1>9, <1>10, <1>11, <1>12, <1>13, <1>14, <1>15, <1>16, <1>17, <1>18, <1>19, <1>20, <1>21, <1>22 DEF Next, Governs, Works

\* What a settle charges was billed before.
LEMMA NeverOverchargedStep ==
    ASSUME TypeOK, SettlesBilled, NeverOvercharged, Next
    PROVE  NeverOvercharged'
<1> USE AdmissionAssumption DEF AdmissionAssumption, TypeOK, Ended, Kinds, Task, SettlesBilled, NeverOvercharged, Goes, Hits, Fault, Free, Resolve, Deciding, account, history, vars
<1>1. ASSUME NEW r \in Requests, TierHold(r) PROVE NeverOvercharged'
    BY <1>1 DEF TierHold
<1>2. ASSUME NEW r \in Requests, TierRefuse(r) PROVE NeverOvercharged'
    BY <1>2 DEF TierRefuse
<1>3. ASSUME NEW r \in Requests, CreditHold(r) PROVE NeverOvercharged'
    BY <1>3 DEF CreditHold, Account!Hold
<1>4. ASSUME NEW r \in Requests, CreditRefuse(r) PROVE NeverOvercharged'
    BY <1>4 DEF CreditRefuse
<1>5. ASSUME NEW r \in Requests, CreditFails(r) PROVE NeverOvercharged'
    BY <1>5 DEF CreditFails, Account!Hold
<1>6. ASSUME NEW r \in Requests, RatesPass(r) PROVE NeverOvercharged'
    BY <1>6 DEF RatesPass
<1>7. ASSUME NEW r \in Requests, RatesRefuse(r) PROVE NeverOvercharged'
    BY <1>7 DEF RatesRefuse
<1>8. ASSUME NEW r \in Requests, GiveCredit(r) PROVE NeverOvercharged'
    BY <1>8 DEF GiveCredit, Account!Release
<1>9. ASSUME NEW r \in Requests, GiveSlot(r) PROVE NeverOvercharged'
    BY <1>9 DEF GiveSlot
<1>10. ASSUME NEW r \in Requests, GiveBackFails(r) PROVE NeverOvercharged'
    BY <1>10 DEF GiveBackFails
<1>11. ASSUME NEW r \in Requests, Cancel(r) PROVE NeverOvercharged'
    BY <1>11 DEF Cancel
<1>12. ASSUME NEW r \in Requests, DispatchRecord(r) PROVE NeverOvercharged'
    BY <1>12 DEF DispatchRecord
<1>13. ASSUME NEW r \in Requests, Finish(r) PROVE NeverOvercharged'
    BY <1>13 DEF Finish
<1>14. ASSUME NEW r \in Requests, Sweep(r) PROVE NeverOvercharged'
    BY <1>14 DEF Sweep, Account!Release
<1>15. ASSUME NEW r \in Requests, SlotExpires(r) PROVE NeverOvercharged'
    BY <1>15 DEF SlotExpires
<1>16. ASSUME NEW x \in tasks, Record(x) PROVE NeverOvercharged'
    BY <1>16 DEF Record, Outcome
<1>17. ASSUME NEW x \in tasks, RecordFails(x) PROVE NeverOvercharged'
    BY <1>17 DEF RecordFails
<1>18. ASSUME NEW x \in tasks, SettleHold(x) PROVE NeverOvercharged'
    BY <1>18 DEF SettleHold, Account!Settle
<1>19. ASSUME NEW x \in tasks, ReleaseHold(x) PROVE NeverOvercharged'
    BY <1>19 DEF ReleaseHold, Account!Release
<1>20. ASSUME NEW x \in tasks, FreeSlot(x) PROVE NeverOvercharged'
    BY <1>20 DEF FreeSlot
<1>21. ASSUME NEW x \in tasks, CallFails(x) PROVE NeverOvercharged'
    BY <1>21 DEF CallFails
<1>22. ASSUME Crash PROVE NeverOvercharged'
    BY <1>22 DEF Crash
<1> QED
    BY <1>1, <1>2, <1>3, <1>4, <1>5, <1>6, <1>7, <1>8, <1>9, <1>10, <1>11, <1>12, <1>13, <1>14, <1>15, <1>16, <1>17, <1>18, <1>19, <1>20, <1>21, <1>22 DEF Next, Governs, Works

\* Only a record's callback or the TTL takes the slot of a running request.
LEMMA ServedInSlotStep ==
    ASSUME TypeOK, AdmittedRecord, NothingYet, ServedInSlot, Next
    PROVE  ServedInSlot'
<1> USE AdmissionAssumption DEF AdmissionAssumption, TypeOK, Ended, Kinds, Task, AdmittedRecord, NothingYet, ServedInSlot, Goes, Hits, Fault, Free, Resolve, Deciding, account, history, vars
<1>1. ASSUME NEW r \in Requests, TierHold(r) PROVE ServedInSlot'
    BY <1>1 DEF TierHold
<1>2. ASSUME NEW r \in Requests, TierRefuse(r) PROVE ServedInSlot'
    BY <1>2 DEF TierRefuse
<1>3. ASSUME NEW r \in Requests, CreditHold(r) PROVE ServedInSlot'
    BY <1>3 DEF CreditHold, Account!Hold
<1>4. ASSUME NEW r \in Requests, CreditRefuse(r) PROVE ServedInSlot'
    BY <1>4 DEF CreditRefuse
<1>5. ASSUME NEW r \in Requests, CreditFails(r) PROVE ServedInSlot'
    BY <1>5 DEF CreditFails, Account!Hold
<1>6. ASSUME NEW r \in Requests, RatesPass(r) PROVE ServedInSlot'
    BY <1>6 DEF RatesPass
<1>7. ASSUME NEW r \in Requests, RatesRefuse(r) PROVE ServedInSlot'
    BY <1>7 DEF RatesRefuse
<1>8. ASSUME NEW r \in Requests, GiveCredit(r) PROVE ServedInSlot'
    BY <1>8 DEF GiveCredit, Account!Release
<1>9. ASSUME NEW r \in Requests, GiveSlot(r) PROVE ServedInSlot'
    BY <1>9 DEF GiveSlot
<1>10. ASSUME NEW r \in Requests, GiveBackFails(r) PROVE ServedInSlot'
    BY <1>10 DEF GiveBackFails
<1>11. ASSUME NEW r \in Requests, Cancel(r) PROVE ServedInSlot'
    BY <1>11 DEF Cancel
<1>12. ASSUME NEW r \in Requests, DispatchRecord(r) PROVE ServedInSlot'
    BY <1>12 DEF DispatchRecord
<1>13. ASSUME NEW r \in Requests, Finish(r) PROVE ServedInSlot'
    BY <1>13 DEF Finish
<1>14. ASSUME NEW r \in Requests, Sweep(r) PROVE ServedInSlot'
    BY <1>14 DEF Sweep, Account!Release
<1>15. ASSUME NEW r \in Requests, SlotExpires(r) PROVE ServedInSlot'
    BY <1>15 DEF SlotExpires
<1>16. ASSUME NEW x \in tasks, Record(x) PROVE ServedInSlot'
    BY <1>16 DEF Record, Outcome
<1>17. ASSUME NEW x \in tasks, RecordFails(x) PROVE ServedInSlot'
    BY <1>17 DEF RecordFails
<1>18. ASSUME NEW x \in tasks, SettleHold(x) PROVE ServedInSlot'
    BY <1>18 DEF SettleHold, Account!Settle
<1>19. ASSUME NEW x \in tasks, ReleaseHold(x) PROVE ServedInSlot'
    BY <1>19 DEF ReleaseHold, Account!Release
<1>20. ASSUME NEW x \in tasks, FreeSlot(x) PROVE ServedInSlot'
    BY <1>20 DEF FreeSlot
<1>21. ASSUME NEW x \in tasks, CallFails(x) PROVE ServedInSlot'
    BY <1>21 DEF CallFails
<1>22. ASSUME Crash PROVE ServedInSlot'
    BY <1>22 DEF Crash
<1> QED
    BY <1>1, <1>2, <1>3, <1>4, <1>5, <1>6, <1>7, <1>8, <1>9, <1>10, <1>11, <1>12, <1>13, <1>14, <1>15, <1>16, <1>17, <1>18, <1>19, <1>20, <1>21, <1>22 DEF Next, Governs, Works

-----------------------------------------------------------------------------
\* A step that changes nothing keeps the invariant.
LEMMA AInvStutter == ASSUME AInv, UNCHANGED vars PROVE AInv'
<1> USE DEF vars, account, history
<1>1. TypeOK' BY DEF AInv, TypeOK
<1>2. AdmittedRecord' BY DEF AInv, AdmittedRecord
<1>3. NothingYet' BY DEF AInv, NothingYet
<1>4. Unrecorded' BY DEF AInv, Unrecorded
<1>5. SettlesBilled' BY DEF AInv, SettlesBilled
<1>6. HoldsByStage' BY DEF AInv, HoldsByStage
<1>7. OneRecord' BY DEF AInv, OneRecord, OneRecordOf, Awaited
<1>8. RefusedGivesBack' BY DEF AInv, RefusedGivesBack
<1>9. NeverOvercharged' BY DEF AInv, NeverOvercharged
<1>10. ServedInSlot' BY DEF AInv, ServedInSlot
<1> QED BY <1>1, <1>2, <1>3, <1>4, <1>5, <1>6, <1>7, <1>8, <1>9, <1>10 DEF AInv

\* AInv is inductive.
LEMMA AInvStep == ASSUME AInv, [Next]_vars PROVE AInv'
<1>1. CASE Next
    BY <1>1, TypeOKStep, AdmittedRecordStep, NothingYetStep, UnrecordedStep, SettlesBilledStep,
       HoldsByStageStep, OneRecordStep, RefusedGivesBackStep, NeverOverchargedStep, ServedInSlotStep DEF AInv
<1>2. CASE UNCHANGED vars
    BY <1>2, AInvStutter
<1> QED BY <1>1, <1>2

\* Initially nothing is taken, recorded or billed.
LEMMA AInvInit == ASSUME Init PROVE AInv
<1> USE AdmissionAssumption DEF AdmissionAssumption, Init, Deciding
<1>1. TypeOK BY DEF TypeOK, Ended, Task
<1>2. AdmittedRecord BY DEF AdmittedRecord
<1>3. NothingYet BY DEF NothingYet
<1>4. Unrecorded BY DEF Unrecorded
<1>5. SettlesBilled BY DEF SettlesBilled
<1>6. HoldsByStage BY DEF HoldsByStage
<1>7. OneRecord BY DEF OneRecord, OneRecordOf, Awaited
<1>8. RefusedGivesBack BY DEF RefusedGivesBack
<1>9. NeverOvercharged BY DEF NeverOvercharged
<1>10. ServedInSlot BY DEF ServedInSlot
<1> QED BY <1>1, <1>2, <1>3, <1>4, <1>5, <1>6, <1>7, <1>8, <1>9, <1>10 DEF AInv

\* Holds, slots, records and bills always agree.
THEOREM AdmissionInvariant == Spec => []AInv
BY AInvInit, AInvStep, PTL DEF Spec

\* A refused request keeps nothing and is charged nothing.
THEOREM RefusalGivesBack == Spec => []RefusedGivesBack
<1>1. AInv => RefusedGivesBack BY DEF AInv
<1> QED BY <1>1, AdmissionInvariant, PTL

\* The credits never charge more than the usage ledger bills.
THEOREM CreditsWithinBill == Spec => []NeverOvercharged
<1>1. AInv => NeverOvercharged BY DEF AInv
<1> QED BY <1>1, AdmissionInvariant, PTL

\* A running request keeps its slot until its TTL or its first record.
THEOREM SlotWhileServed == Spec => []ServedInSlot
<1>1. AInv => ServedInSlot BY DEF AInv
<1> QED BY <1>1, AdmissionInvariant, PTL

\* The only record of a request decides what its credits are charged.
THEOREM ChargedAsBilled == Spec => []OneRecordExact
<1>1. AInv => OneRecordExact BY DEF AInv, OneRecord, OneRecordExact, OneRecordOf, Quiet, TasksOf, Awaited
<1> QED BY <1>1, AdmissionInvariant, PTL

==============================================================================
