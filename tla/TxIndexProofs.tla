----------------------------- MODULE TxIndexProofs -----------------------------
(***************************************************************************)
(* Theorems about TxIndex for every set of rows and blocks, every number   *)
(* of repeated calls, crashes and failing database calls.                  *)
(***************************************************************************)
EXTENDS TxIndex, FiniteSetTheorems, TLAPS

-------------------------------------------------------------------------------
(* The type invariant is inductive with this: a row that is about to be     *)
(* inserted has taken its serial, so the serial, last_count - 1, is a number. *)
Taken == pc = "insert" => last_count > 0

(* A step puts at most one call on record, one that may fail. *)
LEMMA FaultsAppend ==
    ASSUME [Next]_vars
    PROVE  faults' = faults \/ \E f \in Faults : faults' = Append(faults, f)
BY DEF Next, vars, Fault, BlockChanges, InsertRow, ReadPass, EndPass, BadRow, SkipMarker,
   BreakAhead, AlreadyThere, TakeSerial, InsertTx, UpdateState, RemoveRow, Crash, Migrate, DropRow

LEMMA FaultsType ==
    ASSUME faults \in Seq(FaultKinds), [Next]_vars
    PROVE  faults' \in Seq(FaultKinds)
<1>1. \A f \in Faults : f \in FaultKinds
  BY BoundAssumption
<1>2. \A f \in FaultKinds : Append(faults, f) \in Seq(FaultKinds)
  OBVIOUS
<1> QED
  BY <1>1, <1>2, FaultsAppend

(* Every state of the transaction index has the type the model gives it. *)
THEOREM TypeCorrect == Spec => []TypeOK
<1>1. Init => TypeOK /\ Taken
  BY DEF Init, TypeOK, Taken
<1>2. TypeOK /\ Taken /\ [Next]_vars => Taken'
  <2> SUFFICES ASSUME TypeOK, Taken, [Next]_vars PROVE Taken'
    OBVIOUS
  <2>1. ASSUME pc' # "insert" \/ UNCHANGED <<pc, last_count>> PROVE Taken'
    BY <2>1 DEF Taken
  <2> USE DEF stream, thread
  <2>2. ASSUME NEW r \in items, TakeSerial(r) PROVE Taken'
    BY <2>2 DEF TakeSerial, TypeOK, Taken
  <2> QED
    BY <2>1, <2>2 DEF Next, vars, BlockChanges, InsertRow, ReadPass, EndPass, BadRow,
       SkipMarker, BreakAhead, AlreadyThere, InsertTx, UpdateState, RemoveRow, Crash, Migrate
<1>3. TypeOK /\ Taken /\ [Next]_vars => TypeOK'
  <2> SUFFICES ASSUME TypeOK, Taken, [Next]_vars PROVE TypeOK'
    OBVIOUS
  <2>0. faults' \in Seq(FaultKinds)
    BY FaultsType DEF TypeOK
  <2> USE <2>0 DEF TypeOK, stream, thread
  <2>1. ASSUME NEW b \in Blocks, BlockChanges(b) PROVE TypeOK'
    <3>1. called' \in [Blocks -> Nat]
      BY <2>1 DEF BlockChanges
    <3>2. streaming' \in [Rows -> Nat]
      BY <2>1 DEF BlockChanges
    <3>3. transactions_processing' \subseteq Rows
      BY <2>1, RowAssumption DEF BlockChanges
    <3> QED
      BY <2>1, <3>1, <3>2, <3>3 DEF BlockChanges
  <2>2. ASSUME NEW r \in Rows, InsertRow(r) PROVE TypeOK'
    <3>1. streaming[r] - 1 \in Nat
      BY <2>2 DEF InsertRow
    <3> QED
      BY <2>2, <3>1 DEF InsertRow
  <2>3. CASE ReadPass
    BY <2>3 DEF ReadPass
  <2>4. CASE EndPass
    BY <2>4 DEF EndPass
  <2>5. ASSUME NEW r \in items, BadRow(r) \/ BreakAhead(r) PROVE TypeOK'
    BY <2>5, RowAssumption DEF BadRow, BreakAhead
  <2>6. ASSUME NEW r \in items, SkipMarker(r) \/ AlreadyThere(r) PROVE TypeOK'
    BY <2>6, RowAssumption DEF SkipMarker, AlreadyThere, DropRow
  <2>7. ASSUME NEW r \in items, TakeSerial(r) PROVE TypeOK'
    BY <2>7, RowAssumption DEF TakeSerial
  <2>8. CASE InsertTx
    <3>1. last_count - 1 \in Nat
      BY <2>8 DEF InsertTx, Taken
    <3>2. serial' \in [Rows -> Nat] /\ transactions' \subseteq Rows
      BY <2>8, <3>1 DEF InsertTx
    <3> QED
      BY <2>8, <3>2 DEF InsertTx
  <2>9. CASE UpdateState
    BY <2>9, RowAssumption DEF UpdateState
  <2>10. CASE RemoveRow
    BY <2>10 DEF RemoveRow, DropRow
  <2>11. CASE Crash
    <3>1. streaming' \in [Rows -> Nat] /\ crashes' \in Nat /\ 0 \in Nat
      BY <2>11 DEF Crash
    <3>2. up' \in BOOLEAN /\ pc' \in {"idle", "scan", "insert", "state", "remove"}
      BY <2>11 DEF Crash
    <3>3. prev_bid' \in Nat /\ last_count' \in Nat /\ items' \subseteq Rows
      BY <2>11, <3>1 DEF Crash
    <3> QED
      BY <2>11, <3>1, <3>2, <3>3, Zenon DEF Crash
  <2>12. CASE Migrate
    BY <2>12 DEF Migrate
  <2>13. CASE UNCHANGED vars
    BY <2>13 DEF vars
  <2> QED
    BY <2>1, <2>2, <2>3, <2>4, <2>5, <2>6, <2>7, <2>8, <2>9, <2>10, <2>11, <2>12, <2>13
       DEF Next
<1> QED
  BY <1>1, <1>2, <1>3, PTL DEF Spec

-------------------------------------------------------------------------------
(* A row of the stream is never removed or renumbered: `transactions` is    *)
(* written by the insert only, which leaves a row that is there alone.      *)
THEOREM AlwaysStable == Spec => SerialsStable
<1>1. TypeOK /\ [Next]_vars =>
          [\A r \in transactions : r \in transactions' /\ serial'[r] = serial[r]]_vars
  <2> SUFFICES ASSUME TypeOK, Next, NEW r \in transactions
               PROVE  r \in transactions' /\ serial'[r] = serial[r]
    OBVIOUS
  <2> USE DEF stream, thread
  <2>1. CASE InsertTx
    BY <2>1 DEF InsertTx, TypeOK
  <2>2. CASE UNCHANGED stream
    BY <2>2
  <2> QED
    BY <2>1, <2>2 DEF Next, BlockChanges, InsertRow, ReadPass, EndPass, BadRow,
       SkipMarker, BreakAhead, AlreadyThere, TakeSerial, UpdateState, RemoveRow, Crash, Migrate
<1> QED
  BY <1>1, TypeCorrect, PTL DEF Spec, SerialsStable

-------------------------------------------------------------------------------
(* A failing call is on record, and what is on record stays there. *)
LEMMA FaultRecorded ==
    ASSUME TypeOK, NEW k \in FaultKinds, Fault(k)
    PROVE  Failed(k)'
<1>1. faults \in Seq(FaultKinds) /\ faults' = Append(faults, k)
  BY DEF TypeOK, Fault
<1>2. Len(faults') = Len(faults) + 1 /\ faults'[Len(faults) + 1] = k /\ Len(faults) \in Nat
  BY <1>1
<1> QED
  BY <1>2 DEF Failed

LEMMA FaultsStay ==
    ASSUME TypeOK, [Next]_vars, NEW k \in FaultKinds, Failed(k)
    PROVE  Failed(k)'
<1>1. faults' = faults \/ \E f \in FaultKinds : faults' = Append(faults, f)
  BY FaultsAppend, BoundAssumption
<1>2. CASE faults' = faults
  BY <1>2 DEF Failed
<1>3. ASSUME NEW f \in FaultKinds, faults' = Append(faults, f) PROVE Failed(k)'
  <2>1. PICK i \in 1..Len(faults) : faults[i] = k
    BY DEF Failed
  <2>2. faults \in Seq(FaultKinds)
    BY DEF TypeOK
  <2>3. i \in 1..Len(faults') /\ faults'[i] = k
    BY <1>3, <2>1, <2>2
  <2> QED
    BY <2>3 DEF Failed
<1> QED
  BY <1>1, <1>2, <1>3

-------------------------------------------------------------------------------
(* The serials below n are all in use. *)
Used(n) == \A i \in 0..(n - 1) : \E r \in transactions : serial[r] = i

(***************************************************************************)
(* The inductive invariant behind SerialsCovered.  The thread's last_count *)
(* runs ahead of the stored count when an update of the state fails, but   *)
(* never ahead of the serials in use, except by the one it has just taken. *)
(***************************************************************************)
CoverInv == /\ Used(state.count)
            /\ pc \in {"scan", "state", "remove"} => Used(last_count)
            /\ pc = "insert" => Used(last_count - 1) /\ cur \notin transactions

(* What is in use stays in use. *)
LEMMA UsedStable ==
    ASSUME NEW n \in Int, Used(n),
           \A r \in transactions : r \in transactions' /\ serial'[r] = serial[r]
    PROVE  Used(n)'
BY DEF Used

(* No serial is in use at first, and none is needed. *)
LEMMA UsedZero == Used(0)
BY DEF Used

(* A step keeps the serials below both counts in use. *)
LEMMA CoverStep ==
    ASSUME TypeOK, ReliableInsert => CoverInv, ReliableInsert', [Next]_vars
    PROVE  CoverInv'
<1> USE DEF stream, thread
<1>0. CoverInv /\ ~Fault("row") /\ ~Fault("insert")
  BY FaultRecorded, FaultsStay DEF ReliableInsert, FaultKinds
<1>1. ASSUME UNCHANGED stream, NEW n PROVE Used(n) => Used(n)'
  BY <1>1 DEF Used
<1>2. state.count \in Nat /\ last_count \in Nat
  BY DEF TypeOK
<1>3. ASSUME UNCHANGED <<stream, state, last_count, cur>>,
             pc' = pc \/ pc' = "idle" \/ (pc = "remove" /\ pc' = "scan")
      PROVE  CoverInv'
  BY <1>0, <1>1, <1>3 DEF CoverInv, Used
<1>4. ASSUME NEW b \in Blocks, BlockChanges(b) PROVE CoverInv'
  BY <1>3, <1>4 DEF BlockChanges
<1>5. ASSUME NEW r \in Rows, InsertRow(r) PROVE CoverInv'
  BY <1>3, <1>5 DEF InsertRow
<1>6. CASE ReadPass
  <2>1. state'.count = state.count \/ state'.count = 0
    BY <1>6 DEF ReadPass
  <2>2. (last_count' = state.count \/ last_count' = 0) /\ pc' = "scan" /\ UNCHANGED stream
    BY <1>6 DEF ReadPass
  <2>3. Used(state.count)' /\ Used(last_count)'
    BY <1>0, <1>1, <2>1, <2>2, UsedZero DEF CoverInv, Used
  <2> QED
    BY <2>2, <2>3 DEF CoverInv, Used
<1>7. CASE EndPass
  BY <1>3, <1>7 DEF EndPass
<1>8. ASSUME NEW r \in items, BadRow(r) \/ SkipMarker(r) \/ BreakAhead(r) \/ AlreadyThere(r)
      PROVE  CoverInv'
  BY <1>3, <1>8 DEF BadRow, SkipMarker, BreakAhead, AlreadyThere
<1>9. ASSUME NEW r \in items, TakeSerial(r) PROVE CoverInv'
  <2>1. r \notin transactions /\ cur' = r
    BY <1>0, <1>9 DEF TakeSerial
  <2>2. pc = "scan" /\ pc' = "insert" /\ last_count' = last_count + 1 /\ UNCHANGED <<stream, state>>
    BY <1>9 DEF TakeSerial, NextItem
  <2>3. last_count' - 1 = last_count
    BY <1>2, <2>2
  <2> QED
    BY <1>0, <2>1, <2>2, <2>3 DEF CoverInv, Used
<1>10. CASE InsertTx
  <2>1. pc = "insert" /\ pc' = "state" /\ UNCHANGED <<state, last_count>>
    BY <1>10 DEF InsertTx
  <2>2. /\ cur \notin transactions
        /\ transactions' = transactions \cup {cur}
        /\ serial' = [serial EXCEPT ![cur] = last_count - 1]
    BY <1>0, <1>10, <2>1 DEF InsertTx, CoverInv
  <2>3. \A r \in transactions : r \in transactions' /\ serial'[r] = serial[r]
    BY <2>2 DEF TypeOK
  <2>4. cur \in transactions' /\ serial'[cur] = last_count - 1
    BY <2>2 DEF TypeOK
  <2>5. Used(state.count)' /\ \A i \in 0..(last_count - 2) : \E r \in transactions' : serial'[r] = i
    BY <1>0, <1>2, <2>1, <2>3 DEF CoverInv, Used
  <2>6. Used(last_count)'
    <3> SUFFICES ASSUME NEW i \in 0..(last_count - 1)
                 PROVE  \E r \in transactions' : serial'[r] = i
      BY <2>1 DEF Used
    <3>1. i = last_count - 1 \/ i \in 0..(last_count - 2)
      BY <1>2
    <3> QED
      BY <2>4, <2>5, <3>1
  <2> QED
    BY <2>1, <2>5, <2>6 DEF CoverInv, Used
<1>11. CASE UpdateState
  <2>1. pc = "state" /\ pc' = "remove" /\ UNCHANGED <<stream, last_count>>
    BY <1>11 DEF UpdateState
  <2>2. state'.count = last_count \/ state'.count = state.count
    BY <1>11 DEF UpdateState
  <2> QED
    BY <1>0, <2>1, <2>2 DEF CoverInv, Used
<1>12. CASE RemoveRow
  BY <1>3, <1>12 DEF RemoveRow
<1>13. CASE Crash
  BY <1>0, <1>13 DEF Crash, CoverInv, Used
<1>14. CASE Migrate
  BY <1>3, <1>14 DEF Migrate
<1>15. CASE UNCHANGED vars
  BY <1>3, <1>15 DEF vars
<1> QED
  BY <1>4, <1>5, <1>6, <1>7, <1>8, <1>9, <1>10, <1>11, <1>12, <1>13, <1>14, <1>15 DEF Next

(***************************************************************************)
(* Every serial below the count that get-transaction-history-state reports *)
(* belongs to a row of the stream, for any number of crashes, of repeated  *)
(* blocks, of failing reads and of failing updates of the state, as long   *)
(* as no lookup and no insert of a row has failed.                         *)
(***************************************************************************)
THEOREM AlwaysCovered == Spec => []SerialsCovered
<1>1. Init => (ReliableInsert => CoverInv)
  BY DEF Init, CoverInv, Used
<1>2. TypeOK /\ (ReliableInsert => CoverInv) /\ [Next]_vars => (ReliableInsert => CoverInv)'
  BY CoverStep
<1>3. (ReliableInsert => CoverInv) => SerialsCovered
  BY DEF CoverInv, Used, SerialsCovered
<1> QED
  BY <1>1, <1>2, <1>3, TypeCorrect, PTL DEF Spec

-------------------------------------------------------------------------------
(***************************************************************************)
(* With a reliable state the thread's count and the stored one agree but   *)
(* for the row in between, and that row is new.                            *)
(***************************************************************************)
CountInv == /\ pc \in {"scan", "remove"} => last_count = state.count
            /\ pc \in {"insert", "state"} => last_count = state.count + 1
            /\ pc = "insert" => cur \notin transactions
            /\ IsFiniteSet(transactions)

(***************************************************************************)
(* What one step does to the stream and to the number of serials issued:   *)
(* it numbers a new row with Issued, or a crash forgets one number, or     *)
(* neither changes.                                                        *)
(***************************************************************************)
Numbers == /\ pc = "insert" /\ cur \notin transactions
           /\ transactions' = transactions \cup {cur}
           /\ serial' = [serial EXCEPT ![cur] = Issued]
           /\ Issued' = Issued + 1
           /\ crashes' = crashes

Forgets == /\ Crash
           /\ UNCHANGED stream
           /\ Issued' = Issued \/ Issued' = Issued - 1
           /\ crashes' = crashes + 1

Keeps == UNCHANGED <<stream, Issued, crashes>>

LEMMA CountStep ==
    ASSUME TypeOK, ReliableState => CountInv, ReliableState', [Next]_vars
    PROVE  CountInv /\ CountInv' /\ (Numbers \/ Forgets \/ Keeps)
<1> USE DEF stream, thread
<1>0. /\ CountInv
      /\ ~Fault("row") /\ ~Fault("insert") /\ ~Fault("count") /\ ~Fault("state")
  BY FaultRecorded, FaultsStay DEF ReliableState, ReliableInsert, FaultKinds
<1>1. state.count \in Nat /\ last_count \in Nat
  BY DEF TypeOK
<1>2. ASSUME UNCHANGED <<stream, state, last_count, cur, pc, crashes>>
      PROVE  CountInv' /\ Keeps
  BY <1>0, <1>2 DEF CountInv, Keeps, Issued
<1>3. ASSUME UNCHANGED <<stream, state, last_count, cur, crashes>>, pc = "scan", pc' = "idle"
      PROVE  CountInv' /\ Keeps
  BY <1>0, <1>3 DEF CountInv, Keeps, Issued
<1>4. ASSUME NEW b \in Blocks, BlockChanges(b) PROVE CountInv' /\ Keeps
  BY <1>2, <1>4 DEF BlockChanges
<1>5. ASSUME NEW r \in Rows, InsertRow(r) PROVE CountInv' /\ Keeps
  BY <1>2, <1>5 DEF InsertRow
<1>6. CASE ReadPass
  <2>1. pc = "idle" /\ pc' = "scan" /\ last_count' = state.count /\ UNCHANGED <<stream, state, crashes>>
    BY <1>0, <1>6 DEF ReadPass
  <2> QED
    BY <1>0, <2>1 DEF CountInv, Keeps, Issued
<1>7. CASE EndPass
  <2>1. UNCHANGED <<stream, state, last_count, cur, crashes>> /\ pc = "scan" /\ pc' = "idle"
    BY <1>7 DEF EndPass
  <2> QED
    BY <1>0, <1>3, <2>1
<1>8. ASSUME NEW r \in items, BadRow(r) \/ BreakAhead(r) PROVE CountInv' /\ Keeps
  BY <1>3, <1>8 DEF BadRow, BreakAhead, NextItem
<1>9. ASSUME NEW r \in items, SkipMarker(r) \/ AlreadyThere(r) PROVE CountInv' /\ Keeps
  BY <1>2, <1>9 DEF SkipMarker, AlreadyThere
<1>10. ASSUME NEW r \in items, TakeSerial(r) PROVE CountInv' /\ Keeps
  <2>1. r \notin transactions /\ cur' = r
    BY <1>0, <1>10 DEF TakeSerial
  <2>2. /\ pc = "scan" /\ pc' = "insert" /\ last_count' = last_count + 1
        /\ UNCHANGED <<stream, state, crashes>>
    BY <1>10 DEF TakeSerial, NextItem
  <2> QED
    BY <1>0, <2>1, <2>2 DEF CountInv, Keeps, Issued
<1>11. CASE InsertTx
  <2>1. pc = "insert" /\ pc' = "state" /\ UNCHANGED <<state, last_count, cur, crashes>>
    BY <1>11 DEF InsertTx
  <2>2. last_count = state.count + 1 /\ cur \notin transactions /\ IsFiniteSet(transactions)
    BY <1>0, <2>1 DEF CountInv
  <2>3. /\ transactions' = transactions \cup {cur}
        /\ serial' = [serial EXCEPT ![cur] = last_count - 1]
    BY <1>0, <1>11, <2>2 DEF InsertTx
  <2>4. Issued = state.count /\ Issued' = last_count
    BY <2>1 DEF Issued
  <2>5. IsFiniteSet(transactions')
    BY <2>2, <2>3, FS_AddElement
  <2>6. Numbers
    <3>1. last_count - 1 = Issued /\ Issued' = Issued + 1
      BY <1>1, <2>2, <2>4
    <3> QED
      BY <2>1, <2>2, <2>3, <3>1 DEF Numbers
  <2> QED
    BY <2>1, <2>2, <2>5, <2>6 DEF CountInv
<1>12. CASE UpdateState
  <2>1. pc = "state" /\ pc' = "remove" /\ UNCHANGED <<stream, last_count, crashes>>
    BY <1>12 DEF UpdateState
  <2>2. state'.count = last_count
    BY <1>0, <1>12 DEF UpdateState
  <2> QED
    BY <1>0, <2>1, <2>2 DEF CountInv, Keeps, Issued
<1>13. CASE RemoveRow
  BY <1>0, <1>13 DEF RemoveRow, CountInv, Keeps, Issued
<1>14. CASE Crash
  <2>1. pc' = "idle" /\ UNCHANGED <<stream, state>> /\ crashes' = crashes + 1
    BY <1>14 DEF Crash
  <2>2. Issued' = Issued \/ Issued' = Issued - 1
    BY <1>0, <1>1, <2>1 DEF Issued, CountInv
  <2> QED
    BY <1>0, <1>14, <2>1, <2>2 DEF CountInv, Forgets
<1>15. CASE Migrate \/ UNCHANGED vars
  <2>1. UNCHANGED <<stream, state, last_count, cur, pc, crashes>>
    BY <1>15 DEF Migrate, vars
  <2> QED
    BY <1>0, <1>2, <2>1
<1> QED
  BY <1>0, <1>4, <1>5, <1>6, <1>7, <1>8, <1>9, <1>10, <1>11, <1>12, <1>13, <1>14, <1>15
     DEF Next

(* The count is consistent until a call that decides the serials fails. *)
LEMMA CountInvariant == Spec => [](ReliableState => CountInv)
<1>1. Init => (ReliableState => CountInv)
  BY FS_EmptySet DEF Init, CountInv
<1>2. TypeOK /\ (ReliableState => CountInv) /\ [Next]_vars => (ReliableState => CountInv)'
  BY CountStep
<1> QED
  BY <1>1, <1>2, TypeCorrect, PTL DEF Spec

(***************************************************************************)
(* Crashes are the only way the stream outgrows the count, by at most one  *)
(* row each, as long as no call that decides the serials has failed.       *)
(***************************************************************************)
THEOREM DriftAlwaysBounded == Spec => []DriftBounded
<1>1. Init => DriftBounded
  BY FS_EmptySet DEF Init, DriftBounded, Issued
<1>2. TypeOK /\ (ReliableState => CountInv) /\ DriftBounded /\ [Next]_vars => DriftBounded'
  <2> SUFFICES ASSUME TypeOK, ReliableState => CountInv, DriftBounded, [Next]_vars, ReliableState'
               PROVE  DriftBounded'
    BY DEF DriftBounded
  <2>0. CountInv /\ Cardinality(transactions) <= Issued + crashes
    BY CountStep, FaultsStay DEF DriftBounded, ReliableState, ReliableInsert, FaultKinds
  <2>1. Issued \in Nat /\ crashes \in Nat /\ IsFiniteSet(transactions)
    BY <2>0 DEF TypeOK, Issued, CountInv
  <2>2. Cardinality(transactions) \in Nat
    BY <2>1, FS_CardinalityType
  <2>3. CASE Numbers
    <3>1. Cardinality(transactions') = Cardinality(transactions) + 1
      BY <2>1, <2>3, FS_AddElement DEF Numbers
    <3> QED
      BY <2>0, <2>1, <2>2, <2>3, <3>1 DEF DriftBounded, Numbers
  <2>4. CASE Forgets
    <3>1. transactions' = transactions
      BY <2>4 DEF Forgets, stream
    <3>2. Issued' + crashes' >= Issued + crashes /\ Issued' + crashes' \in Int
      BY <2>1, <2>4 DEF Forgets
    <3> QED
      BY <2>0, <2>1, <2>2, <3>1, <3>2 DEF DriftBounded
  <2>5. CASE Keeps
    BY <2>0, <2>5 DEF Keeps, stream, DriftBounded
  <2> QED
    BY <2>3, <2>4, <2>5, CountStep
<1> QED
  BY <1>1, <1>2, TypeCorrect, CountInvariant, PTL DEF Spec

-------------------------------------------------------------------------------
(* The indexer is not stopped. *)
NoCrash == MaxCrashes = 0

(* The calls that decide the serials do not fail. *)
ReliableCalls == Faults \cap {"row", "insert", "count", "state"} = {}

(* Only calls that may fail are on record, so the serials' calls are not. *)
LEMMA StaysReliable == ASSUME ReliableCalls PROVE Spec => []ReliableState
<1>1. Init => ReliableState
  BY DEF Init, ReliableState, ReliableInsert, Failed
<1>2. TypeOK /\ ReliableState /\ [Next]_vars => ReliableState'
  <2> SUFFICES ASSUME TypeOK, [Next]_vars, NEW k \in FaultKinds \ Faults, Failed(k)'
               PROVE  Failed(k)
    BY DEF ReliableState, ReliableInsert, FaultKinds, ReliableCalls
  <2>1. faults' = faults \/ \E f \in Faults : faults' = Append(faults, f)
    BY FaultsAppend
  <2>2. CASE faults' = faults
    BY <2>2 DEF Failed
  <2>3. ASSUME NEW f \in Faults, faults' = Append(faults, f) PROVE Failed(k)
    <3>1. PICK i \in 1..Len(faults') : faults'[i] = k
      BY DEF Failed
    <3>2. faults \in Seq(FaultKinds)
      BY DEF TypeOK
    <3>3. i \in 1..Len(faults) /\ faults[i] = k
      BY <2>3, <3>1, <3>2
    <3> QED
      BY <3>3 DEF Failed
  <2> QED
    BY <2>1, <2>2, <2>3
<1> QED
  BY <1>1, <1>2, TypeCorrect, PTL DEF Spec

(* Without a crash a step numbers a row with the next serial or none. *)
LEMMA DenseStep ==
    ASSUME TypeOK, CountInv, SerialsDense, ReliableState', NoCrash, [Next]_vars
    PROVE  SerialsDense' /\ [Log!Append]_<<transactions, serial, Issued>>
<1>1. Issued \in Nat /\ IsFiniteSet(transactions)
  BY DEF TypeOK, Issued, CountInv
<1>2. CASE Numbers
  <2>1. /\ cur \in Rows /\ cur \notin transactions
        /\ transactions' = transactions \cup {cur}
        /\ Issued' = Issued + 1
    BY <1>2 DEF Numbers, TypeOK
  <2>2. serial'[cur] = Issued /\ \A r \in transactions : serial'[r] = serial[r]
    BY <1>2, <2>1 DEF Numbers, TypeOK
  <2>3. {serial[r] : r \in transactions} = 0..(Issued - 1)
    BY DEF SerialsDense
  <2>4. \A r \in transactions : serial[r] \in 0..(Issued - 1)
    BY <2>3
  <2>5. {serial'[r] : r \in transactions'} = {serial[r] : r \in transactions} \cup {Issued}
    BY <2>1, <2>2
  <2>6. (0..(Issued - 1)) \cup {Issued} = 0..(Issued' - 1)
    BY <1>1, <2>1
  <2>7. \A q, r \in transactions' : serial'[q] = serial'[r] => q = r
    <3> SUFFICES ASSUME NEW q \in transactions', NEW r \in transactions',
                        serial'[q] = serial'[r]
                 PROVE  q = r
      OBVIOUS
    <3>1. CASE q \in transactions /\ r \in transactions
      <4>1. serial[q] = serial[r]
        BY <2>2, <3>1
      <4> QED
        BY <3>1, <4>1 DEF SerialsDense
    <3>2. CASE q = cur /\ r \in transactions
      <4>1. serial[r] = Issued
        BY <2>2, <3>2
      <4> QED
        BY <1>1, <2>4, <3>2, <4>1
    <3>3. CASE q \in transactions /\ r = cur
      <4>1. serial[q] = Issued
        BY <2>2, <3>3
      <4> QED
        BY <1>1, <2>4, <3>3, <4>1
    <3> QED
      BY <2>1, <3>1, <3>2, <3>3
  <2>8. SerialsDense'
    BY <2>3, <2>5, <2>6, <2>7 DEF SerialsDense
  <2>9. Log!Append
    <3>1. cur \in Rows \ transactions
      BY <2>1
    <3>2. serial' = [serial EXCEPT ![cur] = Issued]
      BY <1>2 DEF Numbers
    <3> QED
      BY <2>1, <3>1, <3>2 DEF Log!Append
  <2> QED
    BY <2>8, <2>9
<1>3. CASE Forgets
  BY <1>3 DEF Forgets, Crash, NoCrash, TypeOK
<1>4. CASE Keeps
  BY <1>4 DEF Keeps, stream, SerialsDense
<1> QED
  BY <1>2, <1>3, <1>4, CountStep

(***************************************************************************)
(* The serials in use are 0 .. Issued - 1, each for one row, for every     *)
(* order of blocks and any number of repeated blocks, while the indexer    *)
(* runs and the calls that decide the serials do not fail.                 *)
(***************************************************************************)
THEOREM AlwaysDense == ASSUME ReliableCalls, NoCrash PROVE Spec => []SerialsDense
<1>1. Init => SerialsDense
  BY DEF Init, SerialsDense, Issued
<1>2. TypeOK /\ CountInv /\ ReliableState' /\ SerialsDense /\ [Next]_vars => SerialsDense'
  BY DenseStep
<1> QED
  BY <1>1, <1>2, TypeCorrect, CountInvariant, StaysReliable, PTL DEF Spec

(* Under the same conditions the transaction index implements TxLog. *)
THEOREM ImplementsLog == ASSUME ReliableCalls, NoCrash PROVE Spec => LogSpec
<1>1. Init => Log!Init
  BY DEF Init, Log!Init, Issued
<1>2. TypeOK /\ CountInv /\ ReliableState' /\ SerialsDense /\ [Next]_vars
          => [Log!Append]_<<transactions, serial, Issued>>
  BY DenseStep
<1> QED
  BY <1>1, <1>2, TypeCorrect, CountInvariant, StaysReliable, AlwaysDense, PTL DEF Spec, LogSpec, Log!Spec

-------------------------------------------------------------------------------
(* The inserts into the two tables of rows do not fail. *)
ReliableRows == Faults \cap {"stream", "insert"} = {}

(***************************************************************************)
(* What NoTxLost needs to be inductive: the process has not stopped, so    *)
(* its queue is there, and the row that RemoveRow is about to take out of  *)
(* transactions_processing has reached the stream.                         *)
(***************************************************************************)
KeptInv == /\ up
           /\ pc \in {"state", "remove"} => cur \in transactions
           /\ NoTxLost

LEMMA KeptStep ==
    ASSUME TypeOK, KeptInv, ReliableRows, NoCrash, [Next]_vars
    PROVE  KeptInv'
<1> USE DEF stream, thread
<1>0. ~Fault("stream") /\ ~Fault("insert")
  BY DEF ReliableRows, Fault
<1>1. ASSUME up' = up, transactions \subseteq transactions', transactions_processing \subseteq transactions_processing',
             UNCHANGED <<streaming, called>>,
             pc' \in {"state", "remove"} => cur' \in transactions'
      PROVE  KeptInv'
  BY <1>1 DEF KeptInv, NoTxLost
<1>2. ASSUME NEW r, r \in Markers \/ r \in transactions, DropRow(r), UNCHANGED <<up, streaming, called, transactions>>,
             pc' \in {"state", "remove"} => cur' \in transactions'
      PROVE  KeptInv'
  <2>1. \A q \in transactions_processing : q \in transactions_processing' \/ q = r
    BY <1>2 DEF DropRow
  <2> QED
    BY <1>2, <2>1 DEF KeptInv, NoTxLost
<1>3. ASSUME NEW b \in Blocks, BlockChanges(b) PROVE KeptInv'
  <2>1. /\ UNCHANGED <<up, transactions, pc, cur>>
        /\ transactions_processing \subseteq transactions_processing'
        /\ called' = [called EXCEPT ![b] = @ + 1]
        /\ streaming' = [r \in Rows |-> IF BlockOf[r] = b /\ r \notin Markers THEN streaming[r] + 1 ELSE streaming[r]]
    BY <1>3 DEF BlockChanges
  <2>2. ASSUME NEW r \in Rows \ Markers, called'[BlockOf[r]] > 0
        PROVE  r \in transactions' \cup transactions_processing' \/ streaming'[r] > 0
    <3>1. CASE BlockOf[r] = b
      <4>1. streaming'[r] = streaming[r] + 1 /\ streaming[r] \in Nat
        BY <2>1, <3>1 DEF TypeOK
      <4> QED
        BY <4>1
    <3>2. CASE BlockOf[r] # b
      <4>1. BlockOf[r] \in Blocks
        BY DEF Blocks
      <4>2. streaming'[r] = streaming[r] /\ called'[BlockOf[r]] = called[BlockOf[r]]
        BY <2>1, <3>2, <4>1 DEF TypeOK
      <4> QED
        BY <2>1, <2>2, <4>2 DEF KeptInv, NoTxLost
    <3> QED
      BY <3>1, <3>2
  <2> QED
    BY <2>1, <2>2 DEF KeptInv, NoTxLost
<1>4. ASSUME NEW r \in Rows, InsertRow(r) PROVE KeptInv'
  <2>1. /\ UNCHANGED <<up, called, transactions, pc, cur>>
        /\ transactions_processing' = transactions_processing \cup {r}
        /\ \A q \in Rows \ {r} : streaming'[q] = streaming[q]
    BY <1>0, <1>4 DEF InsertRow, TypeOK
  <2> QED
    BY <2>1 DEF KeptInv, NoTxLost
<1>5. CASE ReadPass
  BY <1>1, <1>5 DEF ReadPass, KeptInv
<1>6. CASE EndPass
  BY <1>1, <1>6 DEF EndPass, KeptInv
<1>7. ASSUME NEW r \in items, BadRow(r) \/ BreakAhead(r) \/ TakeSerial(r) PROVE KeptInv'
  BY <1>1, <1>7 DEF BadRow, BreakAhead, TakeSerial, KeptInv
<1>8. ASSUME NEW r \in items, SkipMarker(r) \/ AlreadyThere(r) PROVE KeptInv'
  BY <1>2, <1>8 DEF SkipMarker, AlreadyThere, KeptInv, NextItem
<1>9. CASE InsertTx
  <2>1. /\ UNCHANGED <<up, called, streaming, transactions_processing, cur>>
        /\ transactions \subseteq transactions' /\ cur \in transactions'
    BY <1>0, <1>9 DEF InsertTx
  <2> QED
    BY <1>1, <2>1
<1>10. CASE UpdateState
  BY <1>1, <1>10 DEF UpdateState, KeptInv
<1>11. CASE RemoveRow
  <2>1. cur \in transactions /\ pc' = "scan" /\ DropRow(cur) /\ UNCHANGED <<up, streaming, called, transactions>>
    BY <1>11 DEF RemoveRow, KeptInv
  <2> QED
    BY <1>2, <2>1
<1>12. CASE Crash
  BY <1>12 DEF Crash, NoCrash, TypeOK
<1>13. CASE Migrate
  BY <1>13 DEF Migrate, KeptInv
<1>14. CASE UNCHANGED vars
  BY <1>1, <1>14 DEF vars, KeptInv
<1> QED
  BY <1>3, <1>4, <1>5, <1>6, <1>7, <1>8, <1>9, <1>10, <1>11, <1>12, <1>13, <1>14 DEF Next

(***************************************************************************)
(* A transaction of a block that block_changes was called for is waiting   *)
(* in transactions_queue_, in transactions_processing or in the stream, at *)
(* every moment: no row is removed before it was inserted further on,      *)
(* whatever reads, removals and updates of the state fail.  The process    *)
(* must not stop, or the queue is gone, and the inserts must not fail.     *)
(***************************************************************************)
THEOREM NeverLosesATransaction == ASSUME ReliableRows, NoCrash PROVE Spec => []NoTxLost
<1>1. Init => KeptInv
  <2> SUFFICES ASSUME Init PROVE KeptInv
    OBVIOUS
  <2>1. \A r \in Rows : BlockOf[r] \in Blocks /\ called[BlockOf[r]] = 0
    BY DEF Init, Blocks
  <2> QED
    BY <2>1 DEF Init, KeptInv, NoTxLost
<1>2. TypeOK /\ KeptInv /\ [Next]_vars => KeptInv'
  BY KeptStep
<1>3. KeptInv => NoTxLost
  BY DEF KeptInv
<1> QED
  BY <1>1, <1>2, <1>3, TypeCorrect, PTL DEF Spec
===============================================================================
