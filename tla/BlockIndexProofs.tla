--------------------------- MODULE BlockIndexProofs ---------------------------
(***************************************************************************)
(* Theorems about BlockIndex for every chain length, number of jobs, queue *)
(* bound, number of crashes and set of failing database calls.             *)
(***************************************************************************)
EXTENDS BlockIndex, TLAPS

-------------------------------------------------------------------------------
(* Facts about the model's sets. *)

(* Block ids are the naturals up to MaxHeight. *)
LEMMA BlockFacts == /\ 0 \in Block
                    /\ \A b \in Block : b \in Nat /\ b <= MaxHeight
                    /\ \A n \in Nat : n <= MaxHeight => n \in Block
BY BoundAssumption DEF Block

(* The counters of fetch tasks, crashes and faults start at 0. *)
LEMMA ZeroInBounds == 0 \in 0..MaxPending /\ 0 \in 0..MaxCrashes /\ 0 \in 0..MaxFaults
BY BoundAssumption

(* A job's record has its type exactly when its fields have theirs. *)
LEMMA JobStateFields ==
    \A s, t, n : [st |-> s, to |-> t, next |-> n] \in JobState
                   <=> /\ s \in {"free", "queued", "running"}
                       /\ t \in Block
                       /\ n \in 0..(MaxHeight + 1)
BY DEF JobState

LEMMA FreeJobType == FreeJob \in JobState
BY BlockFacts, BoundAssumption DEF FreeJob, JobState

(* A failing call is counted within its bound. *)
LEMMA FaultCounted == ASSUME TypeOK, NEW f, Fault(f) PROVE faults' \in 0..MaxFaults
BY BoundAssumption DEF TypeOK, Fault

(* The answer of max("block-id") is a block id. *)
LEMMA LastBlockIdType == ASSUME TypeOK, NEW m, LastBlockId(m) PROVE m \in Block
BY BlockFacts DEF TypeOK, LastBlockId

-------------------------------------------------------------------------------
(* Every state the indexer reaches has the type the model gives it. *)
THEOREM TypeCorrect == Spec => []TypeOK
<1>1. Init => TypeOK
  BY BlockFacts, ZeroInBounds, FreeJobType, Indexed0Assumption DEF Init, TypeOK
<1>2. TypeOK /\ [Next]_vars => TypeOK'
  <2> SUFFICES ASSUME TypeOK, [Next]_vars PROVE TypeOK'
    OBVIOUS
  <2> USE DEF TypeOK, chain, tables, fetcher, queues, thread, budget
  <2>1. CASE NewBlock
    BY <2>1, BlockFacts, BoundAssumption DEF NewBlock
  <2>2. CASE Crash
    <3>1. crashes' \in 0..MaxCrashes
      BY <2>2, BoundAssumption DEF Crash
    <3> QED
      BY <2>2, <3>1, BlockFacts, ZeroInBounds, FreeJobType DEF Crash
  <2>3. CASE Start
    BY <2>3 DEF Start
  <2>4. CASE Run
    <3>1. first' \in Block /\ faults' \in 0..MaxFaults
      BY <2>4, LastBlockIdType, FaultCounted, BlockFacts DEF Run
    <3> QED
      BY <2>4, <3>1 DEF Run
  <2>5. ASSUME NEW j \in Jobs, NEW last \in Block, Poll(j, last) PROVE TypeOK'
    <3>1. [st |-> "queued", to |-> last, next |-> 0] \in JobState
      BY JobStateFields, BoundAssumption
    <3> QED
      BY <2>5, <3>1 DEF Poll
  <2>6. ASSUME NEW j \in Jobs, StartJob(j) PROVE TypeOK'
    <3>1. first \in 0..(MaxHeight + 1)
      BY BlockFacts, BoundAssumption
    <3>2. job' \in [Jobs -> JobState]
      BY <2>6, <3>1 DEF StartJob, JobState
    <3> QED
      BY <2>6, <3>2 DEF StartJob
  <2>7. ASSUME NEW j \in Jobs, RequestBlock(j) PROVE TypeOK'
    <3>1. job[j].to \in Block /\ job[j].next \in 0..(MaxHeight + 1)
      BY DEF JobState
    <3>2. job[j].next <= job[j].to /\ rpc[job[j].next] < MaxPending
      BY <2>7 DEF RequestBlock
    <3>3. job[j].next \in Block /\ job[j].next + 1 \in 0..(MaxHeight + 1)
      <4> HIDE DEF TypeOK
      <4> QED
        BY <3>1, <3>2, BlockFacts, BoundAssumption
    <3>4. job' \in [Jobs -> JobState]
      BY <2>7, <3>3 DEF RequestBlock, JobState
    <3>5. rpc[job[j].next] + 1 \in 0..MaxPending
      BY <3>2, <3>3, BoundAssumption
    <3>6. rpc' \in [Block -> 0..MaxPending]
      BY <2>7, <3>3, <3>5 DEF RequestBlock
    <3> QED
      BY <2>7, <3>4, <3>6 DEF RequestBlock
  <2>8. ASSUME NEW j \in Jobs, FinishJob(j) PROVE TypeOK'
    <3>1. job[j].to \in Block
      BY DEF JobState
    <3> QED
      BY <2>8, <3>1, FreeJobType DEF FinishJob
  <2>9. ASSUME NEW b \in Block, GetBlock(b) PROVE TypeOK'
    <3>1. rpc[b] - 1 \in 0..MaxPending /\ adding[b] + 1 \in 0..MaxPending
      BY <2>9, BoundAssumption DEF GetBlock
    <3> QED
      BY <2>9, <3>1 DEF GetBlock
  <2>10. ASSUME NEW b \in Block, AddBlock(b) PROVE TypeOK'
    <3>1. adding[b] - 1 \in 0..MaxPending
      BY <2>10, BoundAssumption DEF AddBlock
    <3>2. faults' \in 0..MaxFaults /\ blocks_processing' \subseteq Block
      BY <2>10, FaultCounted DEF AddBlock
    <3> QED
      BY <2>10, <3>1, <3>2 DEF AddBlock
  <2>11. CASE ReadItems
    BY <2>11, FaultCounted DEF ReadItems
  <2>12. CASE EndScan
    BY <2>12 DEF EndScan
  <2>13. CASE GapBreak
    BY <2>13, FaultCounted DEF GapBreak, ReadPrevBid
  <2>14. ASSUME NEW b \in items, BlockChanges(b) PROVE TypeOK'
    BY <2>14, FaultCounted DEF BlockChanges, ReadPrevBid
  <2>15. ASSUME NEW b \in items, BadBlock(b) PROVE TypeOK'
    BY <2>15, FaultCounted DEF BadBlock, ReadPrevBid
  <2>16. CASE Insert
    BY <2>16, FaultCounted DEF Insert
  <2>17. CASE Remove
    BY <2>17, FaultCounted DEF Remove
  <2>18. CASE UNCHANGED vars
    BY <2>18 DEF vars
  <2> QED
    BY <2>1, <2>2, <2>3, <2>4, <2>5, <2>6, <2>7, <2>8, <2>9, <2>10, <2>11, <2>12,
       <2>13, <2>14, <2>15, <2>16, <2>17, <2>18 DEF Next
<1> QED
  BY <1>1, <1>2, PTL DEF Spec

-------------------------------------------------------------------------------
(***************************************************************************)
(* The inductive invariant behind Contiguous.  The forward check compares  *)
(* with the table as it is now, the insert happens a step later; so while  *)
(* a row waits to be inserted it is at most one ahead of the newest block. *)
(* k > 0 because the check is switched off while the newest id is 0.       *)
(***************************************************************************)
IndexInv == \E k \in Block : /\ k > 0
                             /\ blocks = 0..k
                             /\ pc = "insert" => cur <= k + 1

(* The index holds a block other than block 0 when the program starts. *)
Warm == \E k \in Block : k > 0 /\ Indexed0 = 0..k

(* get_prev_bid reads the table, it does not fail. *)
ReliablePrevBid == "prev_bid" \notin Faults

(* The largest block-id of a table without holes. *)
LEMMA LastOfContiguous ==
    ASSUME NEW k \in Block, blocks = 0..k, NEW p, LastBlockId(p) PROVE p = k
BY BlockFacts DEF LastBlockId

(* Only Insert writes `blocks`, and it adds at most the next block. *)
LEMMA IndexStep ==
    ASSUME TypeOK, IndexInv, ReliablePrevBid, [Next]_vars
    PROVE  IndexInv' /\ [Log!Append]_blocks
<1> USE DEF chain, tables, fetcher, queues, thread, budget
<1>0. PICK k \in Block : k > 0 /\ blocks = 0..k /\ (pc = "insert" => cur <= k + 1)
  BY DEF IndexInv
<1>1. ASSUME blocks' = blocks, pc' # "insert" \/ (pc' = pc /\ cur' = cur)
      PROVE  IndexInv' /\ [Log!Append]_blocks
  BY <1>0, <1>1 DEF IndexInv
<1>2. CASE NewBlock
  BY <1>1, <1>2 DEF NewBlock
<1>3. CASE Crash
  BY <1>1, <1>3 DEF Crash
<1>4. CASE Start
  BY <1>1, <1>4 DEF Start
<1>5. CASE Run
  BY <1>1, <1>5 DEF Run
<1>6. ASSUME NEW j \in Jobs, NEW last \in Block, Poll(j, last)
      PROVE  IndexInv' /\ [Log!Append]_blocks
  BY <1>1, <1>6 DEF Poll
<1>7. ASSUME NEW j \in Jobs, StartJob(j) \/ RequestBlock(j) \/ FinishJob(j)
      PROVE  IndexInv' /\ [Log!Append]_blocks
  BY <1>1, <1>7 DEF StartJob, RequestBlock, FinishJob
<1>8. ASSUME NEW b \in Block, GetBlock(b) \/ AddBlock(b)
      PROVE  IndexInv' /\ [Log!Append]_blocks
  BY <1>1, <1>8 DEF GetBlock, AddBlock
<1>9. CASE ReadItems
  BY <1>1, <1>9 DEF ReadItems
<1>10. CASE EndScan
  BY <1>1, <1>10 DEF EndScan
<1>11. CASE GapBreak
  BY <1>1, <1>11 DEF GapBreak
<1>12. ASSUME NEW b \in items, BlockChanges(b) PROVE IndexInv' /\ [Log!Append]_blocks
  <2>1. PICK p \in Block : ReadPrevBid(p) /\ ~ForwardGap(b, p)
    BY <1>12 DEF BlockChanges
  <2>2. LastBlockId(p)
    BY <2>1 DEF ReadPrevBid, Fault, ReliablePrevBid
  <2>3. p = k
    BY <1>0, <2>2, LastOfContiguous
  <2>4. b \in Nat /\ k \in Nat
    BY <1>0, BlockFacts DEF TypeOK
  <2>5. b <= k + 1
    BY <1>0, <2>1, <2>3, <2>4 DEF ForwardGap
  <2>6. blocks' = blocks /\ cur' = b
    BY <1>12 DEF BlockChanges
  <2> QED
    BY <1>0, <2>5, <2>6 DEF IndexInv
<1>13. ASSUME NEW b \in items, BadBlock(b) PROVE IndexInv' /\ [Log!Append]_blocks
  BY <1>1, <1>13 DEF BadBlock
<1>14. CASE Insert
  <2>1. pc = "insert" /\ pc' = "remove" /\ cur \in Block
    BY <1>14 DEF Insert, TypeOK
  <2>2. CASE blocks' = blocks
    BY <1>1, <2>1, <2>2
  <2>3. CASE blocks' = blocks \cup {cur}
    <3>1. cur \in Nat /\ k \in Nat /\ cur <= k + 1
      BY <1>0, <2>1, BlockFacts
    <3>2. CASE cur <= k
      <4>1. blocks' = blocks
        BY <1>0, <2>3, <3>1, <3>2
      <4> QED
        BY <1>1, <2>1, <4>1
    <3>3. CASE cur = k + 1
      <4>1. blocks' = 0..(k + 1)
        BY <1>0, <2>3, <3>1, <3>3
      <4>2. k + 1 \in Block /\ k + 1 > 0
        BY <2>1, <3>1, <3>3
      <4>3. k \in blocks /\ blocks = 0..k /\ blocks' = blocks \cup {k + 1}
        BY <1>0, <2>3, <3>1, <3>3
      <4>4. IndexInv'
        BY <2>1, <4>1, <4>2 DEF IndexInv
      <4>5. Log!Append
        BY <4>3 DEF Log!Append
      <4> QED
        BY <4>4, <4>5
    <3> QED
      BY <3>1, <3>2, <3>3
  <2> QED
    BY <1>14, <2>2, <2>3 DEF Insert
<1>15. CASE Remove
  BY <1>1, <1>15 DEF Remove
<1>16. CASE UNCHANGED vars
  BY <1>1, <1>16 DEF vars
<1> QED
  BY <1>2, <1>3, <1>4, <1>5, <1>6, <1>7, <1>8, <1>9, <1>10, <1>11, <1>12, <1>13,
     <1>14, <1>15, <1>16 DEF Next

(* The initial table satisfies the invariant. *)
LEMMA IndexInit == ASSUME Warm, Init PROVE IndexInv
BY DEF Warm, Init, IndexInv

(* On a warm index the invariant always holds. *)
LEMMA IndexInvariant == ASSUME Warm, ReliablePrevBid PROVE Spec => []IndexInv
<1>1. Init => IndexInv
  BY IndexInit
<1>2. TypeOK /\ IndexInv /\ [Next]_vars => IndexInv'
  BY IndexStep
<1> QED
  BY <1>1, <1>2, TypeCorrect, PTL DEF Spec

(***************************************************************************)
(* The index of blocks never has a hole: the forward check suffices for    *)
(* every arrival order, any number of crashes and any failing write, if    *)
(* the index starts warm and the read of the newest id is reliable.        *)
(***************************************************************************)
THEOREM AlwaysContiguous == ASSUME Warm, ReliablePrevBid PROVE Spec => []Contiguous
<1>1. IndexInv => Contiguous
  BY DEF IndexInv, Contiguous
<1> QED
  BY <1>1, IndexInvariant, PTL

(***************************************************************************)
(* Under the same conditions the indexer implements the append-only log of *)
(* BlockLog: readers see the table grow by one block at a time, in order.  *)
(***************************************************************************)
THEOREM ImplementsLog == ASSUME Warm, ReliablePrevBid PROVE Spec => LogSpec
<1>1. Init => Log!Init
  BY DEF Init, Log!Init
<1>2. TypeOK /\ IndexInv /\ [Next]_vars => [Log!Append]_blocks
  BY IndexStep
<1> QED
  BY <1>1, <1>2, TypeCorrect, IndexInvariant, PTL DEF Spec, LogSpec, Log!Spec

-------------------------------------------------------------------------------
(***************************************************************************)
(* The inductive invariant behind NoBlockLost.  A job moves the cursor to  *)
(* its upper id when it ends, so what it has asked for so far has to be    *)
(* accounted for; and a row that is about to leave blocks_processing has   *)
(* to be in `blocks`.                                                      *)
(***************************************************************************)
FetchInv ==
    /\ NoBlockLost
    /\ \A j \in Jobs : job[j].st = "running" =>
           \A b \in Block : b < job[j].next => Accounted(b)
    /\ pc = "remove" => cur \in blocks

(* The writes that move a block from one place to the next do not fail. *)
ReliableWrites == "add_block" \notin Faults /\ "insert" \notin Faults

(* No step but a crash loses a block that is on its way. *)
LEMMA AccountedStable ==
    ASSUME TypeOK, FetchInv, ReliableWrites, [Next]_vars, ~Crash, NEW b \in Block, Accounted(b)
    PROVE  Accounted(b)'
<1> USE DEF Accounted, chain, tables, fetcher, queues, thread, budget
<1>1. ASSUME UNCHANGED <<blocks, blocks_processing, rpc, adding>> PROVE Accounted(b)'
  BY <1>1
<1>2. CASE NewBlock \/ Start \/ Run \/ ReadItems \/ EndScan \/ GapBreak
  BY <1>1, <1>2 DEF NewBlock, Start, Run, ReadItems, EndScan, GapBreak
<1>3. ASSUME NEW j \in Jobs, NEW last \in Block, Poll(j, last) PROVE Accounted(b)'
  BY <1>1, <1>3 DEF Poll
<1>4. ASSUME NEW j \in Jobs, StartJob(j) \/ FinishJob(j) PROVE Accounted(b)'
  BY <1>1, <1>4 DEF StartJob, FinishJob
<1>5. ASSUME NEW j \in Jobs, RequestBlock(j) PROVE Accounted(b)'
  <2>1. rpc[b] \in Nat
    BY DEF TypeOK
  <2>2. rpc'[b] >= rpc[b]
    BY <1>5, <2>1 DEF RequestBlock, TypeOK
  <2> QED
    BY <1>5, <2>1, <2>2 DEF RequestBlock
<1>6. ASSUME NEW c \in Block, GetBlock(c) PROVE Accounted(b)'
  <2>1. rpc[b] \in Nat /\ adding[b] \in Nat
    BY DEF TypeOK
  <2>2. b # c => rpc'[b] = rpc[b] /\ adding'[b] = adding[b]
    BY <1>6 DEF GetBlock, TypeOK
  <2>3. b = c => adding'[b] = adding[b] + 1
    BY <1>6 DEF GetBlock, TypeOK
  <2>4. UNCHANGED <<blocks, blocks_processing>>
    BY <1>6 DEF GetBlock
  <2> QED
    BY <2>1, <2>2, <2>3, <2>4
<1>7. ASSUME NEW c \in Block, AddBlock(c) PROVE Accounted(b)'
  <2>1. blocks_processing' = blocks_processing \cup {c} /\ UNCHANGED <<blocks, rpc>>
    BY <1>7 DEF AddBlock, Fault, ReliableWrites
  <2>2. b # c => adding'[b] = adding[b]
    BY <1>7 DEF AddBlock, TypeOK
  <2> QED
    BY <2>1, <2>2
<1>8. ASSUME NEW c \in items, BlockChanges(c) \/ BadBlock(c) PROVE Accounted(b)'
  BY <1>1, <1>8 DEF BlockChanges, BadBlock
<1>9. CASE Insert
  BY <1>9 DEF Insert
<1>10. CASE Remove
  <2>1. cur \in blocks
    BY <1>10 DEF Remove, FetchInv
  <2>2. b \in blocks_processing => b = cur \/ b \in blocks_processing'
    BY <1>10 DEF Remove
  <2> QED
    BY <1>10, <2>1, <2>2 DEF Remove
<1>11. CASE UNCHANGED vars
  BY <1>1, <1>11 DEF vars
<1> QED
  BY <1>2, <1>3, <1>4, <1>5, <1>6, <1>7, <1>8, <1>9, <1>10, <1>11 DEF Next

(* A step of the indexer keeps the cursor behind what is accounted for. *)
LEMMA FetchStep ==
    ASSUME TypeOK, IndexInv, FetchInv, ReliableWrites, [Next]_vars
    PROVE  FetchInv'
<1> USE DEF chain, tables, fetcher, queues, thread, budget
<1> DEFINE JobsInv == \A j \in Jobs : job[j].st = "running" =>
                          \A b \in Block : b < job[j].next => Accounted(b)
           RowInv == pc = "remove" => cur \in blocks
<1>1. JobsInv /\ RowInv /\ NoBlockLost
  BY DEF FetchInv
<1>2. ASSUME JobsInv', RowInv', NoBlockLost' PROVE FetchInv'
  BY <1>2 DEF FetchInv
<1>3. ASSUME ~Crash, job' = job PROVE JobsInv'
  BY <1>1, <1>3, AccountedStable
<1>4. ASSUME ~Crash, first' = first, phase' = "run" => phase = "run" PROVE NoBlockLost'
  BY <1>1, <1>4, AccountedStable DEF NoBlockLost
<1>5. ASSUME blocks' = blocks, pc' # "remove" \/ (pc' = pc /\ cur' = cur) PROVE RowInv'
  BY <1>1, <1>5
<1>6. CASE Crash
  <2>1. JobsInv'
    BY <1>6 DEF Crash, FreeJob
  <2> QED
    BY <1>2, <1>6, <2>1 DEF Crash, NoBlockLost
<1> SUFFICES ASSUME ~Crash PROVE FetchInv'
  BY <1>6
<1>7. CASE Run
  <2>1. NoBlockLost'
    <3>1. \A b \in Block : b < first' => b \in blocks
      <4>1. PICK k \in Block : blocks = 0..k
        BY DEF IndexInv
      <4>2. first' = k \/ first' = 0
        BY <1>7, <4>1, LastOfContiguous DEF Run
      <4> QED
        BY <4>1, <4>2, BlockFacts
    <3> QED
      BY <1>7, <3>1 DEF Run, NoBlockLost, Accounted
  <2> QED
    BY <1>2, <1>3, <1>5, <1>7, <2>1 DEF Run
<1>8. ASSUME NEW j \in Jobs, NEW last \in Block, Poll(j, last) PROVE FetchInv'
  <2>1. JobsInv'
    <3> SUFFICES ASSUME NEW i \in Jobs, job'[i].st = "running" PROVE i # j
      BY <1>1, <1>8, AccountedStable DEF Poll, TypeOK
    <3> QED
      BY <1>8 DEF Poll, TypeOK
  <2> QED
    BY <1>2, <1>4, <1>5, <1>8, <2>1 DEF Poll
<1>9. ASSUME NEW j \in Jobs, StartJob(j) PROVE FetchInv'
  <2>1. JobsInv'
    <3> SUFFICES ASSUME NEW i \in Jobs, job'[i].st = "running",
                        NEW b \in Block, b < job'[i].next
                 PROVE  Accounted(b)'
      OBVIOUS
    <3>1. CASE i = j
      <4>1. job[j] \in JobState
        BY DEF TypeOK
      <4>2. job'[j].next = first
        BY <1>9, <4>1 DEF StartJob, TypeOK, JobState
      <4> QED
        BY <1>1, <1>9, <3>1, <4>2, AccountedStable DEF StartJob, NoBlockLost
    <3>2. CASE i # j
      <4>1. job'[i] = job[i]
        BY <1>9, <3>2 DEF StartJob, TypeOK
      <4> QED
        BY <1>1, <4>1, AccountedStable
    <3> QED
      BY <3>1, <3>2
  <2> QED
    BY <1>2, <1>4, <1>5, <1>9, <2>1 DEF StartJob
<1>10. ASSUME NEW j \in Jobs, RequestBlock(j) PROVE FetchInv'
  <2>1. JobsInv'
    <3> SUFFICES ASSUME NEW i \in Jobs, job'[i].st = "running",
                        NEW b \in Block, b < job'[i].next
                 PROVE  Accounted(b)'
      OBVIOUS
    <3>1. CASE i = j
      <4>1. job[j] \in JobState /\ job[j].next \in Nat /\ b \in Nat
        BY BlockFacts DEF TypeOK, JobState
      <4>2. job'[j].next = job[j].next + 1 /\ job[j].st = "running"
        BY <1>10, <4>1 DEF RequestBlock, TypeOK, JobState
      <4>3. CASE b < job[j].next
        BY <1>1, <4>2, <4>3, AccountedStable
      <4>4. CASE b = job[j].next
        <5>1. rpc[b] \in Nat /\ rpc'[b] = rpc[b] + 1
          BY <1>10, <4>4 DEF RequestBlock, TypeOK
        <5> QED
          BY <5>1 DEF Accounted
      <4> QED
        BY <3>1, <4>1, <4>2, <4>3, <4>4
    <3>2. CASE i # j
      <4>1. job'[i] = job[i]
        BY <1>10, <3>2 DEF RequestBlock, TypeOK
      <4> QED
        BY <1>1, <4>1, AccountedStable
    <3> QED
      BY <3>1, <3>2
  <2> QED
    BY <1>2, <1>4, <1>5, <1>10, <2>1 DEF RequestBlock
<1>11. ASSUME NEW j \in Jobs, FinishJob(j) PROVE FetchInv'
  <2>1. job[j].to \in Nat /\ job[j].next \in Nat
    BY BlockFacts DEF TypeOK, JobState
  <2>2. NoBlockLost'
    <3> SUFFICES ASSUME NEW b \in Block, b < job[j].to PROVE Accounted(b)'
      BY <1>11 DEF FinishJob, NoBlockLost
    <3>1. b < job[j].next
      BY <1>11, <2>1, BlockFacts DEF FinishJob
    <3> QED
      BY <1>1, <1>11, <3>1, AccountedStable DEF FinishJob
  <2>3. JobsInv'
    <3> SUFFICES ASSUME NEW i \in Jobs, job'[i].st = "running" PROVE job'[i] = job[i]
      BY <1>1, AccountedStable
    <3> QED
      BY <1>11 DEF FinishJob, FreeJob, TypeOK
  <2> QED
    BY <1>2, <1>5, <1>11, <2>2, <2>3 DEF FinishJob
<1>12. ASSUME NEW b \in Block, GetBlock(b) \/ AddBlock(b) PROVE FetchInv'
  BY <1>2, <1>3, <1>4, <1>5, <1>12 DEF GetBlock, AddBlock
<1>13. CASE NewBlock \/ ReadItems \/ EndScan \/ GapBreak
  BY <1>2, <1>3, <1>4, <1>5, <1>13 DEF NewBlock, ReadItems, EndScan, GapBreak
<1>14. CASE Start
  BY <1>2, <1>3, <1>4, <1>5, <1>14 DEF Start
<1>15. ASSUME NEW b \in items, BlockChanges(b) \/ BadBlock(b) PROVE FetchInv'
  BY <1>2, <1>3, <1>4, <1>5, <1>15 DEF BlockChanges, BadBlock
<1>16. CASE Insert
  <2>1. RowInv'
    BY <1>16 DEF Insert, Fault, ReliableWrites
  <2> QED
    BY <1>2, <1>3, <1>4, <1>16, <2>1 DEF Insert
<1>17. CASE Remove
  BY <1>2, <1>3, <1>4, <1>5, <1>17 DEF Remove
<1>18. CASE UNCHANGED vars
  BY <1>2, <1>3, <1>4, <1>5, <1>18 DEF vars
<1> QED
  BY <1>7, <1>8, <1>9, <1>10, <1>11, <1>12, <1>13, <1>14, <1>15, <1>16, <1>17, <1>18
     DEF Next

(***************************************************************************)
(* Below the fetcher's cursor every block is indexed or on its way, for    *)
(* any number of overlapping jobs and any number of restarts, if the index *)
(* starts warm and no write fails.                                         *)
(***************************************************************************)
THEOREM NeverLosesABlock ==
    ASSUME Warm, ReliablePrevBid, ReliableWrites PROVE Spec => []NoBlockLost
<1>1. Init => FetchInv
  BY DEF Init, FetchInv, NoBlockLost, FreeJob
<1>2. TypeOK /\ IndexInv /\ FetchInv /\ [Next]_vars => FetchInv'
  BY FetchStep
<1>3. FetchInv => NoBlockLost
  BY DEF FetchInv
<1> QED
  BY <1>1, <1>2, <1>3, TypeCorrect, IndexInvariant, PTL DEF Spec
===============================================================================
