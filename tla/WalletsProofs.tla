----------------------------- MODULE WalletsProofs -----------------------------
(***************************************************************************)
(* Theorems about Wallets for every chain, number of threads, repetition   *)
(* of a block, number of crashes and of failing queries.                   *)
(***************************************************************************)
EXTENDS Wallets, FiniteSetTheorems, TLAPS

-------------------------------------------------------------------------------
(* What the threads and the fields look like. *)

Step == {"idle", "check", "insert", "blocks", "transactions", "refresh"}

(* A thread is at one of the updates of a block. *)
ThreadAt(t) == /\ t.pc \in Step
               /\ t.block \in Blocks
               /\ t.u \in 1..Len(Updates[t.block])

Shape == /\ queue \in Seq(Blocks)
         /\ \A w \in Threads : ThreadAt(thread[w])
         /\ thread \in [Threads -> [pc : Step, block : Blocks, u : Nat]]
         /\ wallets \subseteq Addr
         /\ wblocks \in [Addr -> SUBSET Blocks]
         /\ wtransactions \in [Addr -> SUBSET (Blocks \X Entry)]

(* The constants: a block has updates, each to an address with an entry. *)
LEMMA UpdateFacts ==
    /\ Genesis \in Blocks
    /\ \A b \in Blocks :
          /\ Len(Updates[b]) \in Nat
          /\ Len(Updates[b]) > 0
          /\ \A i \in 1..Len(Updates[b]) :
                Updates[b][i].addr \in Addr /\ Updates[b][i].entry \in Entry
<1>1. ASSUME NEW b \in Blocks, NEW i \in 1..Len(Updates[b])
      PROVE  Updates[b][i].addr \in Addr /\ Updates[b][i].entry \in Entry
  <2>1. Updates[b][i] \in UpdateSet
    BY WalletAssumption
  <2> QED
    BY <2>1 DEF Addr, Entry
<1> QED
  BY <1>1, WalletAssumption

(* An idle thread and one that begins a task are well placed. *)
LEMMA Placed ==
    /\ ThreadAt(Idle) /\ Idle \in [pc : Step, block : Blocks, u : Nat]
    /\ \A b \in Blocks : ThreadAt(Begin(b)) /\ Begin(b) \in [pc : Step, block : Blocks, u : Nat]
BY UpdateFacts DEF ThreadAt, Idle, Begin, Step

(* The address and the entry of the update a thread is in. *)
LEMMA UpdateType ==
    ASSUME Shape, NEW w \in Threads
    PROVE  /\ Update(w).addr \in Addr
           /\ Update(w).entry \in Entry
           /\ thread[w].block \in Blocks
BY UpdateFacts DEF Shape, ThreadAt, Update

(* After an update the thread is at the next one, done, or at the refresh. *)
LEMMA AdvanceSteps ==
    ASSUME Shape, NEW w \in Threads, Advance(w)
    PROVE  /\ \A v \in Threads : v # w => thread'[v] = thread[v]
           /\ thread'[w].pc \in {"idle", "check", "refresh"}
           /\ ThreadAt(thread'[w])
           /\ thread' \in [Threads -> [pc : Step, block : Blocks, u : Nat]]
           /\ \/ /\ thread[w].u < Len(Updates[thread[w].block])
                 /\ thread'[w] = [pc |-> "check", block |-> thread[w].block, u |-> thread[w].u + 1]
                 /\ recorded' = recorded
              \/ /\ thread[w].u = Len(Updates[thread[w].block])
                 /\ thread'[w].pc \in {"idle", "refresh"}
                 /\ recorded' = recorded \cup {thread[w].block}
<1>1. /\ thread[w].u \in 1..Len(Updates[thread[w].block])
      /\ thread[w].block \in Blocks
      /\ Len(Updates[thread[w].block]) \in Nat
  BY UpdateFacts DEF Shape, ThreadAt
<1>2. CASE thread[w].u = Len(Updates[thread[w].block])
  <2>1. CASE w = Utility
    <3>1. thread'[w] = [thread[w] EXCEPT !.pc = "refresh"]
      BY <1>2, <2>1 DEF Advance, Shape
    <3> QED
      BY <1>1, <1>2, <2>1, <3>1 DEF Advance, Shape, ThreadAt, Step
  <2>2. CASE w # Utility
    <3>1. thread'[w] = Idle
      BY <1>2, <2>2 DEF Advance, Shape
    <3> QED
      BY <1>1, <1>2, <2>2, <3>1, Placed DEF Advance, Shape, Idle
  <2> QED
    BY <2>1, <2>2
<1>3. CASE thread[w].u # Len(Updates[thread[w].block])
  <2>1. thread'[w] = [pc |-> "check", block |-> thread[w].block, u |-> thread[w].u + 1]
    BY <1>3 DEF Advance, Shape
  <2> QED
    BY <1>1, <1>3, <2>1 DEF Advance, Shape, ThreadAt, Step
<1> QED
  BY <1>2, <1>3

(* A step of Table::update that stays within the update. *)
LEMMA SameUpdate ==
    ASSUME Shape, NEW w \in Threads, NEW p \in Step, thread' = [thread EXCEPT ![w].pc = p]
    PROVE  /\ \A v \in Threads : v # w => thread'[v] = thread[v]
           /\ \A v \in Threads : thread'[v].block = thread[v].block /\ thread'[v].u = thread[v].u
           /\ thread'[w].pc = p
           /\ thread' \in [Threads -> [pc : Step, block : Blocks, u : Nat]]
           /\ \A v \in Threads : ThreadAt(thread'[v])
BY DEF Shape, ThreadAt, Step

-------------------------------------------------------------------------------
(* The shape is invariant. *)

THEOREM ShapeInvariant == Spec => []Shape
<1>1. Init => Shape
  BY Placed, WalletAssumption DEF Init, Shape
<1>2. Shape /\ [Next]_vars => Shape'
  <2> SUFFICES ASSUME Shape, [Next]_vars PROVE Shape'
    OBVIOUS
  <2>1. ASSUME NEW b \in Blocks, AddTransactions(b) PROVE Shape'
    BY <2>1 DEF AddTransactions, Shape, history
  <2>2. ASSUME NEW w \in Threads, StartTask(w) PROVE Shape'
    <3>1. Head(queue) \in Blocks /\ Tail(queue) \in Seq(Blocks)
      BY <2>2 DEF StartTask, Shape
    <3> QED
      BY <2>2, <3>1, Placed DEF StartTask, Shape, history
  <2>3. ASSUME NEW w \in Threads, CheckRow(w) PROVE Shape'
    <3>1. PICK p \in {"blocks", "insert"} : thread' = [thread EXCEPT ![w].pc = p]
      BY <2>3 DEF CheckRow
    <3> QED
      BY <2>3, <3>1, SameUpdate DEF CheckRow, Shape, Step, history
  <2>4. ASSUME NEW w \in Threads, InsertRow(w) PROVE Shape'
    <3>1. Shape!2'
      BY <2>4, AdvanceSteps DEF InsertRow, Shape
    <3>2. thread' \in [Threads -> [pc : Step, block : Blocks, u : Nat]] /\ queue' = queue
      BY <2>4, AdvanceSteps DEF InsertRow, Advance
    <3>3. Update(w).addr \in Addr /\ <<thread[w].block, Update(w).entry>> \in Blocks \X Entry
      BY UpdateType
    <3>4. wallets' \subseteq Addr /\ wblocks' \in [Addr -> SUBSET Blocks]
      BY <2>4, <3>3, UpdateType DEF InsertRow, Shape, history
    <3>5. wtransactions' \in [Addr -> SUBSET (Blocks \X Entry)]
      <4> DEFINE e == <<thread[w].block, Update(w).entry>>
      <4>1. \/ wtransactions' = wtransactions
            \/ wtransactions' = [wtransactions EXCEPT ![Update(w).addr] = {e}]
        BY <2>4 DEF InsertRow, history
      <4>2. e \in Blocks \X Entry
        BY <3>3
      <4> HIDE DEF e
      <4> QED
        BY <4>1, <4>2 DEF Shape
    <3> QED
      BY <3>1, <3>2, <3>4, <3>5 DEF Shape
  <2>5. ASSUME NEW w \in Threads, UpdateBlocks(w) PROVE Shape'
    <3>1. Shape!2' /\ Shape!3'
      BY <2>5, SameUpdate DEF UpdateBlocks, Step
    <3> QED
      BY <2>5, <3>1, UpdateType DEF UpdateBlocks, Shape
  <2>6. ASSUME NEW w \in Threads, UpdateTransactions(w) PROVE Shape'
    <3>1. Shape!2'
      BY <2>6, AdvanceSteps DEF UpdateTransactions, Shape
    <3>2. thread' \in [Threads -> [pc : Step, block : Blocks, u : Nat]] /\ queue' = queue
      BY <2>6, AdvanceSteps DEF UpdateTransactions, Advance
    <3> QED
      BY <2>6, <3>1, <3>2, UpdateType DEF UpdateTransactions, Shape
  <2>7. ASSUME NEW w \in Threads, UpdateFails(w) PROVE Shape'
    <3>1. Shape!2'
      BY <2>7, AdvanceSteps DEF UpdateFails, Shape
    <3>2. thread' \in [Threads -> [pc : Step, block : Blocks, u : Nat]] /\ queue' = queue
      BY <2>7, AdvanceSteps DEF UpdateFails, Advance
    <3> QED
      BY <2>7, <3>1, <3>2 DEF UpdateFails, Shape, history
  <2>8. CASE StartGenesis
    BY <2>8, Placed, UpdateFacts DEF StartGenesis, Shape, Threads, history
  <2>9. CASE RefreshStates
    BY <2>9, Placed DEF RefreshStates, Shape, Threads, history
  <2>10. ASSUME NEW s \in StateThreads, StateWork(s) PROVE Shape'
    BY <2>10 DEF StateWork, StartState, WriteState, Shape, tasks, history
  <2>11. CASE Crash
    BY <2>11, Placed DEF Crash, Shape, history
  <2>12. CASE MissGenesis
    BY <2>12 DEF MissGenesis, Shape, history
  <2>13. ASSUME NEW s \in StateThreads, StateFails(s) PROVE Shape'
    BY <2>13 DEF StateFails, Shape, tasks, history
  <2>14. CASE UNCHANGED vars
    BY <2>14 DEF vars, tasks, history, Shape
  <2> QED
    BY <2>1, <2>2, <2>3, <2>4, <2>5, <2>6, <2>7, <2>8, <2>9, <2>10, <2>11, <2>12, <2>13, <2>14 DEF Next, Work
<1> QED
  BY <1>1, <1>2, PTL DEF Spec

-------------------------------------------------------------------------------
(* The type invariant.  To the shape it adds the queue of state tasks, which  *)
(* update_wallets_state fills from the rows of wallets: there are finitely    *)
(* many, as every step adds at most one to those that were there.             *)

StateShape == /\ IsFiniteSet(wallets)
              /\ state_queue \in Seq(Addr)
              /\ asking \in [StateThreads -> Addr \cup {NoAddr}]
              /\ wallets_state \subseteq Addr

Bounds == /\ calls \in [Blocks -> 0..MaxCalls]
          /\ genesis_done \in BOOLEAN
          /\ recorded \subseteq Blocks
          /\ crashes \in 0..MaxCrashes
          /\ faults \in 0..MaxFaults

(* A finite set can be put in a sequence. *)
LEMMA SetToSeqType == ASSUME NEW S, IsFiniteSet(S) PROVE SetToSeq(S) \in Seq(S)
<1>1. Cardinality(S) \in Nat /\ ExistsBijection(1..Cardinality(S), S)
  BY FS_CardinalityType
<1>2. \E f \in [1..Cardinality(S) -> S] : IsInjective(f)
  BY <1>1 DEF ExistsBijection, Bijection, Injection
<1>3. SetToSeq(S) \in [1..Cardinality(S) -> S]
  BY <1>2 DEF SetToSeq
<1> QED
  BY <1>1, <1>3

(* A step of a wallet task queues state tasks of addresses and adds at most   *)
(* one row.                                                                   *)
LEMMA StateKept ==
    ASSUME StateShape, NEW a \in Addr,
           wallets' \in {wallets, wallets \cup {a}},
           state_queue' \in {state_queue, Append(state_queue, a)},
           UNCHANGED <<asking, wallets_state>>
    PROVE  StateShape'
<1>1. IsFiniteSet(wallets')
  <2>1. IsFiniteSet(wallets) /\ IsFiniteSet(wallets \cup {a})
    BY FS_AddElement DEF StateShape
  <2> QED
    BY <2>1
<1>2. state_queue' \in Seq(Addr)
  <2>1. CASE state_queue' = state_queue
    BY <2>1 DEF StateShape
  <2>2. CASE state_queue' = Append(state_queue, a)
    BY <2>2 DEF StateShape
  <2> QED
    BY <2>1, <2>2
<1> QED
  BY <1>1, <1>2 DEF StateShape

LEMMA StateStep == ASSUME Shape, StateShape, [Next]_vars PROVE StateShape'
<1>1. ASSUME NEW b \in Blocks, AddTransactions(b) PROVE StateShape'
  BY <1>1 DEF AddTransactions, StateShape, history, states
<1>2. ASSUME NEW w \in Threads, Work(w) \/ UpdateFails(w) PROVE StateShape'
  <2>1. Update(w).addr \in Addr
    BY UpdateType
  <2>2. CASE StartTask(w) \/ CheckRow(w) \/ UpdateBlocks(w)
    BY <2>2 DEF StartTask, CheckRow, UpdateBlocks, StateShape, history, states
  <2>3. CASE InsertRow(w)
    BY <2>1, <2>3, StateKept DEF InsertRow, UpdateWalletState, history
  <2>4. CASE UpdateTransactions(w) \/ UpdateFails(w)
    BY <2>1, <2>4, StateKept DEF UpdateTransactions, UpdateFails, UpdateWalletState, history
  <2> QED
    BY <1>2, <2>2, <2>3, <2>4 DEF Work
<1>3. CASE StartGenesis \/ MissGenesis
  BY <1>3 DEF StartGenesis, MissGenesis, StateShape, history, states
<1>4. CASE RefreshStates
  <2>1. SetToSeq(wallets) \in Seq(Addr)
    <3>1. SetToSeq(wallets) \in Seq(wallets) /\ wallets \subseteq Addr
      BY SetToSeqType DEF StateShape, Shape
    <3> QED
      BY <3>1
  <2>2. state_queue' \in Seq(Addr)
    BY <1>4, <2>1 DEF RefreshStates, StateShape
  <2> QED
    BY <1>4, <2>2 DEF RefreshStates, StateShape, history
<1>5. ASSUME NEW s \in StateThreads, StartState(s) PROVE StateShape'
  <2>1. Head(state_queue) \in Addr /\ Tail(state_queue) \in Seq(Addr)
    BY <1>5 DEF StartState, StateShape
  <2> QED
    BY <1>5, <2>1 DEF StartState, StateShape, history
<1>6. ASSUME NEW s \in StateThreads, WriteState(s) \/ StateFails(s) PROVE StateShape'
  <2>1. asking[s] \in Addr
    BY <1>6 DEF WriteState, StateFails, StateShape
  <2> QED
    BY <1>6, <2>1 DEF WriteState, StateFails, StateShape, history
<1>7. CASE Crash
  BY <1>7 DEF Crash, StateShape, history
<1>8. CASE UNCHANGED vars
  BY <1>8 DEF vars, states, history, StateShape
<1> QED
  BY <1>1, <1>2, <1>3, <1>4, <1>5, <1>6, <1>7, <1>8 DEF Next, StateWork

LEMMA BoundsStep == ASSUME Shape, Bounds, [Next]_vars PROVE Bounds'
<1> USE WalletAssumption
<1>1. ASSUME NEW b \in Blocks, AddTransactions(b) PROVE Bounds'
  BY <1>1 DEF AddTransactions, Bounds
<1>2. ASSUME NEW w \in Threads, InsertRow(w) \/ UpdateTransactions(w) \/ UpdateFails(w) PROVE Bounds'
  <2>1. Advance(w) /\ thread[w].block \in Blocks
    BY <1>2, UpdateType DEF InsertRow, UpdateTransactions, UpdateFails
  <2>2. calls' = calls /\ genesis_done' = genesis_done /\ recorded' \subseteq Blocks
    BY <2>1 DEF Advance, Bounds
  <2> QED
    BY <1>2, <2>2 DEF InsertRow, UpdateTransactions, UpdateFails, Bounds
<1>3. ASSUME NEW w \in Threads, StartTask(w) \/ CheckRow(w) \/ UpdateBlocks(w) PROVE Bounds'
  BY <1>3 DEF StartTask, CheckRow, UpdateBlocks, Bounds
<1>4. CASE StartGenesis \/ MissGenesis \/ RefreshStates \/ Crash
  <2>1. genesis_done' \in BOOLEAN
    BY <1>4 DEF StartGenesis, MissGenesis, RefreshStates, Crash, Bounds
  <2>2. crashes' \in 0..MaxCrashes
    BY <1>4 DEF StartGenesis, MissGenesis, RefreshStates, Crash, Bounds
  <2>3. faults' \in 0..MaxFaults
    BY <1>4 DEF StartGenesis, MissGenesis, RefreshStates, Crash, Bounds
  <2>4. calls' = calls /\ recorded' = recorded
    BY <1>4 DEF StartGenesis, MissGenesis, RefreshStates, Crash
  <2> QED
    BY <2>1, <2>2, <2>3, <2>4 DEF Bounds
<1>5. ASSUME NEW s \in StateThreads, StateWork(s) \/ StateFails(s) PROVE Bounds'
  BY <1>5 DEF StateWork, StartState, WriteState, StateFails, Bounds, tasks
<1>6. CASE UNCHANGED vars
  BY <1>6 DEF vars, tasks, Bounds
<1> QED
  BY <1>1, <1>2, <1>3, <1>4, <1>5, <1>6 DEF Next, Work

(* The queues, the threads and the tables keep their types: a thread is always *)
(* at one of the updates of its block, and every address a state task works on *)
(* is the address of a wallet.                                                 *)
THEOREM TypeCorrect == Spec => []TypeOK
<1>1. Init => StateShape /\ Bounds
  <2> SUFFICES ASSUME Init PROVE StateShape /\ Bounds
    OBVIOUS
  <2>1. StateShape
    BY WalletAssumption DEF Init, StateShape
  <2>2. calls \in [Blocks -> 0..MaxCalls] /\ crashes \in 0..MaxCrashes /\ faults \in 0..MaxFaults
    BY WalletAssumption DEF Init
  <2>3. genesis_done \in BOOLEAN /\ recorded \subseteq Blocks
    BY DEF Init
  <2> QED
    BY <2>1, <2>2, <2>3 DEF Bounds
<1>2. Shape /\ StateShape /\ Bounds /\ [Next]_vars => StateShape' /\ Bounds'
  BY StateStep, BoundsStep
<1>3. Shape /\ StateShape /\ Bounds => TypeOK
  BY DEF Shape, StateShape, Bounds, TypeOK, ThreadAt, Step
<1> QED
  BY <1>1, <1>2, <1>3, ShapeInvariant, PTL DEF Spec

-------------------------------------------------------------------------------
(* BlocksCoverTransactions, whatever fails and whenever the process stops.    *)
(* It is not inductive: a thread about to update "transactions" must have     *)
(* updated "blocks", in a row that is there and so is not inserted again.     *)

UpdateUnderWay(w) ==
    /\ thread[w].pc \in {"blocks", "transactions"} => Update(w).addr \in wallets
    /\ thread[w].pc = "transactions" => thread[w].block \in wblocks[Update(w).addr]

CoverInv == BlocksCoverTransactions /\ \A w \in Threads : UpdateUnderWay(w)

(* A thread that did not move, in a row whose blocks did not shrink. *)
LEMMA StillUnderWay ==
    ASSUME Shape, NEW w \in Threads, UpdateUnderWay(w),
           thread'[w] = thread[w],
           wallets \subseteq wallets',
           \A a \in wallets : wblocks[a] \subseteq wblocks'[a]
    PROVE  UpdateUnderWay(w)'
BY DEF UpdateUnderWay, Update

(* A thread that is at no update of a row. *)
LEMMA NotUnderWay ==
    ASSUME NEW w \in Threads, thread'[w].pc \in {"idle", "check", "insert", "refresh"}
    PROVE  UpdateUnderWay(w)'
BY DEF UpdateUnderWay

(* Steps that leave the history alone keep CoverInv if the threads they move  *)
(* end up outside an update of a row.                                         *)
LEMMA CoverKept ==
    ASSUME Shape, CoverInv, UNCHANGED history,
           \A w \in Threads : \/ thread'[w] = thread[w]
                              \/ thread'[w].pc \in {"idle", "check", "insert", "refresh"}
    PROVE  CoverInv'
<1>1. BlocksCoverTransactions'
  BY DEF CoverInv, BlocksCoverTransactions, history
<1>2. ASSUME NEW w \in Threads PROVE UpdateUnderWay(w)'
  <2>1. UpdateUnderWay(w)
    BY DEF CoverInv
  <2>2. wallets' = wallets /\ wblocks' = wblocks
    BY DEF history
  <2> QED
    BY <2>1, <2>2, StillUnderWay, NotUnderWay
<1> QED
  BY <1>1, <1>2 DEF CoverInv

(* CoverInv is inductive. *)
LEMMA CoverInvariant == Spec => []CoverInv
<1>1. Init => CoverInv
  BY DEF Init, CoverInv, BlocksCoverTransactions, UpdateUnderWay, Idle
<1>2. Shape /\ CoverInv /\ [Next]_vars => CoverInv'
  <2> SUFFICES ASSUME Shape, CoverInv, [Next]_vars PROVE CoverInv'
    OBVIOUS
  <2>1. ASSUME NEW b \in Blocks, AddTransactions(b) PROVE CoverInv'
    BY <2>1, CoverKept DEF AddTransactions
  <2>2. ASSUME NEW w \in Threads, StartTask(w) PROVE CoverInv'
    <3>1. \A v \in Threads : thread'[v] = thread[v] \/ thread'[v].pc = "check"
      BY <2>2 DEF StartTask, Begin, Shape
    <3> QED
      BY <2>2, <3>1, CoverKept DEF StartTask
  <2>3. ASSUME NEW w \in Threads, CheckRow(w) PROVE CoverInv'
    <3>1. CASE Update(w).addr \in wallets
      <4>1. thread' = [thread EXCEPT ![w].pc = "blocks"]
        BY <2>3, <3>1 DEF CheckRow
      <4>2. UNCHANGED history
        BY <2>3 DEF CheckRow
      <4>3. BlocksCoverTransactions'
        BY <4>2 DEF CoverInv, BlocksCoverTransactions, history
      <4>4. UpdateUnderWay(w)'
        <5>1. Update(w)' = Update(w) /\ thread'[w].pc = "blocks"
          BY <4>1, SameUpdate DEF Update, Step
        <5> QED
          BY <5>1, <4>2, <3>1 DEF UpdateUnderWay, history
      <4>5. ASSUME NEW v \in Threads, v # w PROVE UpdateUnderWay(v)'
        BY <4>1, <4>2, <4>5, SameUpdate, StillUnderWay DEF CoverInv, history, Step
      <4> QED
        BY <4>3, <4>4, <4>5 DEF CoverInv
    <3>2. CASE Update(w).addr \notin wallets
      <4>1. thread' = [thread EXCEPT ![w].pc = "insert"]
        BY <2>3, <3>2 DEF CheckRow
      <4>2. \A v \in Threads : thread'[v] = thread[v] \/ thread'[v].pc = "insert"
        BY <4>1, SameUpdate DEF Step
      <4> QED
        BY <2>3, <4>2, CoverKept DEF CheckRow
    <3> QED
      BY <3>1, <3>2
  <2>4. ASSUME NEW w \in Threads, InsertRow(w) PROVE CoverInv'
    <3> DEFINE a == Update(w).addr
    <3>1. Advance(w)
      BY <2>4 DEF InsertRow
    <3>2. CASE a \notin wallets
      <4>1. /\ wallets' = wallets \cup {a}
            /\ wblocks' = [wblocks EXCEPT ![a] = {thread[w].block}]
            /\ wtransactions' = [wtransactions EXCEPT ![a] = {<<thread[w].block, Update(w).entry>>}]
        BY <2>4, <3>2 DEF InsertRow
      <4>2. BlocksCoverTransactions'
        BY <4>1, UpdateType DEF CoverInv, BlocksCoverTransactions, Shape
      <4>3. \A c \in wallets : wblocks[c] \subseteq wblocks'[c]
        BY <4>1, <3>2 DEF Shape
      <4>4. ASSUME NEW v \in Threads PROVE UpdateUnderWay(v)'
        BY <3>1, <4>1, <4>3, AdvanceSteps, StillUnderWay, NotUnderWay DEF CoverInv
      <4> QED
        BY <4>2, <4>4 DEF CoverInv
    <3>3. CASE a \in wallets
      <4>1. UNCHANGED history
        BY <2>4, <3>3 DEF InsertRow
      <4> QED
        BY <3>1, <4>1, AdvanceSteps, CoverKept
    <3> QED
      BY <3>2, <3>3
  <2>5. ASSUME NEW w \in Threads, UpdateBlocks(w) PROVE CoverInv'
    <3> DEFINE a == Update(w).addr
    <3>1. /\ thread' = [thread EXCEPT ![w].pc = "transactions"]
          /\ wblocks' = [wblocks EXCEPT ![a] = @ \cup {thread[w].block}]
          /\ wallets' = wallets /\ wtransactions' = wtransactions
      BY <2>5 DEF UpdateBlocks
    <3>2. a \in Addr
      BY UpdateType
    <3>3. \A c \in Addr : wblocks[c] \subseteq wblocks'[c]
      BY <3>1, <3>2 DEF Shape
    <3>4. BlocksCoverTransactions'
      BY <3>1, <3>3 DEF CoverInv, BlocksCoverTransactions
    <3>5. UpdateUnderWay(w)'
      <4>1. a \in wallets
        BY <2>5 DEF CoverInv, UpdateUnderWay, UpdateBlocks
      <4>2. Update(w)' = Update(w) /\ thread'[w].block = thread[w].block
        BY <3>1, SameUpdate DEF Update, Step
      <4> QED
        BY <4>1, <4>2, <3>1, <3>2 DEF UpdateUnderWay, Shape
    <3>6. ASSUME NEW v \in Threads, v # w PROVE UpdateUnderWay(v)'
      <4>1. thread'[v] = thread[v]
        BY <3>1, <3>6, SameUpdate DEF Step
      <4> QED
        BY <4>1, <3>1, <3>3, StillUnderWay DEF CoverInv, Shape
    <3> QED
      BY <3>4, <3>5, <3>6 DEF CoverInv
  <2>6. ASSUME NEW w \in Threads, UpdateTransactions(w) PROVE CoverInv'
    <3>1. Advance(w) /\ wallets' = wallets /\ wblocks' = wblocks
      BY <2>6 DEF UpdateTransactions
    <3>2. thread[w].block \in wblocks[Update(w).addr]
      BY <2>6 DEF CoverInv, UpdateUnderWay, UpdateTransactions
    <3>3. BlocksCoverTransactions'
      BY <2>6, <3>1, <3>2, UpdateType DEF UpdateTransactions, CoverInv, BlocksCoverTransactions, Shape
    <3>4. ASSUME NEW v \in Threads PROVE UpdateUnderWay(v)'
      BY <3>1, AdvanceSteps, StillUnderWay, NotUnderWay DEF CoverInv
    <3> QED
      BY <3>3, <3>4 DEF CoverInv
  <2>7. ASSUME NEW w \in Threads, UpdateFails(w) PROVE CoverInv'
    BY <2>7, AdvanceSteps, CoverKept DEF UpdateFails
  <2>8. CASE StartGenesis
    <3>1. \A v \in Threads : thread'[v] = thread[v] \/ thread'[v].pc = "check"
      BY <2>8 DEF StartGenesis, Begin, Shape
    <3> QED
      BY <2>8, <3>1, CoverKept DEF StartGenesis
  <2>9. CASE RefreshStates
    <3>1. \A v \in Threads : thread'[v] = thread[v] \/ thread'[v].pc = "idle"
      BY <2>9 DEF RefreshStates, Idle, Shape
    <3> QED
      BY <2>9, <3>1, CoverKept DEF RefreshStates
  <2>10. ASSUME NEW s \in StateThreads, StateWork(s) PROVE CoverInv'
    <3>1. UNCHANGED history /\ thread' = thread
      BY <2>10 DEF StateWork, StartState, WriteState, tasks
    <3> QED
      BY <3>1, CoverKept
  <2>11. CASE Crash
    <3>1. \A v \in Threads : thread'[v].pc = "idle"
      BY <2>11 DEF Crash, Idle
    <3> QED
      BY <2>11, <3>1, CoverKept DEF Crash
  <2>12. CASE MissGenesis
    BY <2>12, CoverKept DEF MissGenesis
  <2>13. ASSUME NEW s \in StateThreads, StateFails(s) PROVE CoverInv'
    BY <2>13, CoverKept DEF StateFails, tasks
  <2>14. CASE UNCHANGED vars
    BY <2>14, CoverKept DEF vars, tasks
  <2> QED
    BY <2>1, <2>2, <2>3, <2>4, <2>5, <2>6, <2>7, <2>8, <2>9, <2>10, <2>11, <2>12, <2>13, <2>14 DEF Next, Work
<1> QED
  BY <1>1, <1>2, ShapeInvariant, PTL DEF Spec

(* Table::update writes "blocks" before "transactions", and a row once        *)
(* inserted is only added to: a transaction's block is always among the       *)
(* wallet's blocks.                                                           *)
THEOREM AlwaysCovered == Spec => []BlocksCoverTransactions
<1>1. CoverInv => BlocksCoverTransactions
  BY DEF CoverInv
<1> QED
  BY <1>1, CoverInvariant, PTL

-------------------------------------------------------------------------------
(* HistoryNeverShrinks.  An insert that finds no row sets the fields afresh,  *)
(* so nothing may be in the fields of an address without a row: rows are only *)
(* added to once they are there, which is what UpdateUnderWay says.           *)

NoRowNoHistory == \A a \in Addr : a \notin wallets => wblocks[a] = {} /\ wtransactions[a] = {}

OnlyGrows == /\ wallets \subseteq wallets'
             /\ \A a \in Addr : /\ wblocks[a] \subseteq wblocks'[a]
                                /\ wtransactions[a] \subseteq wtransactions'[a]

(* Steps that leave the history alone. *)
LEMMA HistoryKept == ASSUME NoRowNoHistory, UNCHANGED history PROVE NoRowNoHistory' /\ OnlyGrows
BY DEF NoRowNoHistory, OnlyGrows, history

(* Every step of Table::update: what it adds, it adds to a row that is there, *)
(* or it opens one where nothing was.                                         *)
LEMMA HistoryStep ==
    ASSUME Shape, CoverInv, NoRowNoHistory, [Next]_vars
    PROVE  NoRowNoHistory' /\ OnlyGrows
<1>1. ASSUME NEW w \in Threads, InsertRow(w) PROVE NoRowNoHistory' /\ OnlyGrows
  <2> DEFINE a == Update(w).addr
             b == thread[w].block
  <2>1. CASE a \notin wallets
    <3>1. /\ wallets' = wallets \cup {a}
          /\ wblocks' = [wblocks EXCEPT ![a] = {b}]
          /\ wtransactions' = [wtransactions EXCEPT ![a] = {<<b, Update(w).entry>>}]
      BY <1>1, <2>1 DEF InsertRow
    <3>2. a \in Addr /\ wblocks[a] = {} /\ wtransactions[a] = {}
      BY <2>1, UpdateType DEF NoRowNoHistory
    <3>3. \A c \in Addr : c # a => wblocks'[c] = wblocks[c] /\ wtransactions'[c] = wtransactions[c]
      BY <3>1 DEF Shape
    <3>4. NoRowNoHistory'
      BY <3>1, <3>3 DEF NoRowNoHistory
    <3> QED
      BY <3>1, <3>2, <3>3, <3>4 DEF OnlyGrows
  <2>2. CASE a \in wallets
    BY <1>1, <2>2, HistoryKept DEF InsertRow
  <2> QED
    BY <2>1, <2>2
<1>2. ASSUME NEW w \in Threads, UpdateBlocks(w) PROVE NoRowNoHistory' /\ OnlyGrows
  <2>1. /\ wblocks' = [wblocks EXCEPT ![Update(w).addr] = @ \cup {thread[w].block}]
        /\ wallets' = wallets /\ wtransactions' = wtransactions
    BY <1>2 DEF UpdateBlocks
  <2>2. Update(w).addr \in wallets
    BY <1>2 DEF CoverInv, UpdateUnderWay, UpdateBlocks
  <2>3. \A c \in Addr : /\ wblocks[c] \subseteq wblocks'[c]
                        /\ c \notin wallets => wblocks'[c] = wblocks[c]
    BY <2>1, <2>2 DEF Shape
  <2> QED
    BY <2>1, <2>3 DEF NoRowNoHistory, OnlyGrows
<1>3. ASSUME NEW w \in Threads, UpdateTransactions(w) PROVE NoRowNoHistory' /\ OnlyGrows
  <2>1. /\ wtransactions' = [wtransactions EXCEPT ![Update(w).addr] =
                               @ \cup {<<thread[w].block, Update(w).entry>>}]
        /\ wallets' = wallets /\ wblocks' = wblocks
    BY <1>3 DEF UpdateTransactions
  <2>2. Update(w).addr \in wallets
    BY <1>3 DEF CoverInv, UpdateUnderWay, UpdateTransactions
  <2>3. \A c \in Addr : /\ wtransactions[c] \subseteq wtransactions'[c]
                        /\ c \notin wallets => wtransactions'[c] = wtransactions[c]
    BY <2>1, <2>2 DEF Shape
  <2> QED
    BY <2>1, <2>3 DEF NoRowNoHistory, OnlyGrows
<1>4. ASSUME NEW w \in Threads, StartTask(w) \/ CheckRow(w) \/ UpdateFails(w) PROVE UNCHANGED history
  BY <1>4 DEF StartTask, CheckRow, UpdateFails
<1>5. ASSUME NEW b \in Blocks, AddTransactions(b) PROVE UNCHANGED history
  BY <1>5 DEF AddTransactions
<1>6. ASSUME NEW s \in StateThreads, StateWork(s) \/ StateFails(s) PROVE UNCHANGED history
  BY <1>6 DEF StateWork, StartState, WriteState, StateFails
<1>7. ASSUME StartGenesis \/ MissGenesis \/ RefreshStates \/ Crash \/ UNCHANGED vars
      PROVE  UNCHANGED history
  BY <1>7 DEF StartGenesis, MissGenesis, RefreshStates, Crash, vars
<1> QED
  BY <1>1, <1>2, <1>3, <1>4, <1>5, <1>6, <1>7, HistoryKept DEF Next, Work

(* No step of any thread takes a row, a block or a transaction of a wallet    *)
(* away: not the insert of a task that saw no row while another task opened   *)
(* it, nor a query that fails or a process that stops and starts again.       *)
THEOREM NeverShrinks == Spec => HistoryNeverShrinks
<1>1. Init => NoRowNoHistory
  BY DEF Init, NoRowNoHistory
<1>2. Shape /\ CoverInv /\ NoRowNoHistory /\ [Next]_vars => NoRowNoHistory' /\ [OnlyGrows]_vars
  BY HistoryStep
<1>3. [OnlyGrows]_vars <=> [/\ wallets \subseteq wallets'
                            /\ \A a \in Addr : /\ wblocks[a] \subseteq wblocks'[a]
                                               /\ wtransactions[a] \subseteq wtransactions'[a]]_vars
  BY DEF OnlyGrows
<1> QED
  BY <1>1, <1>2, <1>3, ShapeInvariant, CoverInvariant, PTL DEF Spec, HistoryNeverShrinks

-------------------------------------------------------------------------------
(* KnownHistoryRecorded.  Table::update never takes the branch that inserts   *)
(* for a wallet that has a row, the branch in which two tasks can miss one    *)
(* another (run wallet_race).  A failing query is skipped, by design, so      *)
(* nothing is promised after one.                                             *)

Entered(b, i) == Updates[b][i].addr \in Known =>
                     <<b, Updates[b][i].entry>> \in wtransactions[Updates[b][i].addr]

Updating == {"check", "insert", "blocks", "transactions"}

(* The updates before the one the thread is in are done. *)
DoneSoFar(w) == thread[w].pc \in Updating =>
                   \A i \in 1..(thread[w].u - 1) : Entered(thread[w].block, i)

InsertsNew(w) == thread[w].pc = "insert" => Update(w).addr \notin Known

RecordInv == /\ Known \subseteq wallets
             /\ recorded \subseteq Blocks
             /\ \A w \in Threads : InsertsNew(w) /\ DoneSoFar(w)
             /\ \A b \in recorded : \A i \in 1..Len(Updates[b]) : Entered(b, i)

(* The fields of the wallets that had a row only grow. *)
Grows == \A a \in Known : wtransactions[a] \subseteq wtransactions'[a]

(* Every update of a block has a place in its sequence. *)
LEMMA RecordedByPlace ==
    ASSUME recorded \subseteq Blocks,
           faults = 0 => \A b \in recorded : \A i \in 1..Len(Updates[b]) : Entered(b, i)
    PROVE  KnownHistoryRecorded
<1> SUFFICES ASSUME faults = 0, NEW b \in recorded, NEW u \in Range(Updates[b]), u.addr \in Known
             PROVE  <<b, u.entry>> \in wtransactions[u.addr]
  BY DEF KnownHistoryRecorded
<1>1. PICK i \in 1..Len(Updates[b]) : u = Updates[b][i]
  BY WalletAssumption DEF Range
<1> QED
  BY <1>1 DEF Entered

(* What is entered stays entered while the fields only grow. *)
LEMMA EnteredStays ==
    ASSUME NEW b \in Blocks, NEW i \in 1..Len(Updates[b]), Entered(b, i), Grows
    PROVE  Entered(b, i)'
BY UpdateFacts DEF Entered, Grows

(* A thread that stays in its update has done the ones before. *)
LEMMA StillDone ==
    ASSUME Shape, NEW w \in Threads, DoneSoFar(w), Grows,
           thread'[w].block = thread[w].block, thread'[w].u = thread[w].u,
           thread[w].pc \in Updating
    PROVE  DoneSoFar(w)'
<1>1. PICK b \in Blocks, n \in Nat : b = thread[w].block /\ n = thread[w].u /\ n <= Len(Updates[b])
  BY UpdateFacts DEF Shape, ThreadAt
<1>2. ASSUME NEW i \in 1..(n - 1) PROVE Entered(b, i)'
  <2>1. Entered(b, i) /\ i \in 1..Len(Updates[b])
    BY <1>1, UpdateFacts DEF DoneSoFar
  <2> QED
    BY <2>1, EnteredStays
<1> QED
  BY <1>1, <1>2 DEF DoneSoFar

(* A thread that did not move, that is at no update, or at its first one. *)
LEMMA OtherThread ==
    ASSUME Shape, NEW w \in Threads, DoneSoFar(w), InsertsNew(w), Grows,
           \/ thread'[w] = thread[w]
           \/ thread'[w].pc \in {"idle", "refresh"}
           \/ thread'[w].pc = "check" /\ thread'[w].u = 1
    PROVE  InsertsNew(w)' /\ DoneSoFar(w)'
<1>1. CASE thread'[w] = thread[w] /\ thread[w].pc \in Updating
  BY <1>1, StillDone DEF InsertsNew, Update
<1>2. CASE thread'[w].pc \notin Updating
  BY <1>2 DEF InsertsNew, DoneSoFar, Updating
<1>3. CASE thread'[w].pc = "check" /\ thread'[w].u = 1
  BY <1>3 DEF InsertsNew, DoneSoFar
<1> QED
  BY <1>1, <1>2, <1>3 DEF Updating

(* Steps that only add to the fields and end no task. *)
LEMMA RecordKept ==
    ASSUME Shape, RecordInv, wallets \subseteq wallets', recorded' = recorded, Grows,
           \A w \in Threads : InsertsNew(w)' /\ DoneSoFar(w)'
    PROVE  RecordInv'
<1>1. ASSUME NEW b \in recorded', NEW i \in 1..Len(Updates[b]) PROVE Entered(b, i)'
  BY EnteredStays DEF RecordInv
<1> QED
  BY <1>1 DEF RecordInv

(* Steps that leave the history alone and move no thread within an update. *)
LEMMA RecordQuiet ==
    ASSUME Shape, RecordInv, UNCHANGED history, recorded' = recorded,
           \A w \in Threads : \/ thread'[w] = thread[w]
                              \/ thread'[w].pc \in {"idle", "refresh"}
                              \/ thread'[w].pc = "check" /\ thread'[w].u = 1
    PROVE  RecordInv'
<1>1. Grows /\ wallets' = wallets
  BY DEF Grows, history
<1>2. ASSUME NEW w \in Threads PROVE InsertsNew(w)' /\ DoneSoFar(w)'
  <2>1. DoneSoFar(w) /\ InsertsNew(w)
    BY DEF RecordInv
  <2> QED
    BY <1>1, <2>1, OtherThread
<1> QED
  BY <1>1, <1>2, RecordKept

(* The end of an update whose entry is there, if the wallet had a row. *)
LEMMA RecordAdvance ==
    ASSUME Shape, RecordInv, NEW w \in Threads, thread[w].pc \in Updating, Advance(w),
           wallets \subseteq wallets', Grows,
           NEW b \in Blocks, b = thread[w].block,
           NEW n \in Nat, n = thread[w].u, Entered(b, n)'
    PROVE  RecordInv'
<1>1. b = thread[w].block /\ n = thread[w].u /\ n \in 1..Len(Updates[b])
  BY UpdateFacts DEF Shape, ThreadAt
<1>2. Entered(b, n)'
  OBVIOUS
<1>3. ASSUME NEW i \in 1..n PROVE Entered(b, i)'
  <2>1. CASE i = n
    BY <2>1, <1>2
  <2>2. CASE i # n
    <3>1. Entered(b, i) /\ i \in 1..Len(Updates[b])
      BY <2>2, <1>1, UpdateFacts DEF RecordInv, DoneSoFar
    <3> QED
      BY <3>1, EnteredStays
  <2> QED
    BY <2>1, <2>2
<1>4. ASSUME NEW v \in Threads PROVE InsertsNew(v)' /\ DoneSoFar(v)'
  <2>1. CASE v # w
    <3>1. thread'[v] = thread[v] /\ DoneSoFar(v) /\ InsertsNew(v)
      BY <2>1, AdvanceSteps DEF RecordInv
    <3> QED
      BY <3>1, OtherThread
  <2>2. CASE v = w /\ n < Len(Updates[b])
    <3>1. thread'[w] = [pc |-> "check", block |-> b, u |-> n + 1]
      BY <1>1, <2>2, AdvanceSteps
    <3> QED
      BY <2>2, <3>1, <1>1, <1>3 DEF InsertsNew, DoneSoFar
  <2>3. CASE v = w /\ n = Len(Updates[b])
    <3>1. ~(thread[w].u < Len(Updates[thread[w].block]))
      BY <1>1, <2>3
    <3>2. thread'[w].pc \in {"idle", "refresh"}
      BY <3>1, AdvanceSteps
    <3> QED
      BY <2>3, <3>2 DEF InsertsNew, DoneSoFar, Updating
  <2> QED
    BY <2>1, <2>2, <2>3, <1>1, UpdateFacts
<1>5. recorded' \subseteq Blocks
  BY AdvanceSteps, UpdateType DEF RecordInv
<1>6. ASSUME NEW c \in recorded', NEW i \in 1..Len(Updates[c]) PROVE Entered(c, i)'
  <2>1. CASE c \in recorded
    <3>1. Entered(c, i) /\ c \in Blocks
      BY <2>1 DEF RecordInv
    <3> QED
      BY <3>1, EnteredStays
  <2>2. CASE c \notin recorded
    <3>1. c = b /\ n = Len(Updates[b])
      BY <2>2, <1>1, AdvanceSteps
    <3> QED
      BY <3>1, <1>3
  <2> QED
    BY <2>1, <2>2
<1> QED
  BY <1>4, <1>5, <1>6 DEF RecordInv

(* Without a failing call the history of the wallets that had a row is kept;  *)
(* a step that fails is counted.                                              *)
LEMMA RecordStep ==
    ASSUME Shape, RecordInv, faults = 0, [Next]_vars, faults' = 0
    PROVE  RecordInv'
<1>1. ASSUME NEW b \in Blocks, AddTransactions(b) PROVE RecordInv'
  BY <1>1, RecordQuiet DEF AddTransactions
<1>2. ASSUME NEW w \in Threads, StartTask(w) PROVE RecordInv'
  <2>1. \A v \in Threads : thread'[v] = thread[v] \/ (thread'[v].pc = "check" /\ thread'[v].u = 1)
    BY <1>2 DEF StartTask, Begin, Shape
  <2> QED
    BY <1>2, <2>1, RecordQuiet DEF StartTask
<1>3. ASSUME NEW w \in Threads, CheckRow(w) PROVE RecordInv'
  <2>1. PICK p \in {"blocks", "insert"} :
            /\ thread' = [thread EXCEPT ![w].pc = p]
            /\ p = "insert" => Update(w).addr \notin Known
    BY <1>3 DEF CheckRow, RecordInv
  <2>2. Grows /\ wallets' = wallets /\ recorded' = recorded /\ thread[w].pc \in Updating
    BY <1>3 DEF CheckRow, history, Grows, Updating
  <2>3. ASSUME NEW v \in Threads, v # w PROVE InsertsNew(v)' /\ DoneSoFar(v)'
    BY <2>1, <2>2, <2>3, SameUpdate, OtherThread DEF Step, RecordInv
  <2>4. InsertsNew(w)' /\ DoneSoFar(w)'
    <3>1. thread'[w].block = thread[w].block /\ thread'[w].u = thread[w].u /\ thread'[w].pc = p
      BY <2>1, SameUpdate DEF Step
    <3> QED
      BY <2>1, <2>2, <3>1, StillDone DEF InsertsNew, Update, RecordInv
  <2> QED
    BY <2>2, <2>3, <2>4, RecordKept
<1>4. ASSUME NEW w \in Threads, InsertRow(w) PROVE RecordInv'
  <2>1. PICK b \in Blocks, n \in Nat : /\ b = thread[w].block /\ n = thread[w].u
                                       /\ n \in 1..Len(Updates[b])
    BY UpdateFacts DEF Shape, ThreadAt
  <2>2. Update(w) = Updates[b][n] /\ thread[w].pc \in Updating /\ Advance(w)
    BY <1>4, <2>1 DEF Update, InsertRow, Updating
  <2>3. Updates[b][n].addr \notin Known
    BY <1>4, <2>2 DEF InsertRow, RecordInv, InsertsNew
  <2>4. Grows /\ wallets \subseteq wallets'
    BY <1>4, <2>2, <2>3, WalletAssumption DEF InsertRow, history, Grows, Shape
  <2>5. Entered(b, n)'
    BY <2>3 DEF Entered
  <2> QED
    BY <2>1, <2>2, <2>4, <2>5, RecordAdvance
<1>5. ASSUME NEW w \in Threads, UpdateBlocks(w) PROVE RecordInv'
  <2>1. thread' = [thread EXCEPT ![w].pc = "transactions"] /\ thread[w].pc \in Updating
    BY <1>5 DEF UpdateBlocks, Updating
  <2>2. Grows /\ wallets' = wallets /\ recorded' = recorded
    BY <1>5 DEF UpdateBlocks, Grows
  <2>3. ASSUME NEW v \in Threads, v # w PROVE InsertsNew(v)' /\ DoneSoFar(v)'
    BY <2>1, <2>2, <2>3, SameUpdate, OtherThread DEF Step, RecordInv
  <2>4. InsertsNew(w)' /\ DoneSoFar(w)'
    BY <2>1, <2>2, SameUpdate, StillDone DEF InsertsNew, RecordInv, Step
  <2> QED
    BY <2>2, <2>3, <2>4, RecordKept
<1>6. ASSUME NEW w \in Threads, UpdateTransactions(w) PROVE RecordInv'
  <2>1. PICK b \in Blocks, n \in Nat : /\ b = thread[w].block /\ n = thread[w].u
                                       /\ n \in 1..Len(Updates[b])
    BY UpdateFacts DEF Shape, ThreadAt
  <2>2. Update(w) = Updates[b][n] /\ thread[w].pc \in Updating /\ Advance(w) /\ wallets' = wallets
    BY <1>6, <2>1 DEF Update, UpdateTransactions, Updating
  <2>3. wtransactions' = [wtransactions EXCEPT ![Updates[b][n].addr] = @ \cup {<<b, Updates[b][n].entry>>}]
    BY <1>6, <2>1, <2>2 DEF UpdateTransactions
  <2>4. Grows
    BY <2>3, WalletAssumption DEF Grows, Shape
  <2>5. Entered(b, n)'
    BY <2>1, <2>3, UpdateFacts DEF Entered, Shape
  <2> QED
    BY <2>1, <2>2, <2>4, <2>5, RecordAdvance
<1>7. CASE StartGenesis
  <2>1. \A v \in Threads : thread'[v] = thread[v] \/ (thread'[v].pc = "check" /\ thread'[v].u = 1)
    BY <1>7 DEF StartGenesis, Begin, Shape
  <2> QED
    BY <1>7, <2>1, RecordQuiet DEF StartGenesis
<1>8. CASE RefreshStates
  <2>1. \A v \in Threads : thread'[v] = thread[v] \/ thread'[v].pc = "idle"
    BY <1>8 DEF RefreshStates, Idle, Shape
  <2> QED
    BY <1>8, <2>1, RecordQuiet DEF RefreshStates
<1>9. ASSUME NEW s \in StateThreads, StateWork(s) PROVE RecordInv'
  <2>1. thread' = thread /\ UNCHANGED history /\ recorded' = recorded
    BY <1>9 DEF StateWork, StartState, WriteState, tasks
  <2> QED
    BY <2>1, RecordQuiet
<1>10. CASE Crash
  <2>1. \A v \in Threads : thread'[v].pc = "idle"
    BY <1>10 DEF Crash, Idle
  <2> QED
    BY <1>10, <2>1, RecordQuiet DEF Crash
<1>11. CASE MissGenesis \/ \E w \in Threads : UpdateFails(w)
  BY <1>11 DEF MissGenesis, UpdateFails
<1>12. ASSUME NEW s \in StateThreads, StateFails(s) PROVE RecordInv'
  BY <1>12 DEF StateFails
<1>13. CASE UNCHANGED vars
  BY <1>13, RecordQuiet DEF vars, tasks
<1> QED
  BY <1>1, <1>2, <1>3, <1>4, <1>5, <1>6, <1>7, <1>8, <1>9, <1>10, <1>11, <1>12, <1>13 DEF Next, Work

(* Failing calls are counted, and none is forgotten. *)
LEMMA FaultsCounted == ASSUME faults \in Nat, [Next]_vars
                       PROVE  faults' \in Nat /\ (faults' = 0 => faults = 0)
<1>1. faults' = faults \/ faults' = faults + 1
  BY DEF Next, vars, AddTransactions, Work, StartTask, CheckRow, InsertRow, UpdateBlocks,
     UpdateTransactions, UpdateFails, StartGenesis, MissGenesis, RefreshStates, StateWork,
     StartState, WriteState, StateFails, Crash
<1> QED
  BY <1>1

(* Once the wallet task of a block has run, every transaction of it is in the *)
(* row of every wallet involved that had one, for any number of threads,      *)
(* repeated blocks and crashes, as long as no query has failed.               *)
THEOREM AlwaysRecorded == Spec => []KnownHistoryRecorded
<1> DEFINE Counted == faults \in Nat /\ (faults = 0 => RecordInv)
<1>1. Init => Counted
  BY DEF Init, RecordInv, DoneSoFar, InsertsNew, Idle, Updating
<1>2. Shape /\ Counted /\ [Next]_vars => Counted'
  BY RecordStep, FaultsCounted
<1>3. Counted => KnownHistoryRecorded
  BY RecordedByPlace DEF RecordInv, KnownHistoryRecorded
<1> QED
  BY <1>1, <1>2, <1>3, ShapeInvariant, PTL DEF Spec
===============================================================================
