--------------------------- MODULE NetworkStateProofs ---------------------------
(***************************************************************************)
(* Theorems about NetworkState for every set of servers and nodes, every   *)
(* roster and every height.                                                *)
(***************************************************************************)
EXTENDS NetworkState, TLAPS

-------------------------------------------------------------------------------
(* Blocks are positive naturals, and servers list nodes. *)
LEMMA BlockFacts ==
    /\ MinHeight \in Block
    /\ \A b \in Block : b \in Nat /\ b > NoBlock /\ b <= MaxHeight
    /\ \A b \in Block : Roster[b] \subseteq Nodes
    /\ \A b \in Block : b < MaxHeight => b + 1 \in Block
BY NetworkAssumption DEF Block, NoBlock

(* A failing call is counted within its bound. *)
LEMMA FaultCounted == ASSUME faults \in 0..MaxFaults, Fault PROVE faults' \in 0..MaxFaults
BY NetworkAssumption DEF Fault

(* A turn that has got as far as the nodes has a block. *)
TypeInv == /\ TypeOK
           /\ pc = "nodes" => next_block_id \in Block
           /\ pc \in {"insert", "wallets"} => block_id \in Block

LEMMA TypeInvariant == Spec => []TypeInv
<1>1. Init => TypeInv
  <2> SUFFICES ASSUME Init PROVE TypeInv
    OBVIOUS
  <2>1. head \in [Servers -> Block] /\ node_wallets \in [Nodes -> Block \cup {NoBlock}]
    BY BlockFacts DEF Init
  <2>2. crashes \in 0..MaxCrashes /\ faults \in 0..MaxFaults
    BY NetworkAssumption DEF Init
  <2> QED
    BY <2>1, <2>2 DEF Init, TypeOK, TypeInv
<1>2. TypeInv /\ [Next]_vars => TypeInv'
  <2> SUFFICES ASSUME TypeInv, [Next]_vars PROVE TypeInv'
    OBVIOUS
  <2>1. ASSUME NEW s \in Servers, NewBlock(s) PROVE TypeInv'
    BY <2>1, BlockFacts DEF NewBlock, TypeOK, TypeInv, loop, tables
  <2>2. ASSUME NEW s \in Servers, AskHead(s) PROVE TypeInv'
    <3>1. faults' \in 0..MaxFaults
      BY <2>2, FaultCounted DEF AskHead, TypeOK, TypeInv
    <3>2. bch_info_got' \in BOOLEAN /\ info' \in BOOLEAN
      BY <2>2 DEF AskHead, TypeOK, TypeInv
    <3>3. pc' \in {"top", "nodes", "insert", "wallets"} /\ next_block_id' \in Block \cup {NoBlock}
      BY <2>2 DEF AskHead, TypeOK, TypeInv
    <3> QED
      BY <2>2, <3>1, <3>2, <3>3 DEF AskHead, TypeOK, TypeInv
  <2>3. CASE SkipTurn
    BY <2>3 DEF SkipTurn, TypeOK, TypeInv, tables
  <2>4. CASE TakeNodes
    BY <2>4, BlockFacts DEF TakeNodes, TypeOK, TypeInv, tables
  <2>5. CASE InsertState
    <3>1. faults' \in 0..MaxFaults
      BY <2>5, FaultCounted DEF InsertState, TypeOK, TypeInv
    <3> QED
      BY <2>5, <3>1, BlockFacts DEF InsertState, TypeOK, TypeInv
  <2>6. ASSUME NEW n \in Nodes, UpdateNode(n) PROVE TypeInv'
    <3>1. faults' \in 0..MaxFaults
      BY <2>6, FaultCounted DEF UpdateNode, TypeOK, TypeInv
    <3> QED
      BY <2>6, <3>1 DEF UpdateNode, TypeOK, TypeInv
  <2>7. CASE Crash
    <3>1. crashes' \in 0..MaxCrashes
      BY <2>7, NetworkAssumption DEF Crash, TypeOK, TypeInv
    <3> QED
      BY <2>7, <3>1 DEF Crash, TypeOK, TypeInv, tables
  <2>8. CASE UNCHANGED vars
    BY <2>8 DEF vars, loop, tables, TypeOK, TypeInv
  <2> QED
    BY <2>1, <2>2, <2>3, <2>4, <2>5, <2>6, <2>7, <2>8 DEF Next
<1> QED
  BY <1>1, <1>2, PTL DEF Spec

(* Every state the loop reaches has the type the model gives it. *)
THEOREM TypeCorrect == Spec => []TypeOK
<1>1. TypeInv => TypeOK
  BY DEF TypeInv
<1> QED
  BY <1>1, TypeInvariant, PTL

-------------------------------------------------------------------------------
(* A swallowed failure leaves node_wallets ahead.  Without one, the invariant *)
(* adds what add_node_states has done when it comes to the nodes.             *)

StatesInv == WalletsHaveStates /\ (faults = 0 /\ pc = "wallets" => block_id \in node_states)

(* A failing call is remembered. *)
LEMMA FaultRemembered == ASSUME TypeInv, Fault PROVE faults' # 0
BY DEF Fault, TypeInv, TypeOK

(* add_node_states inserts the block's row before it updates a node, so a     *)
(* node's block has a row, for any number of crashes.                         *)
THEOREM WalletsAlwaysHaveStates == Spec => []WalletsHaveStates
<1>1. Init => StatesInv
  BY DEF Init, StatesInv, WalletsHaveStates
<1>2. TypeInv /\ StatesInv /\ [Next]_vars => StatesInv'
  <2> SUFFICES ASSUME TypeInv, StatesInv, [Next]_vars PROVE StatesInv'
    OBVIOUS
  <2>1. ASSUME NEW s \in Servers, NewBlock(s) PROVE StatesInv'
    BY <2>1 DEF NewBlock, StatesInv, WalletsHaveStates, loop, tables
  <2>2. ASSUME NEW s \in Servers, AskHead(s) PROVE StatesInv'
    BY <2>2, FaultRemembered DEF AskHead, StatesInv, WalletsHaveStates
  <2>3. CASE SkipTurn
    BY <2>3 DEF SkipTurn, StatesInv, WalletsHaveStates, tables
  <2>4. CASE TakeNodes
    BY <2>4 DEF TakeNodes, StatesInv, WalletsHaveStates, tables
  <2>5. CASE InsertState
    BY <2>5, FaultRemembered DEF InsertState, StatesInv, WalletsHaveStates
  <2>6. ASSUME NEW n \in Nodes, UpdateNode(n) PROVE StatesInv'
    <3>1. CASE Fault
      BY <2>6, <3>1, FaultRemembered DEF UpdateNode, StatesInv, WalletsHaveStates
    <3>2. CASE node_wallets' = [node_wallets EXCEPT ![n] = block_id] /\ faults' = faults
      <4>1. node_states' = node_states /\ block_id' = block_id /\ pc = "wallets"
        BY <2>6 DEF UpdateNode
      <4> QED
        BY <3>2, <4>1 DEF StatesInv, WalletsHaveStates, TypeInv, TypeOK
    <3> QED
      BY <2>6, <3>1, <3>2 DEF UpdateNode
  <2>7. CASE Crash
    BY <2>7 DEF Crash, StatesInv, WalletsHaveStates, tables
  <2>8. CASE UNCHANGED vars
    BY <2>8 DEF vars, loop, tables, StatesInv, WalletsHaveStates
  <2> QED
    BY <2>1, <2>2, <2>3, <2>4, <2>5, <2>6, <2>7, <2>8 DEF Next
<1>3. StatesInv => WalletsHaveStates
  BY DEF StatesInv
<1> QED
  BY <1>1, <1>2, <1>3, TypeInvariant, PTL DEF Spec

-------------------------------------------------------------------------------
(* Within one life of the process block_id, and with it node_wallets, only    *)
(* grows; a restart forgets block_id, and a server that lags may then be      *)
(* the first one asked.                                                       *)

SeenInv == crashes = 0 => \A n \in Nodes : node_wallets[n] <= block_id

(* The check against block_id keeps answers of lagging servers out: the block *)
(* a node was last seen at never goes back until the process is restarted.    *)
THEOREM NodesNeverRegress == Spec => NodesNeverGoBack
<1> DEFINE Kept == crashes = 0 => \A n \in Nodes : node_wallets'[n] >= node_wallets[n]
<1>1. Init => SeenInv
  BY DEF Init, SeenInv, NoBlock
<1>2. TypeInv /\ SeenInv /\ [Next]_vars => SeenInv' /\ Kept
  <2> SUFFICES ASSUME TypeInv, SeenInv, [Next]_vars PROVE SeenInv' /\ Kept
    OBVIOUS
  <2>0. block_id \in Nat /\ \A n \in Nodes : node_wallets[n] \in Nat
    BY BlockFacts DEF TypeInv, TypeOK, NoBlock
  <2>a. ASSUME node_wallets' = node_wallets, block_id' \in Nat, block_id' >= block_id, crashes' = crashes
        PROVE  SeenInv' /\ Kept
    BY <2>0, <2>a DEF SeenInv
  <2>1. ASSUME NEW s \in Servers, NewBlock(s) PROVE SeenInv' /\ Kept
    BY <2>1, <2>0, <2>a DEF NewBlock, loop, tables
  <2>2. ASSUME NEW s \in Servers, AskHead(s) PROVE SeenInv' /\ Kept
    BY <2>2, <2>0, <2>a DEF AskHead
  <2>3. CASE SkipTurn
    BY <2>3, <2>0, <2>a DEF SkipTurn, tables
  <2>4. CASE TakeNodes
    <3>1. next_block_id \in Nat /\ next_block_id > block_id
      BY <2>4, <2>0, BlockFacts DEF TakeNodes, Stale, TypeInv
    <3> QED
      BY <2>4, <2>0, <3>1, <2>a DEF TakeNodes, tables
  <2>5. CASE InsertState
    BY <2>5, <2>0, <2>a DEF InsertState
  <2>6. ASSUME NEW n \in Nodes, UpdateNode(n) PROVE SeenInv' /\ Kept
    <3>1. CASE node_wallets' = node_wallets
      BY <2>6, <3>1, <2>0, <2>a DEF UpdateNode
    <3>2. CASE node_wallets' = [node_wallets EXCEPT ![n] = block_id]
      BY <2>6, <3>2, <2>0 DEF UpdateNode, SeenInv, TypeInv, TypeOK
    <3> QED
      BY <2>6, <3>1, <3>2 DEF UpdateNode
  <2>7. CASE Crash
    BY <2>7, <2>0 DEF Crash, SeenInv, TypeInv, TypeOK, tables
  <2>8. CASE UNCHANGED vars
    BY <2>8, <2>0, <2>a DEF vars, loop, tables
  <2> QED
    BY <2>1, <2>2, <2>3, <2>4, <2>5, <2>6, <2>7, <2>8 DEF Next
<1>3. Spec => [](TypeInv /\ SeenInv)
  BY <1>1, <1>2, TypeInvariant, PTL DEF Spec
<1>4. Spec => [][Kept]_vars
  BY <1>2, <1>3, PTL DEF Spec
<1> QED
  BY <1>4 DEF NodesNeverGoBack
===============================================================================
