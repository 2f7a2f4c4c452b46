------------------------------ MODULE NetworkState ------------------------------
(***************************************************************************)
(* The network state: Fetcher::fetch_states asks one server after another  *)
(* for the current block and the consensus nodes, and Db::add_node_states  *)
(* writes a row of node_states for the block and one of node_wallets for   *)
(* each node, a query at a time.  The loop's block_id is not stored: after *)
(* a restart it is 0 again.  Servers lag behind each other.                *)
(***************************************************************************)
EXTENDS Naturals, Sequences, FiniteSets

CONSTANTS
    Servers,        \* the rpc urls, asked in turn
    Nodes,          \* public keys of consensus nodes
    Roster,         \* Roster[b]: the nodes a server at block b lists
    MinHeight,      \* the servers' block when the model starts
    MaxHeight,      \* bound: the last block
    MaxCrashes,     \* bound: crashes of the indexer
    MaxFaults       \* bound: failing database calls

ASSUME NetworkAssumption ==
    /\ MinHeight \in Nat \ {0} /\ MaxHeight \in Nat /\ MinHeight <= MaxHeight
    /\ Roster \in [MinHeight..MaxHeight -> SUBSET Nodes]
    /\ Servers # {}
    /\ {MaxCrashes, MaxFaults} \subseteq Nat

Block  == MinHeight..MaxHeight
NoBlock == 0     \* block_id before the first answer; no row of node_wallets

VARIABLES
    head,           \* the block each server is at
    pc,             \* where the loop is: "top", "nodes", "insert" or "wallets"
    server,         \* the client of this turn
    bch_info_got,   \* the flag of the loop
    info,           \* table blockchain_info has a row
    next_block_id,  \* the server's answer
    nodes,          \* the server's answer, then the nodes not yet written
    block_id,       \* the newest block seen by the loop
    node_states,    \* table node_states: the ids of its rows
    node_wallets,   \* table node_wallets: "block-id" of each node's row
    crashes, faults

loop   == <<pc, server, bch_info_got, next_block_id, nodes, block_id>>
tables == <<info, node_states, node_wallets>>
vars   == <<head, loop, tables, crashes, faults>>

Init == /\ head = [s \in Servers |-> MinHeight]
        /\ pc = "top"
        /\ server \in Servers
        /\ bch_info_got = FALSE
        /\ info = FALSE
        /\ next_block_id = NoBlock
        /\ nodes = {}
        /\ block_id = NoBlock
        /\ node_states = {}
        /\ node_wallets = [n \in Nodes |-> NoBlock]
        /\ crashes = 0
        /\ faults = 0

(* A database call fails; Table::insert and Table::update log it and return. *)
Fault == faults < MaxFaults /\ faults' = faults + 1

(* A server accepts a block. *)
NewBlock(s) ==
    /\ head[s] < MaxHeight
    /\ head' = [head EXCEPT ![s] = @ + 1]
    /\ UNCHANGED <<loop, tables, crashes, faults>>

(* get_rpc, get_blockchain_info until it has answered once (update_info      *)
(* stores it), and get_current_block_id.  Either request may go unanswered:  *)
(* then the loop starts over, though the info stays.                         *)
AskHead(s) ==
    /\ pc = "top"
    /\ server' = s
    /\ \/ UNCHANGED <<bch_info_got, info, faults>>
       \/ ~bch_info_got /\ bch_info_got' = TRUE /\ info' = TRUE /\ UNCHANGED faults
       \/ ~bch_info_got /\ bch_info_got' = TRUE /\ UNCHANGED info /\ Fault
    /\ \/ pc' = "nodes" /\ next_block_id' = head[s]
       \/ UNCHANGED <<pc, next_block_id>>
    /\ UNCHANGED <<head, nodes, block_id, node_states, node_wallets, crashes>>

(* Slip: servers are taken to agree. *)
NeverStale == FALSE

(* The server is behind one that was asked before, or has nothing new. *)
Stale == next_block_id <= block_id

(* Slip: block_id moves although the nodes did not answer. *)
SkipTurnMovesOn ==
    /\ pc = "nodes"
    /\ pc' = "top"
    /\ block_id' = next_block_id
    /\ UNCHANGED <<head, server, bch_info_got, next_block_id, nodes, tables, crashes, faults>>

(* get_nodes: no answer, or a block that is not newer: the loop starts over. *)
SkipTurn ==
    /\ pc = "nodes"
    /\ pc' = "top"
    /\ UNCHANGED <<head, server, bch_info_got, next_block_id, nodes, block_id, tables, crashes, faults>>

(* Slip: one block further than the server said. *)
TakeNodesPastHead ==
    /\ pc = "nodes"
    /\ ~Stale
    /\ block_id' = next_block_id + 1
    /\ nodes' = Roster[head[server]]
    /\ pc' = IF nodes' = {} THEN "top" ELSE "insert"
    /\ UNCHANGED <<head, server, bch_info_got, next_block_id, tables, crashes, faults>>

(* A newer block: it is the newest seen, and its nodes, if any, are stored.   *)
(* The nodes are asked for after the block: the server may be further by now. *)
TakeNodes ==
    /\ pc = "nodes"
    /\ ~Stale
    /\ block_id' = next_block_id
    /\ nodes' = Roster[head[server]]
    /\ pc' = IF nodes' = {} THEN "top" ELSE "insert"
    /\ UNCHANGED <<head, server, bch_info_got, next_block_id, tables, crashes, faults>>

(* Slip: the row of node_states is left to the end, and forgotten. *)
InsertStateSkipped ==
    /\ pc = "insert"
    /\ pc' = "wallets"
    /\ UNCHANGED <<head, server, bch_info_got, next_block_id, nodes, block_id, tables, crashes, faults>>

(* add_node_states inserts the row of the block; a row that is there stays. *)
InsertState ==
    /\ pc = "insert"
    /\ pc' = "wallets"
    /\ \/ node_states' = node_states \cup {block_id} /\ UNCHANGED faults
       \/ UNCHANGED node_states /\ Fault
    /\ UNCHANGED <<head, server, bch_info_got, next_block_id, nodes, block_id,
                   info, node_wallets, crashes>>

(* It then updates the row of every node. *)
UpdateNode(n) ==
    /\ pc = "wallets"
    /\ n \in nodes
    /\ nodes' = nodes \ {n}
    /\ pc' = IF nodes' = {} THEN "top" ELSE "wallets"
    /\ \/ node_wallets' = [node_wallets EXCEPT ![n] = block_id] /\ UNCHANGED faults
       \/ UNCHANGED node_wallets /\ Fault
    /\ UNCHANGED <<head, server, bch_info_got, next_block_id, block_id, info, node_states, crashes>>

(* The indexer stops and starts again: the loop's variables are new. *)
Crash ==
    /\ crashes < MaxCrashes
    /\ crashes' = crashes + 1
    /\ pc' = "top"
    /\ bch_info_got' = FALSE
    /\ next_block_id' = NoBlock
    /\ nodes' = {}
    /\ block_id' = NoBlock
    /\ UNCHANGED <<head, server, tables, faults>>

Next == \/ \E s \in Servers : NewBlock(s) \/ AskHead(s)
        \/ SkipTurn
        \/ TakeNodes
        \/ InsertState
        \/ \E n \in Nodes : UpdateNode(n)
        \/ Crash

Spec == Init /\ [][Next]_vars

(***************************************************************************)
(* Servers catch up.  The loop never ends and asks the servers in turn; a  *)
(* server that is asked again and again answers both requests some time.   *)
(***************************************************************************)
Answered(s) == AskHead(s) /\ pc' = "nodes"

Fairness == /\ \A s \in Servers : WF_vars(NewBlock(s)) /\ SF_vars(Answered(s))
            /\ WF_vars(SkipTurn /\ Stale)
            /\ SF_vars(TakeNodes)
            /\ WF_vars(InsertState)
            /\ \A n \in Nodes : WF_vars(UpdateNode(n))

FairSpec == Spec /\ Fairness

-------------------------------------------------------------------------------
(* What get_network_state and get_nodes answer: the row with the largest id.  *)
(* Ids are decimal strings (UInt256ToDecString), compared as strings.         *)

Dec[n \in Nat] == IF n < 10 THEN <<n>> ELSE Append(Dec[n \div 10], n % 10)

Before(s, t) == \E i \in 1..Len(t) : /\ \A j \in 1..(i - 1) : j <= Len(s) /\ s[j] = t[j]
                                     /\ i > Len(s) \/ s[i] < t[i]

GetNetworkState == CHOOSE b \in node_states : \A c \in node_states : ~Before(Dec[b], Dec[c])

-------------------------------------------------------------------------------
(* The loop's variables and the tables have their types. *)
TypeOK ==
    /\ head \in [Servers -> Block]
    /\ pc \in {"top", "nodes", "insert", "wallets"}
    /\ server \in Servers
    /\ bch_info_got \in BOOLEAN /\ info \in BOOLEAN
    /\ next_block_id \in Block \cup {NoBlock}
    /\ nodes \subseteq Nodes
    /\ block_id \in Block \cup {NoBlock}
    /\ node_states \subseteq Block
    /\ node_wallets \in [Nodes -> Block \cup {NoBlock}]
    /\ crashes \in 0..MaxCrashes
    /\ faults \in 0..MaxFaults

(* As long as no write has failed, get-wallet-node never names a block of     *)
(* which get-network-state has no row, wherever the process stops between the *)
(* queries of add_node_states.                                                *)
WalletsHaveStates ==
    faults = 0 => \A n \in Nodes : node_wallets[n] # NoBlock => node_wallets[n] \in node_states

(* Until the first restart the block a node was last seen at never goes back, *)
(* although the servers asked in turn lag behind each other.                  *)
NodesNeverGoBack == [][crashes = 0 => \A n \in Nodes : node_wallets'[n] >= node_wallets[n]]_vars

(* When the chain rests every node of the last roster is seen at the last     *)
(* block, even if the process stopped half way through add_node_states,       *)
(* unless a write has failed.                                                 *)
EventuallySeen == <>[](faults = 0 => \A n \in Roster[MaxHeight] : node_wallets[n] = MaxHeight)

(* get_network_state answers with the newest state that is indexed.           *)
CurrentIsNewest == node_states # {} => \A c \in node_states : c <= GetNetworkState
===============================================================================
