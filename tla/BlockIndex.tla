------------------------------ MODULE BlockIndex ------------------------------
(***************************************************************************)
(* The path of a block from the node to the table `blocks`.                *)
(*                                                                         *)
(*   main loop (Fetcher::run)  -> fetch jobs (Fetcher::fetch_blocks)       *)
(*     -> rpc tasks (get_block, retried until answered)                    *)
(*     -> add tasks (Db::add_block: row into blocks_processing)            *)
(*     -> processing thread (Db::blocks_processing: row moves to `blocks`) *)
(*                                                                         *)
(* The tables survive a crash of the indexer, the queues, the jobs and the *)
(* cursor `first` do not.  A block is abstracted to its id.  The task      *)
(* queues are pools of many threads, so their tasks finish in any order:   *)
(* a queue is a bag.  The processing thread is a queue of one thread.      *)
(***************************************************************************)
EXTENDS Naturals, FiniteSets

CONSTANTS
    MaxHeight,      \* bound: the chain grows up to this block id
    Indexed0,       \* the ids in `blocks` when the model starts
    Malformed,      \* ids of blocks the node returns without "transactions"
    Jobs,           \* bound: slots for fetch jobs queued or running at once
    MaxPending,     \* bound: tasks pending for one block in one queue
    MaxCrashes,     \* bound: crashes of the indexer
    Faults,         \* the database calls that may fail (see FaultKinds)
    MaxFaults       \* bound: failing database calls

(***************************************************************************)
(* The database calls whose failure the code swallows: the reads of the    *)
(* last block id (get_number returns 0), of the pending rows (get_data     *)
(* returns []), and the writes.                                            *)
(***************************************************************************)
FaultKinds == {"prev_bid", "last_block_id", "items", "add_block", "insert", "remove"}

Block == 0..MaxHeight

ASSUME BoundAssumption ==
    /\ MaxHeight \in Nat
    /\ MaxPending \in Nat
    /\ MaxCrashes \in Nat
    /\ MaxFaults \in Nat
    /\ Malformed \subseteq Block
    /\ Faults \subseteq FaultKinds

ASSUME Indexed0Assumption == Indexed0 \subseteq Block

VARIABLES
    height,             \* id of the newest block any node has
    blocks,             \* table blocks: ids
    blocks_processing,  \* table blocks_processing: ids
    phase,              \* "down", "init" (Db::init done), "run" (Fetcher runs)
    first,              \* the main loop's cursor
    job,                \* the fetch jobs: state, upper id, next id to request
    active,             \* block_fetcher_task_->is_active_
    rpc,                \* rpc tasks pending per block
    adding,             \* add_block tasks pending per block
    pc,                 \* step of the processing thread
    items,              \* rows read in this pass and not looked at yet
    cur,                \* the row being moved
    crashes, faults     \* how many happened

chain   == <<height>>
tables  == <<blocks, blocks_processing>>
fetcher == <<first, job, active>>
queues  == <<rpc, adding>>
thread  == <<pc, items, cur>>
budget  == <<crashes, faults>>
vars    == <<chain, tables, phase, fetcher, queues, thread, budget>>

FreeJob == [st |-> "free", to |-> 0, next |-> 0]

JobState == [st : {"free", "queued", "running"}, to : Block, next : 0..(MaxHeight + 1)]

(* A database call of kind f fails. *)
Fault(f) == /\ f \in Faults
            /\ faults < MaxFaults
            /\ faults' = faults + 1

(* m is the answer of max("block-id") on `blocks`: 0 when the table is empty. *)
LastBlockId(m) == \/ blocks = {} /\ m = 0
                  \/ m \in blocks /\ \A b \in blocks : b <= m

-------------------------------------------------------------------------------
Init == /\ height \in {h \in Block : Indexed0 \subseteq 0..h}
        /\ blocks = Indexed0
        /\ blocks_processing = {}
        /\ phase = "down"
        /\ first = 0
        /\ job = [j \in Jobs |-> FreeJob]
        /\ active = FALSE
        /\ rpc = [b \in Block |-> 0]
        /\ adding = [b \in Block |-> 0]
        /\ pc = "idle"
        /\ items = {}
        /\ cur = 0
        /\ crashes = 0
        /\ faults = 0

-------------------------------------------------------------------------------
(* The environment. *)

(* A node accepts the next block of the chain. *)
NewBlock == /\ height < MaxHeight
            /\ height' = height + 1
            /\ UNCHANGED <<tables, phase, fetcher, queues, thread, budget>>

(* The process stops at any point; only the tables are left. *)
Crash == /\ phase # "down"
         /\ crashes < MaxCrashes
         /\ crashes' = crashes + 1
         /\ phase' = "down"
         /\ first' = 0
         /\ job' = [j \in Jobs |-> FreeJob]
         /\ active' = FALSE
         /\ rpc' = [b \in Block |-> 0]
         /\ adding' = [b \in Block |-> 0]
         /\ pc' = "idle"
         /\ items' = {}
         /\ cur' = 0
         /\ UNCHANGED <<chain, tables, faults>>

(* main: Db::init starts the processing thread before the Fetcher exists. *)
Start == /\ phase = "down"
         /\ phase' = "init"
         /\ UNCHANGED <<chain, tables, fetcher, queues, thread, budget>>

-------------------------------------------------------------------------------
(* The Fetcher. *)

(* Slip: the cursor starts at the newest row of either table. *)
RunFromNewestRow == /\ phase = "init"
                    /\ phase' = "run"
                    /\ first' \in blocks \cup blocks_processing
                    /\ \A b \in blocks \cup blocks_processing : b <= first'
                    /\ UNCHANGED <<chain, tables, job, active, queues, thread, budget>>

(* fetcher->run(db->get_last_block_id()); a failing read counts as 0. *)
Run == /\ phase = "init"
       /\ phase' = "run"
       /\ \/ LastBlockId(first') /\ faults' = faults
          \/ Fault("last_block_id") /\ first' = 0
       /\ UNCHANGED <<chain, tables, job, active, queues, thread, crashes>>

(***************************************************************************)
(* One round of the main loop that queues a fetch job.  The node asked is  *)
(* any of the configured ones and may lag: last is any id up to height.    *)
(* is_active_ is set only when a queued job starts, so a second round may  *)
(* queue a second job.                                                     *)
(***************************************************************************)
Poll(j, last) == /\ phase = "run"
                 /\ ~active
                 /\ first < last
                 /\ job[j] = FreeJob
                 /\ job' = [job EXCEPT ![j] = [st |-> "queued", to |-> last, next |-> 0]]
                 /\ UNCHANGED <<chain, tables, phase, first, active, queues, thread, budget>>

(* Slip: first = last before fetch_blocks instead of after it. *)
StartJobCursorFirst(j) == /\ phase = "run"
                          /\ job[j].st = "queued"
                          /\ active' = TRUE
                          /\ first' = job[j].to
                          /\ job' = [job EXCEPT ![j].st = "running", ![j].next = first]
                          /\ UNCHANGED <<chain, tables, phase, queues, thread, budget>>

(* Slip: the range starts after the cursor, not at it. *)
StartJobAfterFirst(j) == /\ phase = "run"
                         /\ job[j].st = "queued"
                         /\ active' = TRUE
                         /\ job' = [job EXCEPT ![j].st = "running", ![j].next = first + 1]
                         /\ UNCHANGED <<chain, tables, phase, first, queues, thread, budget>>

(* The job starts: `first` is captured by reference and read only now. *)
StartJob(j) == /\ phase = "run"
               /\ job[j].st = "queued"
               /\ active' = TRUE
               /\ job' = [job EXCEPT ![j].st = "running", ![j].next = first]
               /\ UNCHANGED <<chain, tables, phase, first, queues, thread, budget>>

(* One iteration of the loop of fetch_blocks: an rpc task for block `next`. *)
RequestBlock(j) == /\ phase = "run"
                   /\ job[j].st = "running"
                   /\ job[j].next <= job[j].to
                   /\ rpc[job[j].next] < MaxPending
                   /\ rpc' = [rpc EXCEPT ![job[j].next] = @ + 1]
                   /\ job' = [job EXCEPT ![j].next = @ + 1]
                   /\ UNCHANGED <<chain, tables, phase, first, active, adding, thread, budget>>

(* Slip: first = last + 1. *)
FinishJobPastLast(j) == /\ phase = "run"
                        /\ job[j].st = "running"
                        /\ job[j].next > job[j].to
                        /\ first' = job[j].to + 1
                        /\ active' = FALSE
                        /\ job' = [job EXCEPT ![j] = FreeJob]
                        /\ UNCHANGED <<chain, tables, phase, queues, thread, budget>>

(* Slip: is_active_ is not reset. *)
FinishJobStaysActive(j) == /\ phase = "run"
                           /\ job[j].st = "running"
                           /\ job[j].next > job[j].to
                           /\ first' = job[j].to
                           /\ job' = [job EXCEPT ![j] = FreeJob]
                           /\ UNCHANGED <<chain, tables, phase, active, queues, thread, budget>>

(* fetch_blocks returns: first = last, whatever another job has made of it. *)
FinishJob(j) == /\ phase = "run"
                /\ job[j].st = "running"
                /\ job[j].next > job[j].to
                /\ first' = job[j].to
                /\ active' = FALSE
                /\ job' = [job EXCEPT ![j] = FreeJob]
                /\ UNCHANGED <<chain, tables, phase, queues, thread, budget>>

(* An rpc task gets its block, after any number of retries. *)
GetBlock(b) == /\ phase = "run"
               /\ rpc[b] > 0
               /\ b <= height
               /\ adding[b] < MaxPending
               /\ rpc' = [rpc EXCEPT ![b] = @ - 1]
               /\ adding' = [adding EXCEPT ![b] = @ + 1]
               /\ UNCHANGED <<chain, tables, phase, fetcher, thread, budget>>

(***************************************************************************)
(* Db::add_block: a row is inserted unless one with this id is there.  The *)
(* insert itself leaves an existing row alone, so the read before it only  *)
(* saves work and the two are one step.  An error drops the block.         *)
(***************************************************************************)
AddBlock(b) == /\ phase = "run"
               /\ adding[b] > 0
               /\ adding' = [adding EXCEPT ![b] = @ - 1]
               /\ \/ /\ blocks_processing' = blocks_processing \cup {b}
                     /\ faults' = faults
                  \/ /\ Fault("add_block")
                     /\ blocks_processing' = blocks_processing
               /\ UNCHANGED <<chain, blocks, phase, fetcher, rpc, thread, crashes>>

-------------------------------------------------------------------------------
(* The processing thread, Db::blocks_processing. *)

(* A pass starts: the pending rows, or [] when the read fails. *)
ReadItems == /\ phase # "down"
             /\ pc = "idle"
             /\ pc' = "scan"
             /\ \/ items' = blocks_processing /\ faults' = faults
                \/ Fault("items") /\ items' = {}
             /\ UNCHANGED <<chain, tables, phase, fetcher, queues, cur, crashes>>

(* The rows are exhausted; the thread sleeps until the next pass. *)
EndScan == /\ phase # "down"
           /\ pc = "scan"
           /\ items = {}
           /\ pc' = "idle"
           /\ UNCHANGED <<chain, tables, phase, fetcher, queues, items, cur, budget>>

(* The rows are sorted by block-id: b is the next one. *)
NextItem(b) == /\ phase # "down"
               /\ pc = "scan"
               /\ b \in items
               /\ \A i \in items : b <= i

(* get_prev_bid answers p; a failing read answers 0. *)
ReadPrevBid(p) == \/ LastBlockId(p) /\ faults' = faults
                  \/ Fault("prev_bid") /\ p = 0

(* Slips: no forward check; off by one. *)
NoForwardGap(bid, prev_bid) == FALSE
WideForwardGap(bid, prev_bid) == prev_bid > 0 /\ bid > prev_bid + 2

(* (prev_bid > 0) && ((bid-prev_bid) > 1) && (bid > prev_bid) *)
ForwardGap(bid, prev_bid) == /\ prev_bid > 0
                             /\ bid > prev_bid
                             /\ bid - prev_bid > 1

(* The next row is ahead of the index: the pass is over. *)
GapBreak == /\ \E b \in items, p \in Block :
                    NextItem(b) /\ ReadPrevBid(p) /\ ForwardGap(b, p)
            /\ pc' = "idle"
            /\ items' = {}
            /\ UNCHANGED <<chain, tables, phase, fetcher, queues, cur, crashes>>

(* The row's transactions are handed to the transaction index. *)
BlockChanges(b) == /\ \E p \in Block : ReadPrevBid(p) /\ ~ForwardGap(b, p)
                   /\ NextItem(b)
                   /\ b \notin Malformed
                   /\ pc' = "insert"
                   /\ items' = items \ {b}
                   /\ cur' = b
                   /\ UNCHANGED <<chain, tables, phase, fetcher, queues, crashes>>

(* block.at("transactions") throws; catch (...) ends the pass. *)
BadBlock(b) == /\ \E p \in Block : ReadPrevBid(p) /\ ~ForwardGap(b, p)
               /\ NextItem(b)
               /\ b \in Malformed
               /\ pc' = "idle"
               /\ items' = {}
               /\ UNCHANGED <<chain, tables, phase, fetcher, queues, cur, crashes>>

(***************************************************************************)
(* The row is inserted into `blocks` unless it is there.  Only this thread *)
(* writes the table, so the existence read cannot be stale; an error is    *)
(* swallowed and the thread goes on.                                       *)
(***************************************************************************)
Insert == /\ phase # "down"
          /\ pc = "insert"
          /\ pc' = "remove"
          /\ \/ blocks' = blocks \cup {cur} /\ faults' = faults
             \/ Fault("insert") /\ blocks' = blocks
          /\ UNCHANGED <<chain, blocks_processing, phase, fetcher, queues, items, cur, crashes>>

(* The row leaves blocks_processing. *)
Remove == /\ phase # "down"
          /\ pc = "remove"
          /\ pc' = "scan"
          /\ \/ blocks_processing' = blocks_processing \ {cur} /\ faults' = faults
             \/ Fault("remove") /\ blocks_processing' = blocks_processing
          /\ UNCHANGED <<chain, blocks, phase, fetcher, queues, items, cur, crashes>>

-------------------------------------------------------------------------------
Next == \/ NewBlock
        \/ Crash
        \/ Start
        \/ Run
        \/ \E j \in Jobs, last \in Block : last <= height /\ Poll(j, last)
        \/ \E j \in Jobs : StartJob(j) \/ RequestBlock(j) \/ FinishJob(j)
        \/ \E b \in Block : GetBlock(b) \/ AddBlock(b)
        \/ ReadItems
        \/ EndScan
        \/ GapBreak
        \/ \E b \in items : BlockChanges(b) \/ BadBlock(b)
        \/ Insert
        \/ Remove

Spec == Init /\ [][Next]_vars

(***************************************************************************)
(* Every thread that can move moves; a stopped indexer is started again    *)
(* (docker-compose: restart: on-failure); infinitely often the main loop   *)
(* asks a node that is up to date (the nodes are asked in turn).           *)
(***************************************************************************)
Fairness == /\ WF_vars(Start)
            /\ WF_vars(Run)
            /\ WF_vars(\E j \in Jobs : Poll(j, height))
            /\ \A j \in Jobs : /\ WF_vars(StartJob(j))
                               /\ WF_vars(RequestBlock(j))
                               /\ WF_vars(FinishJob(j))
            /\ \A b \in Block : WF_vars(GetBlock(b)) /\ WF_vars(AddBlock(b))
            /\ WF_vars(ReadItems)
            /\ WF_vars(EndScan)
            /\ WF_vars(GapBreak)
            /\ WF_vars(\E b \in items : BlockChanges(b) \/ BadBlock(b))
            /\ WF_vars(Insert)
            /\ WF_vars(Remove)

FairSpec == Spec /\ Fairness

-------------------------------------------------------------------------------
(* The state of the fetcher, its queues and the tables has its type. *)
TypeOK == /\ height \in Block
          /\ blocks \subseteq Block
          /\ blocks_processing \subseteq Block
          /\ phase \in {"down", "init", "run"}
          /\ first \in Block
          /\ job \in [Jobs -> JobState]
          /\ active \in BOOLEAN
          /\ rpc \in [Block -> 0..MaxPending]
          /\ adding \in [Block -> 0..MaxPending]
          /\ pc \in {"idle", "scan", "insert", "remove"}
          /\ items \subseteq Block
          /\ cur \in Block
          /\ crashes \in 0..MaxCrashes
          /\ faults \in 0..MaxFaults

(***************************************************************************)
(* `blocks` has no holes: the forward check of blocks_processing keeps the *)
(* index contiguous once a block other than block 0 is indexed, whatever   *)
(* order the blocks arrive in, wherever the process stops and whichever    *)
(* write fails.                                                            *)
(***************************************************************************)
Contiguous == \E k \in Block : blocks = 0..k

(* Block b is indexed or on its way in a queue or a table. *)
Accounted(b) == \/ b \in blocks
                \/ b \in blocks_processing
                \/ rpc[b] > 0
                \/ adding[b] > 0

(***************************************************************************)
(* The fetcher never skips a block: every id below its cursor, which it    *)
(* will not ask for again, is indexed or on its way, although jobs overlap *)
(* and may set the cursor back (fetcher.cpp: first = last).                *)
(***************************************************************************)
NoBlockLost == phase = "run" => \A b \in Block : b < first => Accounted(b)

(* The table `blocks` only ever grows by the next block of the chain. *)
Log == INSTANCE BlockLog WITH indexed <- blocks
LogSpec == Log!Spec

(***************************************************************************)
(* Every block of a chain of two blocks or more is eventually indexed (a   *)
(* chain of block 0 alone is not: the main loop asks for first < last),    *)
(* as long as no block below it lacks its "transactions": the exception    *)
(* of block_changes ends every pass at such a row, forever.                *)
(***************************************************************************)
EventuallyIndexed == \A b \in Block :
    (height > 0 /\ b <= height /\ \A m \in Malformed : b < m) ~> (b \in blocks)

(***************************************************************************)
(* Readme, get-block-history-state: the ids from "first" = 0 up to "count" *)
(* are the history.  Count is the largest indexed id + 1, so every smaller *)
(* id is eventually indexed.                                               *)
(***************************************************************************)
HistoryComplete == \A b \in Block : (\E m \in blocks : b <= m) ~> (b \in blocks)

(***************************************************************************)
(* A restart brings back what a crash dropped from the queues and what a   *)
(* swallowed write error lost: all that the chain had when the process was *)
(* down is indexed, unless another call fails after that, because the new  *)
(* cursor starts at the last indexed block.                                *)
(***************************************************************************)
RestartRepairs == \A b \in Block \ Indexed0, f \in 0..MaxFaults :
    (phase = "down" /\ faults = f /\ height > 0 /\ b <= height) ~> (b \in blocks \/ faults > f)
===============================================================================
