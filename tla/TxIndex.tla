------------------------------- MODULE TxIndex -------------------------------
(***************************************************************************)
(* The path of a block's transactions to the table `transactions`.         *)
(*                                                                         *)
(*   Db::block_changes / add_transactions -> a task of transactions_queue_ *)
(*     -> rows of transactions_processing                                  *)
(*     -> processing thread (Db::transactions_processing): each row gets   *)
(*        the next serial, is inserted into `transactions`, the count in   *)
(*        transactions_state is updated and the row is removed.            *)
(*                                                                         *)
(* A row stands for one (address, block, transaction) key; the row of a    *)
(* block whose "transactions" is not an array is its "__processing__"      *)
(* marker.  The tables survive a crash, the queue and the thread do not,   *)
(* and every start runs the migration first.                               *)
(***************************************************************************)
EXTENDS Integers, Sequences, FiniteSets

CONSTANTS
    Rows,           \* all rows of the chain, markers included
    BlockOf,        \* the block-id of each row
    Markers,        \* the rows of type "__processing__"
    Malformed,      \* rows without a "transaction-type"
    Word,           \* 2^64: differences of block ids are taken modulo Word
    MaxCalls,       \* bound: calls of block_changes for one block
    MaxCrashes,     \* bound: crashes of the indexer
    Faults,         \* the database calls that may fail (see FaultKinds)
    MaxFaults       \* bound: failing database calls

(***************************************************************************)
(* Database calls whose failure the code swallows: reads of the pending    *)
(* rows, of the stored count and of a row of `transactions`; the inserts   *)
(* into the two tables, the update of the state and the removal of a row.  *)
(***************************************************************************)
FaultKinds == {"items", "count", "row", "stream", "insert", "state", "remove"}

ASSUME RowAssumption ==
    /\ BlockOf \in [Rows -> Nat]
    /\ Markers \subseteq Rows
    /\ Malformed \subseteq Rows \ Markers

ASSUME BoundAssumption ==
    /\ Word \in Nat
    /\ \A r \in Rows : BlockOf[r] + 1 < Word
    /\ MaxCalls \in Nat
    /\ MaxCrashes \in Nat
    /\ MaxFaults \in Nat
    /\ Faults \subseteq FaultKinds

VARIABLES
    up,                         \* the threads of the indexer are running
    called,                     \* calls of block_changes per block so far
    streaming,                  \* inserts pending in transactions_queue_, per row
    transactions_processing,    \* table: rows waiting for a serial
    transactions,               \* table: rows of the stream
    serial,                     \* field "serial" of the rows of the stream
    state,                      \* table transactions_state: count and block-id
    pc,                         \* step of the processing thread
    prev_bid, last_count,       \* its variables
    items,                      \* rows read in this pass and not looked at yet
    cur,                        \* the row that is getting its serial
    crashes,                    \* how many happened
    faults                      \* the kinds of the calls that failed, in order

stream == <<transactions, serial>>
thread == <<pc, prev_bid, last_count, items, cur>>
vars == <<up, called, streaming, transactions_processing, stream, state, thread,
          crashes, faults>>

Blocks == {BlockOf[r] : r \in Rows}

(* A database call of kind f fails. *)
Fault(f) == /\ f \in Faults
            /\ Len(faults) < MaxFaults
            /\ faults' = Append(faults, f)

-------------------------------------------------------------------------------
Init == /\ up = TRUE
        /\ called = [b \in Blocks |-> 0]
        /\ streaming = [r \in Rows |-> 0]
        /\ transactions_processing = {}
        /\ transactions = {}
        /\ serial = [r \in Rows |-> 0]
        /\ state = [count |-> 0, block |-> 0]
        /\ pc = "idle"
        /\ prev_bid = 0
        /\ last_count = 0
        /\ items = {}
        /\ cur \in Rows
        /\ crashes = 0
        /\ faults = <<>>

-------------------------------------------------------------------------------
(* Filling transactions_processing. *)

(***************************************************************************)
(* Db::block_changes for block b, called by the block index, again when    *)
(* the block is fetched again.  An array of transactions goes to a task of *)
(* transactions_queue_; a marker row is inserted at once.  An insert       *)
(* leaves a row that is there alone; the check before it in                *)
(* add_stream_transaction looks for the id of the block, not of the row,   *)
(* and never finds one.                                                    *)
(***************************************************************************)
BlockChanges(b) ==
    /\ up
    /\ called[b] < MaxCalls
    /\ called' = [called EXCEPT ![b] = @ + 1]
    /\ streaming' = [r \in Rows |-> IF BlockOf[r] = b /\ r \notin Markers
                                    THEN streaming[r] + 1 ELSE streaming[r]]
    /\ \/ /\ transactions_processing' =
                 transactions_processing \cup {r \in Markers : BlockOf[r] = b}
          /\ faults' = faults
       \/ /\ Fault("stream")
          /\ transactions_processing' = transactions_processing
    /\ UNCHANGED <<up, stream, state, thread, crashes>>

(* Slip: a task runs twice. *)
InsertRowAgain(r) ==
    /\ up
    /\ streaming' = [streaming EXCEPT ![r] = @ - 1]
    /\ transactions_processing' = transactions_processing \cup {r}
    /\ UNCHANGED <<up, called, stream, state, thread, crashes, faults>>

(* The task inserts its rows; a batch is not atomic for the reader. *)
InsertRow(r) ==
    /\ up
    /\ streaming[r] > 0
    /\ streaming' = [streaming EXCEPT ![r] = @ - 1]
    /\ \/ transactions_processing' = transactions_processing \cup {r} /\ faults' = faults
       \/ Fault("stream") /\ transactions_processing' = transactions_processing
    /\ UNCHANGED <<up, called, stream, state, thread, crashes>>

-------------------------------------------------------------------------------
(* The processing thread, Db::transactions_processing. *)

(***************************************************************************)
(* A pass starts with the waiting rows and the stored count.  A count that *)
(* cannot be read is taken for a missing state, and the state is reset,    *)
(* unless the update that should do it fails as well.                      *)
(***************************************************************************)
ReadPass ==
    /\ up
    /\ pc = "idle"
    /\ pc' = "scan"
    /\ \/ /\ items' = transactions_processing
          /\ last_count' = state.count
          /\ UNCHANGED <<state, faults>>
       \/ /\ Fault("items")
          /\ items' = {}
          /\ last_count' = state.count
          /\ state' = state
       \/ /\ Fault("count")
          /\ items' = transactions_processing
          /\ last_count' = 0
          /\ state' \in {state, [count |-> 0, block |-> 0]}
    /\ UNCHANGED <<up, called, streaming, transactions_processing, stream, prev_bid, cur, crashes>>

(* The rows are exhausted; the thread sleeps until the next pass. *)
EndPass ==
    /\ up
    /\ pc = "scan"
    /\ items = {}
    /\ pc' = "idle"
    /\ UNCHANGED <<up, called, streaming, transactions_processing, stream, state,
                   prev_bid, last_count, items, cur, crashes, faults>>

(* The rows are sorted by block-id; rows of one block come in any order. *)
NextItem(r) == /\ up
               /\ pc = "scan"
               /\ r \in items
               /\ \A i \in items : BlockOf[r] <= BlockOf[i]

(***************************************************************************)
(* (bid - prev_bid) > 1 on unsigned numbers: every row is ahead but those  *)
(* of prev_bid and of the block after it, the rows of older blocks too.    *)
(***************************************************************************)
Ahead(r) == prev_bid > 0 /\ ((BlockOf[r] + Word) - prev_bid) % Word > 1

(* The row is removed from transactions_processing. *)
DropRow(r) == \/ transactions_processing' = transactions_processing \ {r} /\ faults' = faults
              \/ Fault("remove") /\ transactions_processing' = transactions_processing

(* item.at("transaction-type") throws; catch (...) ends the pass. *)
BadRow(r) ==
    /\ NextItem(r)
    /\ r \in Malformed
    /\ pc' = "idle"
    /\ items' = {}
    /\ UNCHANGED <<up, called, streaming, transactions_processing, stream, state,
                   prev_bid, last_count, cur, crashes, faults>>

(* A marker is skipped, with or without a previous block. *)
SkipMarker(r) ==
    /\ NextItem(r)
    /\ r \in Markers
    /\ prev_bid' = BlockOf[r]
    /\ items' = items \ {r}
    /\ DropRow(r)
    /\ UNCHANGED <<up, called, streaming, stream, state, pc, last_count, cur, crashes>>

(* Slip: the row that ends the pass is removed. *)
BreakAheadDrops(r) ==
    /\ NextItem(r)
    /\ r \notin Markers \cup Malformed
    /\ Ahead(r)
    /\ prev_bid' = BlockOf[r]
    /\ pc' = "idle"
    /\ items' = {}
    /\ DropRow(r)
    /\ UNCHANGED <<up, called, streaming, stream, state, last_count, cur, crashes>>

(* Slip: prev_bid stays behind. *)
BreakAheadStays(r) ==
    /\ NextItem(r)
    /\ r \notin Markers \cup Malformed
    /\ Ahead(r)
    /\ pc' = "idle"
    /\ items' = {}
    /\ UNCHANGED <<up, called, streaming, transactions_processing, stream, state,
                   prev_bid, last_count, cur, crashes, faults>>

(* The pass ends at a row that is ahead, the next one will start there. *)
BreakAhead(r) ==
    /\ NextItem(r)
    /\ r \notin Markers \cup Malformed
    /\ Ahead(r)
    /\ prev_bid' = BlockOf[r]
    /\ pc' = "idle"
    /\ items' = {}
    /\ UNCHANGED <<up, called, streaming, transactions_processing, stream, state,
                   last_count, cur, crashes, faults>>

(* The row is in the stream already. *)
AlreadyThere(r) ==
    /\ NextItem(r)
    /\ r \notin Markers \cup Malformed
    /\ ~Ahead(r)
    /\ r \in transactions
    /\ prev_bid' = BlockOf[r]
    /\ items' = items \ {r}
    /\ DropRow(r)
    /\ UNCHANGED <<up, called, streaming, stream, state, pc, last_count, cur, crashes>>

(* Slip: the stream is not looked up. *)
TakeSerialUnchecked(r) ==
    /\ NextItem(r)
    /\ r \notin Markers \cup Malformed
    /\ ~Ahead(r)
    /\ prev_bid' = BlockOf[r]
    /\ items' = items \ {r}
    /\ cur' = r
    /\ last_count' = last_count + 1
    /\ pc' = "insert"
    /\ UNCHANGED <<up, called, streaming, transactions_processing, stream, state,
                   crashes, faults>>

(* Slip: the count is stored before the row is inserted. *)
TakeSerialStored(r) ==
    /\ NextItem(r)
    /\ r \notin Markers \cup Malformed \cup transactions
    /\ ~Ahead(r)
    /\ prev_bid' = BlockOf[r]
    /\ items' = items \ {r}
    /\ cur' = r
    /\ last_count' = last_count + 1
    /\ state' = [count |-> last_count + 1, block |-> BlockOf[r]]
    /\ pc' = "insert"
    /\ UNCHANGED <<up, called, streaming, transactions_processing, stream, crashes, faults>>

(* item["serial"] = last_count++; a failing read finds no row. *)
TakeSerial(r) ==
    /\ NextItem(r)
    /\ r \notin Markers \cup Malformed
    /\ ~Ahead(r)
    /\ \/ r \notin transactions /\ faults' = faults
       \/ r \in transactions /\ Fault("row")
    /\ prev_bid' = BlockOf[r]
    /\ items' = items \ {r}
    /\ cur' = r
    /\ last_count' = last_count + 1
    /\ pc' = "insert"
    /\ UNCHANGED <<up, called, streaming, transactions_processing, stream, state, crashes>>

(* Slip: insert_with_replace instead of insert. *)
InsertTxReplaces ==
    /\ up
    /\ pc = "insert"
    /\ pc' = "state"
    /\ transactions' = transactions \cup {cur}
    /\ serial' = [serial EXCEPT ![cur] = last_count - 1]
    /\ UNCHANGED <<up, called, streaming, transactions_processing, state, prev_bid,
                   last_count, items, cur, crashes, faults>>

(* The row goes to `transactions`; an insert leaves an existing row alone. *)
InsertTx ==
    /\ up
    /\ pc = "insert"
    /\ pc' = "state"
    /\ \/ /\ cur \notin transactions
          /\ transactions' = transactions \cup {cur}
          /\ serial' = [serial EXCEPT ![cur] = last_count - 1]
          /\ faults' = faults
       \/ cur \in transactions /\ UNCHANGED <<stream, faults>>
       \/ Fault("insert") /\ UNCHANGED stream
    /\ UNCHANGED <<up, called, streaming, transactions_processing, state, prev_bid,
                   last_count, items, cur, crashes>>

(* Slip: the count before the increment is stored. *)
UpdateStateOffByOne ==
    /\ up
    /\ pc = "state"
    /\ pc' = "remove"
    /\ state' = [count |-> last_count - 1, block |-> BlockOf[cur]]
    /\ UNCHANGED <<up, called, streaming, transactions_processing, stream, prev_bid,
                   last_count, items, cur, crashes, faults>>

(* update_state(this, last_count, bid) *)
UpdateState ==
    /\ up
    /\ pc = "state"
    /\ pc' = "remove"
    /\ \/ state' = [count |-> last_count, block |-> BlockOf[cur]] /\ faults' = faults
       \/ Fault("state") /\ state' = state
    /\ UNCHANGED <<up, called, streaming, transactions_processing, stream, prev_bid,
                   last_count, items, cur, crashes>>

RemoveRow ==
    /\ up
    /\ pc = "remove"
    /\ pc' = "scan"
    /\ DropRow(cur)
    /\ UNCHANGED <<up, called, streaming, stream, state, prev_bid, last_count, items,
                   cur, crashes>>

-------------------------------------------------------------------------------
(* The process stops; the tables are left. *)
Crash ==
    /\ up
    /\ crashes < MaxCrashes
    /\ crashes' = crashes + 1
    /\ up' = FALSE
    /\ streaming' = [r \in Rows |-> 0]
    /\ pc' = "idle"
    /\ prev_bid' = 0
    /\ last_count' = 0
    /\ items' = {}
    /\ UNCHANGED <<called, transactions_processing, stream, state, cur, faults>>

(***************************************************************************)
(* Db::init: the migration flushes waiting rows when the oldest one, of    *)
(* block p, is older than the block of the state, s.  Cursor::between      *)
(* takes a start and a length, so the rows of the blocks p..p+s-1 go.      *)
(***************************************************************************)
Oldest(p) == \E r \in transactions_processing :
                 /\ BlockOf[r] = p
                 /\ \A i \in transactions_processing : p <= BlockOf[i]

Flushed(r) == \E p \in Blocks : /\ Oldest(p)
                                /\ state.block > p /\ p > 0
                                /\ p <= BlockOf[r] /\ BlockOf[r] < p + state.block

Migrate ==
    /\ ~up
    /\ up' = TRUE
    /\ transactions_processing' = {r \in transactions_processing : ~Flushed(r)}
    /\ UNCHANGED <<called, streaming, stream, state, thread, crashes, faults>>

-------------------------------------------------------------------------------
Next == \/ \E b \in Blocks : BlockChanges(b)
        \/ \E r \in Rows : InsertRow(r)
        \/ ReadPass
        \/ EndPass
        \/ \E r \in items : \/ BadRow(r)
                            \/ SkipMarker(r)
                            \/ BreakAhead(r)
                            \/ AlreadyThere(r)
                            \/ TakeSerial(r)
        \/ InsertTx
        \/ UpdateState
        \/ RemoveRow
        \/ Crash
        \/ Migrate

Spec == Init /\ [][Next]_vars

(* The tasks and the thread go on; block_changes need not be called. *)
Fairness == /\ \A r \in Rows : WF_vars(InsertRow(r))
            /\ WF_vars(ReadPass)
            /\ WF_vars(EndPass)
            /\ WF_vars(\E r \in items : \/ BadRow(r)
                                        \/ SkipMarker(r)
                                        \/ BreakAhead(r)
                                        \/ AlreadyThere(r)
                                        \/ TakeSerial(r))
            /\ WF_vars(InsertTx)
            /\ WF_vars(UpdateState)
            /\ WF_vars(RemoveRow)
            /\ WF_vars(Migrate)

FairSpec == Spec /\ Fairness

-------------------------------------------------------------------------------
(* The queue, the tables and the thread's variables have their types. *)
TypeOK == /\ up \in BOOLEAN
          /\ called \in [Blocks -> Nat]
          /\ streaming \in [Rows -> Nat]
          /\ transactions_processing \subseteq Rows
          /\ transactions \subseteq Rows
          /\ serial \in [Rows -> Nat]
          /\ state \in [count : Nat, block : Nat]
          /\ pc \in {"idle", "scan", "insert", "state", "remove"}
          /\ prev_bid \in Nat
          /\ last_count \in Nat
          /\ items \subseteq Rows
          /\ cur \in Rows
          /\ crashes \in Nat
          /\ faults \in Seq(FaultKinds)

(* The number of serials given out: the stored count, or one more while    *)
(* the thread has inserted a row and not yet stored the new count.         *)
Issued == IF pc = "state" THEN last_count ELSE state.count

(***************************************************************************)
(* The serials of the stream are 0 .. Issued - 1, each used once, although *)
(* the count lives in another table than the rows, blocks come in any      *)
(* order and are streamed again.                                           *)
(***************************************************************************)
SerialsDense == /\ {serial[r] : r \in transactions} = 0..(Issued - 1)
                /\ \A q, r \in transactions : serial[q] = serial[r] => q = r

(* A call of kind k has failed. *)
Failed(k) == \E i \in 1..Len(faults) : faults[i] = k

(* The lookups and the inserts of rows of the stream have not failed; nor   *)
(* have, in addition, the reads and the updates of the stored count.        *)
ReliableInsert == ~Failed("row") /\ ~Failed("insert")
ReliableState  == ReliableInsert /\ ~Failed("count") /\ ~Failed("state")

(***************************************************************************)
(* No serial below the stored count is missing, even after crashes between *)
(* the insert of a row and the update of the state, and after failing      *)
(* calls of any other kind.                                                *)
(***************************************************************************)
SerialsCovered ==
    ReliableInsert => \A i \in 0..(state.count - 1) : \E r \in transactions : serial[r] = i

(***************************************************************************)
(* A crash between the insert and the update of the state lets the next    *)
(* row take the same serial: the stream outgrows the count by at most one  *)
(* row per crash, if no call that decides the serials failed.              *)
(***************************************************************************)
DriftBounded == ReliableState => Cardinality(transactions) <= Issued + crashes

(* The rows of every block handed over are in the stream or on their way. *)
NoTxLost == \A r \in Rows \ Markers : called[BlockOf[r]] > 0 =>
                r \in transactions \cup transactions_processing \/ streaming[r] > 0

(* A row of the stream stays and keeps its serial, whatever fails. *)
SerialsStable == [][\A r \in transactions : r \in transactions' /\ serial'[r] = serial[r]]_vars

(***************************************************************************)
(* The transaction index implements the numbered log, with the serials     *)
(* issued so far for its count.                                            *)
(***************************************************************************)
Log == INSTANCE TxLog WITH log <- transactions, count <- Issued
LogSpec == Log!Spec

(***************************************************************************)
(* Every row handed over is eventually in the stream, although a pass      *)
(* stops at each row that is ahead of the one before: the next pass starts *)
(* there.                                                                  *)
(***************************************************************************)
EventuallyStreamed == \A r \in Rows \ Markers : (called[BlockOf[r]] > 0) ~> (r \in transactions)
===============================================================================
