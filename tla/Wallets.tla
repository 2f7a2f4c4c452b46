-------------------------------- MODULE Wallets --------------------------------
(***************************************************************************)
(* The history and the state of wallets.  For every block with             *)
(* transactions a task of transactions_queue_ calls                        *)
(* Db::add_wallet_transaction for each of them; the utility thread does    *)
(* the same for the genesis transactions (Db::update_genesis).  It adds    *)
(* the block and the transaction to the row of every wallet involved       *)
(* (Table::update: a read, then an insert or two updates, each a query of  *)
(* its own) and asks for the wallet's state.  A state task                 *)
(* (Db::update_wallet_state) keeps its thread of state_queue, asking again *)
(* and again, until a node knows the wallet.                               *)
(*                                                                         *)
(* The stream task that Db::add_transactions queues too is in TxIndex; the *)
(* row of genesis_transactions that Db::update_genesis writes is left out, *)
(* as nothing the module is about reads it.  Table::update on               *)
(* wallets_state (a read, then an insert or an update) is one step: the    *)
(* module keeps which rows there are, and either branch leaves the row.    *)
(***************************************************************************)
EXTENDS Naturals, Sequences, SequencesExt

CONSTANTS
    Blocks,         \* the blocks with transactions, the genesis included
    Genesis,        \* the genesis, block 0
    Updates,        \* Updates[b]: the calls of Table::update for b's transactions, in order
    Known,          \* addresses with a row in `wallets` from earlier blocks, whose
                    \* entries are left out
    Unknown,        \* addresses no node knows
    Workers,        \* threads of transactions_queue_
    Utility,        \* the thread of utility_task_ that fetches the genesis
    StateThreads,   \* threads of state_queue
    NoAddr,         \* what an idle thread of state_queue works on
    MaxCalls,       \* bound: calls of add_transactions for one block
    MaxCrashes,     \* bound: crashes of the indexer
    MaxFaults       \* bound: failing database calls

(***************************************************************************)
(* For a transaction add_wallet_transaction updates, for each distinct     *)
(* address k in "from" and "public-key", the wallet k and then the wallet  *)
(* in "to", both with the entry of k.  UpdatesOf is that sequence; Updates *)
(* strings them together for the transactions of a block.                  *)
(***************************************************************************)
UpdatesOf(keys, to, t) ==
    LET forKey(k) == <<[addr |-> k, entry |-> <<k, t>>]>> \o
                     [i \in 1..Len(to) |-> [addr |-> to[i], entry |-> <<k, t>>]]
    IN  FlattenSeq([i \in 1..Len(keys) |-> forKey(keys[i])])

UpdateSet == UNION {Range(Updates[b]) : b \in Blocks}
Addr      == {u.addr : u \in UpdateSet}
Entry     == {u.entry : u \in UpdateSet}
Threads   == Workers \cup {Utility}

ASSUME WalletAssumption ==
    /\ Genesis \in Blocks
    /\ Utility \notin Workers
    /\ NoAddr \notin Addr
    /\ \A b \in Blocks : Updates[b] \in Seq(UpdateSet) /\ Len(Updates[b]) > 0
    /\ Known \cup Unknown \subseteq Addr
    /\ IsFiniteSet(Known)
    /\ {MaxCalls, MaxCrashes, MaxFaults} \subseteq Nat

VARIABLES
    calls,              \* how often add_transactions was called for each block
    queue,              \* transactions_queue_: blocks whose task waits
    thread,             \* what each thread runs: a block, a step, a place in Updates
    genesis_done,       \* fetch_genesis has been started in this life of the process
    wallets,            \* table wallets: the addresses that have a row
    wblocks,            \* field "blocks" of each row
    wtransactions,      \* field "transactions" of each row: <<block, entry>>
    state_queue,        \* addresses whose state task waits
    asking,             \* the address each thread of state_queue works on
    wallets_state,      \* table wallets_state: the addresses that have a row
    recorded,           \* blocks whose task has run to its end
    crashes, faults

tasks   == <<calls, queue, thread, genesis_done>>
history == <<wallets, wblocks, wtransactions>>
states  == <<state_queue, asking, wallets_state>>
vars    == <<tasks, history, states, recorded, crashes, faults>>

Idle == [pc |-> "idle", block |-> Genesis, u |-> 1]
Begin(b) == [pc |-> "check", block |-> b, u |-> 1]

Init == /\ calls = [b \in Blocks |-> 0]
        /\ queue = <<>>
        /\ thread = [w \in Threads |-> Idle]
        /\ genesis_done = FALSE
        /\ wallets = Known
        /\ wblocks = [a \in Addr |-> {}]
        /\ wtransactions = [a \in Addr |-> {}]
        /\ state_queue = <<>>
        /\ asking = [s \in StateThreads |-> NoAddr]
        /\ wallets_state = {}
        /\ recorded = {}
        /\ crashes = 0
        /\ faults = 0

-------------------------------------------------------------------------------
(* The wallet task of a block. *)

(* Db::add_transactions queues the task, once more if b is processed again. *)
AddTransactions(b) ==
    /\ b # Genesis
    /\ calls[b] < MaxCalls
    /\ calls' = [calls EXCEPT ![b] = @ + 1]
    /\ queue' = Append(queue, b)
    /\ UNCHANGED <<thread, genesis_done, history, states, recorded, crashes, faults>>

(* A thread takes the oldest task. *)
StartTask(w) ==
    /\ w # Utility
    /\ thread[w].pc = "idle"
    /\ queue # <<>>
    /\ thread' = [thread EXCEPT ![w] = Begin(Head(queue))]
    /\ queue' = Tail(queue)
    /\ UNCHANGED <<calls, genesis_done, history, states, recorded, crashes, faults>>

(* Fetcher::fetch_genesis got the genesis: update_genesis runs on its thread. *)
StartGenesis ==
    /\ ~genesis_done
    /\ genesis_done' = TRUE
    /\ thread' = [thread EXCEPT ![Utility] = Begin(Genesis)]
    /\ UNCHANGED <<calls, queue, history, states, recorded, crashes, faults>>

(* The request for it was not answered: fetch_genesis ends all the same, and  *)
(* update_genesis does not run in this life of the process.                   *)
MissGenesis ==
    /\ ~genesis_done
    /\ faults < MaxFaults
    /\ faults' = faults + 1
    /\ genesis_done' = TRUE
    /\ UNCHANGED <<calls, queue, thread, history, states, recorded, crashes>>

(* The call of Table::update the thread is in. *)
Update(w) == Updates[thread[w].block][thread[w].u]

(* Slip: one update too many. *)
AdvancePastLast(w) ==
    LET b == thread[w].block
        last == thread[w].u > Len(Updates[b])
    IN  /\ thread' = [thread EXCEPT ![w] = IF last THEN Idle
                                           ELSE [pc |-> "check", block |-> b, u |-> @.u + 1]]
        /\ recorded' = IF last THEN recorded \cup {b} ELSE recorded
        /\ UNCHANGED <<calls, queue, genesis_done>>

(* What the thread does after this update: the next one, the end of the     *)
(* block's task, or, for the genesis, update_wallets_state.                 *)
Advance(w) ==
    LET b == thread[w].block
        last == thread[w].u = Len(Updates[b])
    IN  /\ thread' = [thread EXCEPT ![w] =
                        IF ~last THEN [pc |-> "check", block |-> b, u |-> @.u + 1]
                        ELSE IF w = Utility THEN [@ EXCEPT !.pc = "refresh"]
                        ELSE Idle]
        /\ recorded' = IF last THEN recorded \cup {b} ELSE recorded
        /\ UNCHANGED <<calls, queue, genesis_done>>

(* update_wallet_state(a) follows every update: a state task is queued. *)
UpdateWalletState(a) ==
    /\ state_queue' = Append(state_queue, a)
    /\ UNCHANGED <<asking, wallets_state>>

(* Slip: an existing row only gets the transaction. *)
CheckRowTransactionsOnly(w) ==
    /\ thread[w].pc = "check"
    /\ thread' = [thread EXCEPT ![w].pc = IF Update(w).addr \in wallets THEN "transactions" ELSE "insert"]
    /\ UNCHANGED <<calls, queue, genesis_done, history, states, recorded, crashes, faults>>

(* Table::update asks whether the row exists. *)
CheckRow(w) ==
    /\ thread[w].pc = "check"
    /\ thread' = [thread EXCEPT ![w].pc = IF Update(w).addr \in wallets THEN "blocks" ELSE "insert"]
    /\ UNCHANGED <<calls, queue, genesis_done, history, states, recorded, crashes, faults>>

(* Slip: the insert replaces a row that has come up since. *)
InsertRowReplaces(w) ==
    LET a == Update(w).addr
        b == thread[w].block
    IN  /\ thread[w].pc = "insert"
        /\ wallets' = wallets \cup {a}
        /\ wblocks' = [wblocks EXCEPT ![a] = {b}]
        /\ wtransactions' = [wtransactions EXCEPT ![a] = {<<b, Update(w).entry>>}]
        /\ UpdateWalletState(a)
        /\ Advance(w)
        /\ UNCHANGED <<crashes, faults>>

(* It did not: a new row.  The insert leaves a row that has come up since alone. *)
InsertRow(w) ==
    LET a == Update(w).addr
        b == thread[w].block
    IN  /\ thread[w].pc = "insert"
        /\ \/ /\ a \notin wallets
              /\ wallets' = wallets \cup {a}
              /\ wblocks' = [wblocks EXCEPT ![a] = {b}]
              /\ wtransactions' = [wtransactions EXCEPT ![a] = {<<b, Update(w).entry>>}]
           \/ a \in wallets /\ UNCHANGED history
        /\ UpdateWalletState(a)
        /\ Advance(w)
        /\ UNCHANGED <<crashes, faults>>

(* It did: the fields are updated one after the other, "blocks" first. *)
UpdateBlocks(w) ==
    /\ thread[w].pc = "blocks"
    /\ thread' = [thread EXCEPT ![w].pc = "transactions"]
    /\ wblocks' = [wblocks EXCEPT ![Update(w).addr] = @ \cup {thread[w].block}]
    /\ UNCHANGED <<calls, queue, genesis_done, wallets, wtransactions, states, recorded, crashes, faults>>

(* Slip: the field is set, not joined. *)
UpdateTransactionsOverwrites(w) ==
    LET u == Update(w)
    IN  /\ thread[w].pc = "transactions"
        /\ wtransactions' = [wtransactions EXCEPT ![u.addr] = {<<thread[w].block, u.entry>>}]
        /\ UpdateWalletState(u.addr)
        /\ Advance(w)
        /\ UNCHANGED <<wallets, wblocks, crashes, faults>>

UpdateTransactions(w) ==
    LET u == Update(w)
    IN  /\ thread[w].pc = "transactions"
        /\ wtransactions' = [wtransactions EXCEPT ![u.addr] = @ \cup {<<thread[w].block, u.entry>>}]
        /\ UpdateWalletState(u.addr)
        /\ Advance(w)
        /\ UNCHANGED <<wallets, wblocks, crashes, faults>>

(* A query of Table::update fails; the rest of this update is skipped. *)
UpdateFails(w) ==
    /\ thread[w].pc \in {"check", "insert", "blocks", "transactions"}
    /\ faults < MaxFaults
    /\ faults' = faults + 1
    /\ UpdateWalletState(Update(w).addr)
    /\ Advance(w)
    /\ UNCHANGED <<history, crashes>>

(* Slip: a start asks for no states. *)
RefreshNothing ==
    /\ thread[Utility].pc = "refresh"
    /\ thread' = [thread EXCEPT ![Utility] = Idle]
    /\ UNCHANGED <<calls, queue, genesis_done, history, states, recorded, crashes, faults>>

(* Db::update_wallets_state queues a state task for every row of wallets. *)
RefreshStates ==
    /\ thread[Utility].pc = "refresh"
    /\ thread' = [thread EXCEPT ![Utility] = Idle]
    /\ state_queue' = state_queue \o SetToSeq(wallets)
    /\ UNCHANGED <<calls, queue, genesis_done, history, asking, wallets_state, recorded, crashes, faults>>

-------------------------------------------------------------------------------
(* The state tasks. *)

StartState(s) ==
    /\ asking[s] = NoAddr
    /\ state_queue # <<>>
    /\ asking' = [asking EXCEPT ![s] = Head(state_queue)]
    /\ state_queue' = Tail(state_queue)
    /\ UNCHANGED <<tasks, history, wallets_state, recorded, crashes, faults>>

(* A node answers.  Of a wallet no node knows the task asks forever. *)
WriteState(s) ==
    /\ asking[s] \notin Unknown \cup {NoAddr}
    /\ wallets_state' = wallets_state \cup {asking[s]}
    /\ asking' = [asking EXCEPT ![s] = NoAddr]
    /\ UNCHANGED <<tasks, history, state_queue, recorded, crashes, faults>>

(* The write of the answer fails; the task ends. *)
StateFails(s) ==
    /\ asking[s] \notin Unknown \cup {NoAddr}
    /\ faults < MaxFaults
    /\ faults' = faults + 1
    /\ asking' = [asking EXCEPT ![s] = NoAddr]
    /\ UNCHANGED <<tasks, history, state_queue, wallets_state, recorded, crashes>>

(* The process stops and starts again with empty queues; the tables stay. *)
Crash ==
    /\ crashes < MaxCrashes
    /\ crashes' = crashes + 1
    /\ queue' = <<>>
    /\ thread' = [w \in Threads |-> Idle]
    /\ genesis_done' = FALSE
    /\ state_queue' = <<>>
    /\ asking' = [s \in StateThreads |-> NoAddr]
    /\ UNCHANGED <<calls, history, wallets_state, recorded, faults>>

-------------------------------------------------------------------------------
Work(w) == \/ StartTask(w)
           \/ CheckRow(w)
           \/ InsertRow(w)
           \/ UpdateBlocks(w)
           \/ UpdateTransactions(w)

StateWork(s) == StartState(s) \/ WriteState(s)

Next == \/ \E b \in Blocks : AddTransactions(b)
        \/ \E w \in Threads : Work(w) \/ UpdateFails(w)
        \/ StartGenesis
        \/ MissGenesis
        \/ RefreshStates
        \/ \E s \in StateThreads : StateWork(s) \/ StateFails(s)
        \/ Crash

Spec == Init /\ [][Next]_vars

(* Every thread goes on, the genesis is fetched in the end, and a node answers *)
(* for a wallet it knows.  Calls of add_transactions, failures and crashes     *)
(* are under no obligation.                                                    *)
Fairness == /\ \A w \in Threads : WF_vars(Work(w))
            /\ WF_vars(StartGenesis)
            /\ WF_vars(RefreshStates)
            /\ \A s \in StateThreads : WF_vars(StateWork(s))

FairSpec == Spec /\ Fairness

-------------------------------------------------------------------------------
(* The queues, the threads and the tables have their types.                   *)
TypeOK ==
    /\ calls \in [Blocks -> 0..MaxCalls]
    /\ queue \in Seq(Blocks)
    /\ DOMAIN thread = Threads
    /\ \A w \in Threads :
          /\ thread[w].pc \in {"idle", "check", "insert", "blocks", "transactions", "refresh"}
          /\ thread[w].block \in Blocks
          /\ thread[w].u \in 1..Len(Updates[thread[w].block])
    /\ genesis_done \in BOOLEAN
    /\ wallets \subseteq Addr
    /\ wblocks \in [Addr -> SUBSET Blocks]
    /\ wtransactions \in [Addr -> SUBSET (Blocks \X Entry)]
    /\ state_queue \in Seq(Addr)
    /\ asking \in [StateThreads -> Addr \cup {NoAddr}]
    /\ wallets_state \subseteq Addr
    /\ recorded \subseteq Blocks
    /\ crashes \in 0..MaxCrashes
    /\ faults \in 0..MaxFaults

(* The two counts of get_wallet_history_state agree on what happened: a block *)
(* that a wallet's transactions name is among the wallet's blocks, although   *)
(* the fields are updated by two queries, on many threads, and either query   *)
(* may fail or never be sent because the process stops.                       *)
BlocksCoverTransactions ==
    \A a \in Addr : \A x \in wtransactions[a] : x[1] \in wblocks[a]

(* Once the wallet task of a block has run, every update of it is in the row  *)
(* of its wallet: no other task has undone or swallowed it.                   *)
HistoryRecorded ==
    \A b \in recorded : \A u \in Range(Updates[b]) : <<b, u.entry>> \in wtransactions[u.addr]

(* The same of the wallets that had a row, which no two tasks open at once,   *)
(* as long as no query has failed.                                            *)
KnownHistoryRecorded ==
    faults = 0 => \A b \in recorded : \A u \in Range(Updates[b]) :
                      u.addr \in Known => <<b, u.entry>> \in wtransactions[u.addr]

(* What a client once read of a wallet it reads ever after: no step of any    *)
(* thread, not the insert of one that saw no row while another opened it, nor *)
(* a failed query or a restart, takes a row, a block or a transaction away.   *)
HistoryNeverShrinks ==
    [][/\ wallets \subseteq wallets'
       /\ \A a \in Addr : /\ wblocks[a] \subseteq wblocks'[a]
                          /\ wtransactions[a] \subseteq wtransactions'[a]]_vars

(* Every thread of state_queue asks for a wallet no node knows. *)
Stuck == \A s \in StateThreads : asking[s] \in Unknown

(* A wallet that has a history gets a state, even if the process stops        *)
(* between the two: update_wallets_state runs again after every start.  A     *)
(* wallet no node knows keeps one thread for each task that asks for it; the  *)
(* others get their state from the threads left, if any are, and if no call   *)
(* failed.                                                                    *)
StateEventually ==
    \A a \in Addr \ Unknown : a \in wallets ~> (a \in wallets_state \/ faults > 0 \/ Stuck)
===============================================================================
