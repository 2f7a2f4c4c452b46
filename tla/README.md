# Verification of the MILE explorer

TLA+ models of the MILE blockchain explorer, checked with TLC on small instances
and, for the most important properties, proved with TLAPS for every instance.

## The system

Two processes share a RethinkDB database.

- The **indexer** (`indexer/main.cpp`) opens the database (`Db::init`: tables,
  indices, migration, processing threads) and runs the fetcher from the last
  indexed block. It is the only writer. It is restarted when it stops
  (`docker-compose`: `restart: on-failure`), so every stop is a crash followed
  by a start with empty queues and full tables.
- The **explorer backend** (`backend/main.cpp`) answers JSON-RPC requests over
  HTTP from the same tables and writes nothing. One thread runs all its handlers
  (`Server::run` calls `io_context::run` once, whatever `rpc_pool_size` says).

Errors of the database are caught and logged at the call that met them
(`Table::insert`, `Table::update`, `Cursor::remove`, `Cursor::get_data`), so the
code after a failed call runs as if it had succeeded. That, the number of
threads and the crashes are what makes the indexer hard to test.

### Inventory

| part | state | operations | hard because | correct when |
|---|---|---|---|---|
| Fetcher, `fetcher.cpp` | cursor `first`, `is_active_`, queues | poll, start a job, request a block, retry, add | jobs overlap and share the cursor by reference; requests are answered in any order; a crash drops the queues | no block below the cursor is forgotten; every block is indexed in the end |
| Block index, `db/blocks/` | tables `blocks_processing`, `blocks` | `add_block`, `blocks_processing` | arrival order; swallowed errors; the gap check is off at 0 | `blocks` has no hole and only grows by the next block |
| Transaction stream, `db/transactions/` | tables `transactions_processing`, `transactions`, `transactions_state` | `add_stream_transaction`, `transactions_processing` | insert, count and removal are three queries; blocks are streamed twice; unsigned differences | serials are dense, unique and stable; no transaction is lost |
| Wallets, `transactions.cpp`, `table.cpp`, `wallets_state.cpp` | tables `wallets`, `wallets_state`, two queues | `add_wallet_transaction`, `update_genesis`, `update_wallet_state` | many threads do read-then-write on one row; state tasks hold their thread | a wallet's row has every transaction; every wallet gets a state |
| Network state, `network.cpp` | tables `node_states`, `node_wallets`, `blockchain_info`; `block_id` of the loop | `fetch_states`, `add_node_states` | lagging servers; a crash half way; string ids | nodes never go back; the newest state is served |
| Start-up and migration, `db.cpp`, `migration.cpp` | the database, its tables and indices, rows of `meta` | `Open`, `init`, `migration`, `update_version` | swallowed errors; a crash half way; versions that go up and down; a string among the numeric ids | a clean start leaves a complete schema, whatever went before; the recorded version never goes back |
| Statistics, `indexer/statistics/` | `turnovers`, `transaction_turnover`, `wallets_top`; the worker | `turnover24`, `transaction_turnover`, `wallets_top_upd` | tables change between the query of the newest block and the others; intervals share their ends; rows are replaced, never removed | what is published comes to be what the tables say |
| Genesis parser, `genesis.cpp` | none | parse | - | - |
| Query layer, `cursor.cpp`, `table.cpp`, `getters.cpp` | none | `get_data`, `between`, `slice`, `max`, ... | a failed query looks like an empty table | pages join to the whole table |
| JSON-RPC, `backend/jsonrpc`, `backend/api` | none | parse, dispatch, parameters, answer | errors at several layers for one request; sentinels; 256-bit ids in 64-bit queries | an answer without an error belongs to a complete request; no request gets neither result nor error |
| HTTP server, `backend/jsonrpc/http` | listener, sessions, `req_` and `res_` of each | accept, read, handle, write, close | callbacks on one thread; kept-alive connections reuse `req_` | every request is answered |
| HTTPS server | - | - | compiled, used by no server | - |
| Configuration, logging | options | - | - | - |

They interact by calls inside the indexer: the fetcher calls `add_block`; the
block scan calls `block_changes`, which queues a wallet task and a stream task
in `transactions_queue_`; a wallet task queues state tasks. The processing
threads poll their tables, and the statistics worker reads them every round. The
backend only meets the indexer in the tables. The hazards
of each part are listed with their lines in `PROJECT.json`.

## Modules

| module | models | remarks |
|---|---|---|
| `BlockLog` | what the block index promises | an append-only log of consecutive blocks |
| `BlockIndex` | fetcher, rpc queue, `add_block`, `blocks_processing`, start, crash | `LogSpec` maps `blocks` to the log |
| `BlockIndexProofs` | theorems about it | |
| `TxLog` | what the stream promises | a log whose entries are numbered from 0 |
| `TxIndex` | stream tasks, the processing pass, migration, crash | `LogSpec` maps the rows and the issued serials to the log |
| `TxIndexProofs` | theorems about it | |
| `Wallets` | wallet tasks query by query, genesis, state tasks, crash | |
| `WalletsProofs` | theorems about it | |
| `NetworkState` | `fetch_states`, `add_node_states`, `get_network_state` | |
| `NetworkStateProofs` | theorems about it | |
| `JsonRpc` | the answer to a request body, as a function of the tables | operators only |
| `JsonRpcProofs` | theorems about every body and all tables | |
| `Backend` | listener, sessions, the single thread, clients, the indexer as seen from the tables | extends `JsonRpc` |
| `BackendProofs` | theorems about it | extends `JsonRpcProofs` |
| `Start` | `Db::Open`, `Db::init`, the version part of `migration`, crashes | |
| `StartProofs` | its inductive invariant, kept by every step of a start | |
| `Statistics` | the statistics worker and its methods, beside the processing threads | extends `Start`: the worker meets whatever schema the start has left |
| `StatisticsProofs` | theorems about both | extends `StartProofs` |
| `MC_*` | instances for TLC | constants only |

How the state corresponds to the code: tables have the names they have in
`names.hpp`, local variables and fields the names they have in the functions
(`first`, `prev_bid`, `last_count`, `items`, `block_id`, `next_block_id`), and
`pc` is the query a thread is about to send. One action is one query or one step
of a queue, so a crash, an error or another thread can come between any two.
Operators introduced by the comment *Slip* are plausible mistakes in the
operation that follows them; no specification uses them. They show that the
properties notice: put in place of the operation, each one breaks a property.

**BlockIndex.** `Poll` is the main loop: with `is_active_` false and
`first < last` it queues a job; `active` changes only when a thread starts the
job (`StartJob`), so a second job can be queued before. `StartJob` reads the
shared cursor, `RequestBlock` fills the rpc queue, `FinishJob` sets
`first = last`. `GetBlock` is the retry loop, in which only the successful
attempt changes anything. `AddBlock` writes `blocks_processing`. The scan is
`ReadItems`, then per row `GapBreak`, `BlockChanges` or `BadBlock`, then
`Insert` and `Remove`, then `EndScan`. Each scan row reads the newest id again,
as `get_prev_bid` does. `Fault(f)` lets one database call of kind `f` fail the
way its wrapper swallows it: an empty answer, 0, or a write that did not happen.

**TxIndex.** A row is an (address, block, transaction) key; a marker is the
`__processing__` row of a block without transactions. `BlockChanges` hands a
block over, possibly again, `InsertRow` is its task, and the pass is `ReadPass`,
`NextItem`, one of `BadRow`, `SkipMarker`, `BreakAhead`, `AlreadyThere` or
`TakeSerial`, then `InsertTx`, `UpdateState`, `RemoveRow`. Differences of block
ids are taken modulo `Word`, a small stand-in for 2^64. `Migrate` is the flush
every start makes.

**Wallets.** `Updates[b]` is the sequence of calls of `Table::update` that the
transactions of block `b` cause; `UpdatesOf` builds it the way
`add_wallet_transaction` does. `CheckRow`, `InsertRow`, `UpdateBlocks` and
`UpdateTransactions` are the queries of `Table::update`. RethinkDB runs each
query atomically on the row it changes: an insert whose key exists fails without
effect, and a `set_union` keeps what others have added (the function sent is
deterministic, so `non_atomic` only permits, and does not cause, anything else).
The utility thread runs the genesis through the same queries and then asks for
the states of all wallets.

**NetworkState.** `AskHead`, `SkipTurn`, `TakeNodes`, `InsertState` and
`UpdateNode` follow one turn of the loop. The block and the nodes are two
requests, and the server may move between them. `Dec` and `Before` are the
decimal string of an id and the order of strings.

**JsonRpc.** A body keeps the fields the code looks at, with the types of its
parameters and the parts of an id between colons; the text itself is left out.
Every method of `backend/api` is an operator from the parameters and the tables
to an outcome: a result, an error, neither (`Silent`), or an exception, in the
order the code tests. `Check`, `CheckLimit` and `With` take
the rest of the method as an argument, which is run only if they do not return
early. `Answer` is the POST branch of `request::handle`: it applies the method
even after a parse error, an error of the method replaces that of the parser,
and an exception becomes a 404. `Get` answers the row itself, `Find` an array, as
RethinkDB's `get` and `get_all` do. The widths are `Word` (2^64, at which ids of
a history wrap), `Short` (2^16, at which asset codes do) and `Last256` (the
`uint256_t(-1)` that `get_block_id` answers for an error). `std::stoull` reads
the number a text begins with (`BeginsWithNumber`) and ignores the rest.

**Backend.** `OnAccept`, `OnRead` and `OnWrite` are the callbacks of the
listener and of a session. A handler runs to its end before the next one starts;
`get-wallet-history-state` makes two queries, so its handler is `OnReadFirst` and
`OnReadSecond`, and `running` keeps the thread in between. `Received` is what
reading into a `req_` that was not emptied may leave as the body. A failing query
is a step with empty tables (`NoTables`). `Exit` gathers the ways the process
ends. Clients send requests from a set, page through the history of a wallet
(`got` is what they have collected), go away and come back. The indexer adds
blocks in any order and the block of a wallet before its transactions, as
`BlockIndex` and `Wallets` do. Of the stream it shows what `TxIndex` can leave
behind after crashes, failed reads and swallowed writes: a row may get any serial,
one that is in use too (`AddTransaction`), and the count may become any number,
ahead of the rows, behind them or 0 (`UpdateCount`). The rows are kept in the
order of the index `serial`, those of one serial in any order.

**Start.** `start` is the running process: the query it is about to send, the
version it was built as, and whether a query has failed since it was started.
Tables and indices are made one query at a time, each of which may fail and be
swallowed. `GetVersion` and `RestartNumber` read the row of `meta` with the
largest id, where a string is larger than every number. The database may come
with the legacy row of an old version, which holds any number of `LegacyVersions`:
`ReadLegacy` is the query that decides whether the row goes (up to 122, and after
a failed read, which counts as 0), `RemoveLegacy` the one that removes it.

**Statistics.** The chain is a constant; its blocks and its stream are stored
independently, wallet states change at will. The worker's `pc` is the query it
is about to send; each method is a query of the rows and one that publishes. The
answer of a failed query is empty and is published like any other. The batch of
`insert_with_replace` is atomic for each document only, so `InsertTop` writes one
row at a time, in any order, and may fail between two; `torn` records that a part
of the last batch is missing. `Interval` is
`interval_map::operator[]`: the first interval that holds a time, or `end()`, and
what adding to that does is any of the outcomes of `place`.

## Runs

| run | instance | shows |
|---|---|---|
| `block_warm` | blocks 0..3, two indexed, two jobs, one crash | `Contiguous`, `NoBlockLost`, the refinement of `BlockLog` |
| `block_cold` | empty index, block 3 malformed, a failing read of the newest id or of the rows | `NoBlockLost`; `EventuallyIndexed`: every block below the malformed one is indexed in the end |
| `block_repair` | two blocks indexed, one failing write or start, one crash | `Contiguous`; `RestartRepairs`: a lost block comes back after the restart |
| `block_cold_crash` | empty index, one crash | **violation** of `HistoryComplete` |
| `tx_serial` | rows of blocks 1..5 with gaps, blocks handed over twice, a failing removal or read | `SerialsDense`, `NoTxLost`, the refinement of `TxLog`, `EventuallyStreamed` |
| `tx_faults` | a malformed row, two crashes, a failing call of any of seven kinds | `SerialsStable`: serials never change; `DriftBounded`: at most one duplicate per crash; `SerialsCovered`: every serial below the count is in use |
| `wallet_history` | the genesis and a block, wallets with and without rows, one that no node knows, a worker and the genesis thread, two state threads, one crash, one failing query | `BlocksCoverTransactions`; `KnownHistoryRecorded`: a wallet that had a row loses nothing to another task; `HistoryNeverShrinks`: no step takes anything out of a row; `StateEventually`: every wallet a node knows gets a state |
| `wallet_race` | no rows, two workers | **violation** of `HistoryRecorded` |
| `net_loop` | two servers that lag, three nodes, blocks 1..4, one crash, one failing write, unanswered requests | `WalletsHaveStates`, `NodesNeverGoBack`, `EventuallySeen` |
| `net_current` | blocks 8..11 | **violation** of `CurrentIsNewest` |
| `backend` | two clients, two requests beside paging, pages of 2, three blocks, two rows of the stream with any of two serials and any count up to 2, three transactions of a wallet, one failing query or dropped connection or exit; some 400 bodies against every state of the tables | `SuccessIsGenuine`, `NeverSilent`, `PageBounded`, `PagesJoin`, `PagesComplete`, `CountedRowsExist`, `EveryRequestAnswered` |
| `indexer_db` | a new database or one with a legacy row of 122 or 123, versions 127 and 128, one crash, one failing query, two blocks on the borders of two days, two wallets, three rows written | `SchemaComplete`, `VersionNeverGoesBack`, `IntervalsPartition`, `TopDistinct`, `StatisticsCurrent` |

Properties that a failing call or a crash does break say so themselves, so that
one run covers the rest as well: `WalletsHaveStates` and `EventuallySeen` speak of
behaviours in which no write has failed, `KnownHistoryRecorded` of those in which
no query has, `SerialsCovered` and `DriftBounded` of those in which the calls they
rest on have not, `NodesNeverGoBack` of one life of the process,
`RestartRepairs` of a block that no later failing call has hit again,
`SchemaComplete` and `VersionNeverGoesBack` of a start without a failing query.
Some exemptions are behaviours the code has and a reader should know: a POST
without a body may be answered with the answer to the previous request
(`SuccessIsGenuine`); the decimal of `uint256_t(-1)` gets neither result nor error
(`NeverSilent`); a ranking that becomes shorter leaves its old rows behind, and
wallets that trade places are shown twice while a batch is half written
(`TopDistinct`); a legacy row above 122 stays, and beside it `get_version` answers
0 for ever (`VersionNeverGoesBack`); a page of the stream may have more rows than
its limit, as rows of one serial are all in it, so that `PageBounded` counts the
serials of such a page; the count of the stream promises no rows, as swallowed
inserts are counted (`CountedRowsExist` leaves it out); a transaction that arrives
after the newest block was read may be counted in any interval or in none
(`IntervalsPartition`); the statistics worker ends for good when it finds no block
(`StatisticsCurrent`). One more is an assumption of the proofs of `Contiguous`,
`LogSpec` and `NoBlockLost`, that the newest id can be read (`ReliablePrevBid`): a
read that fails turns the gap check off for a scan, and with a crash after it
leaves a permanent hole in a warm index as well, of the kind that
`block_cold_crash` shows for a cold one. No run goes through it.

The bounds: two jobs or two workers are the fewest that can overlap, and each is
compared with one other only (the cursor, a row). Blocks 0..3 with two indexed
leave two that can arrive in either order and be swapped around a crash. Two
calls of the same block in the stream runs are one repetition; the wallet runs
process each block once and leave repetition to the proofs. One crash separates
a before from an after; two show that the drift of serials adds up. `Word = 16`
is larger than any id, as 2^64 is, and small enough for the wrapped difference
to be an ordinary number. `wallet_history` has one more state thread than there
are wallets that can hang on to one. Ids 8..11 cross a power of ten.

In `backend` two clients are two sessions that compete for the thread, two
requests on one connection are what reusing `req_` takes, and pages of two cut a
history of three in the middle. Two rows and two serials give a stream that is
dense, one with a hole and one with a duplicate. `Word = 16` lies above every id
of a table and below `Last256 = 31`; `Short = 8` is itself an asset code asked for,
which wraps. The answers to the 400 bodies
depend on the tables alone, so they are examined while the server has not started,
when the tables go through all their states; from then on the indexer writes
until two blocks are there, in the index or in the wallet (`MaxGrowth`), and all
transactions of the wallet's blocks, so that a client that has a page of two may
find a third transaction behind it; the stream, which none of the requests sent
then asks for, counts twice, so one row or the count 0 takes up the whole bound. In `indexer_db` the times of the two blocks are the end of the window
and the border in its middle, and the first is also the start of the last day; 122
is the largest legacy number that is removed and 123 the smallest that is kept; a
fault and a crash together reach a start that repeats what another left undone.

Symmetry is used over jobs (`block_warm`, whose refinement property is a safety
property that names no job). Deadlock is checked except in the wallet runs, where
the bounded supply of blocks runs out and nothing polls, in `backend`, where
clients may stop asking and the process may exit, and in `indexer_db`, where a
process whose database could not be made stays idle.

### Fairness

Every thread that has something to do goes on (weak fairness of each step), a
node that is asked for a block it has answers in the end (the retry loop of
`fetch_blocks` has no limit), and after a crash the process is started again.
New blocks, crashes and failing calls are under no obligation, except that in
`net_loop` the servers reach the last block and a server that is asked again and
again answers some time (strong fairness, as the loop comes back to it after
each miss). The genesis is assumed to be answered in `wallet_history`: when it is
not, `fetch_genesis` ends without it (`MissGenesis`) and the states are not
refreshed in this life of the process. In `backend` the thread inside
`io_context::run` takes every handler that is ready; clients and the indexer owe
nothing. In `indexer_db` a process that is down is started again, and its start
and its worker go on.

### What the violations show

- `block_cold_crash`: the forward check of the scan is off while the newest id
  is 0. On a first synchronisation a later block can be indexed before an
  earlier one; if the process stops then, the restart resumes at the largest id
  and the hole stays, although the count that `get-block-history-state` answers
  includes it.
- `wallet_race`: two tasks, or a task and the genesis thread, that find no row
  for the same wallet both insert one. The second insert has no effect and its
  transaction is in no row of that wallet.
- `net_current`: `node_states` has decimal strings as ids, and `max("id")`
  compares strings. With rows 9 and 10 the current state is that of block 9.

## Proofs

All theorems hold for every value of the constants that satisfies the named
assumptions of the modules; the extra assumptions are hypotheses of the theorem.

**BlockIndexProofs.** `TypeCorrect`. `AlwaysContiguous` and `ImplementsLog`
assume a warm index (`Warm`: a block other than 0 is indexed) and that the newest
id can be read (`ReliablePrevBid`); writes may fail and the process may stop any
number of times. `Contiguous` alone is not inductive: `IndexInv` adds that
between the gap check and the insert the row in hand is at most one above the
newest block. `NeverLosesABlock` also assumes that writes do not fail
(`ReliableWrites`); `FetchInv` adds to `NoBlockLost` that what each running job
has requested so far is accounted for, and that a row about to be removed from
`blocks_processing` is in `blocks`.

**TxIndexProofs.** `TypeCorrect` and `AlwaysStable` without any assumption;
`AlwaysCovered` and `DriftAlwaysBounded` without any either, for any number of
crashes: the calls that must not have failed are named in the properties
(`ReliableInsert`, `ReliableState`), which look at the log of failed calls;
`AlwaysDense` and `ImplementsLog` under `ReliableCalls` and without crashes
(`NoCrash`). The invariants relate the count in the thread's hand to the stored
one (`CountInv`) and say that every serial below it is taken (`CoverInv`).
`NeverLosesATransaction` assumes that the process does not stop (`NoCrash`: the
queue is only in memory) and that the inserts into the two tables of rows do not
fail (`ReliableRows`); reads, lookups, removals and the count may. `KeptInv` adds
to `NoTxLost` that a row about to be removed has reached the stream.

**WalletsProofs.** `TypeCorrect`: `StateShape` adds that the table is finite at
every moment, without which `update_wallets_state` would not queue its rows as a
sequence; the rows from earlier blocks are assumed to be finitely many.
`AlwaysCovered` without any assumption: `CoverInv` adds that
a thread about to write the transactions has written the block, into a row that
is there and so cannot be inserted again. `AlwaysRecorded` proves
`KnownHistoryRecorded`, also without assumptions, for any number of threads,
repetitions and crashes: `RecordInv` says which updates of its block each thread
has done. That the wallet had a row is part of the property, and `wallet_race`
shows that it cannot be dropped. `NeverShrinks` proves the action property
`HistoryNeverShrinks`, again for any number of threads, crashes and failing
queries: an insert sets the fields of a row afresh, so `NoRowNoHistory` says that
there is nothing in them as long as there is no row. It is inductive only beside
`CoverInv`, by which the two updates of a row meet a row.

**NetworkStateProofs.** `TypeCorrect` (a turn that has got as far as the nodes
has a block), `WalletsAlwaysHaveStates` and `NodesNeverRegress`, all without
extra assumptions: the conditions on failing writes and restarts are part of the
properties. `WalletsHaveStates` needs that a turn about to update a node has
inserted its state, `NodesNeverGoBack` that no node is beyond `block_id`.

**StartProofs, StatisticsProofs.** `AlwaysComplete`, `NeverGoesBack`,
`AlwaysDistinct`, `AlwaysPartitioned` and `TypeCorrect`, for any lists of tables and indices, any
versions, chains and finite sets of wallets, any number of crashes and failing
queries. `SchemaComplete` speaks of a start that is done; `StartInv` says of a
start on its way, as long as none of its queries has failed, that the tables and
indices before its step are there (`SchemaSoFar`), and that the row with the text
id is gone before the version is compared, or holds more than 122, and the version
it is about to record is a newer one (`VersionSoFar`). The list of indices is assumed not to be empty,
as in `names.cpp`. `TopDistinct` is not inductive because `insert_with_replace`
keeps the places a round does not have: `TopInv` adds that, while no wallet has
lost an asset, the rows in the table are no more than the wallets that hold it,
so that the rows a round has read reach at least as far as those it replaces,
unless its query failed and it has none; and that, while a batch is being written,
the table with the rest of the batch written over it has no wallet twice, in
whatever order the rows go and however torn the table was before.

`AlwaysPartitioned` (`IntervalsPartition`) is for any chain and for any number of
intervals but none (`Days > 0`; the code has 14) of any length. `WindowInv` adds
that the worker counts from the time of a block and that the rows it carries to
the update are no older than the window that starts there. The rest is about one
round (`IntervalsAddUp`): every time of the window is in exactly one interval
(`IntervalFacts`), the rows of the intervals are disjoint and together lie between
the rows up to the newest block and all rows (`SumOfParts`, `SumOfUnion`), and
sums over larger sets of rows are no smaller (`SumGrows`). The sums are folds of
the library, which its theorem modules say nothing about. `SumsExist` and `SumsAgree` show that the
function the fold is defined by exists and is the only one, `SumTakesOut` that the
order of adding does not matter. They are inductions over the size of a set, done
without an induction scheme: a counterexample would have a least size
(`LeastNumber`, from the well-foundedness of the natural numbers), and the step
refutes it.

**JsonRpcProofs.** The answer to a body is an operator, so these theorems have no
specification: `NoSilence` and `SuccessIsComplete` hold for every body and for all
tables, those of a failed query and those that changed between two queries
included. `NoSilence` assumes that the parameters are values `nlohmann::json`
can give (`HasValues`). The lemmas say what the query operators return: an
ascending enumeration has every number of its set once (`AscendingFacts`), a
slice is that part of its sequence (`SliceFacts`), and a page of each of the five
paged methods is bounded by the limit of the request (the lemmas `*PageBounded`):
in rows where the ids of a table are different (`BetweenBounded`), in different
serials for the stream, where they may repeat (`NumbersBounded`). For rows in the
order of their index, `Cursor::between` is a contiguous piece of the table
(`BetweenIsPiece`): it starts after the rows below `first` and ends before those
from `first + limit` on (`Below` counts them), as long as that sum does not wrap.
Pieces that follow one another join (`PiecesJoin`), any number of them by the
least counterexample (`FlattenPieces`), so the pages are the table
(`PagesAreTable`).

**BackendProofs.** `SessionInv` is the invariant behind all of them: each session
is in one of its states with what belongs to it, the thread is inside a handler
exactly when a session is between its two queries, and the tables have their
types, the stream in the order of its serials wherever a row is inserted
(`StreamOK`, `InsertFacts`); every step also leaves the blocks and the wallet as
they were or larger (`Grown`), which is not said of the count of the stream.
`TypeCorrect` follows with the bounds of the model. `AlwaysGenuine`
(`SuccessIsGenuine`) is carried by the session: while a session writes, its
answer belongs to what it was sent, whatever `req_` held before. `AlwaysLoud`
(`NeverSilent`) is `NoSilence`, and `AlwaysBounded` (`PageBounded`) the bounds of
the pages applied to the tables of `SessionInv`. `AlwaysCounted`
(`CountedRowsExist`) is inductive together with `SessionInv` because a count of
blocks or of a wallet is true of the tables that were read and these only grow. `AlwaysPrefix`
(`PagesComplete`) needs `PageInv`: clients ask for one page at a time, it starts
where the collected pages end, and an answer without an error that is on its way
joins to a prefix of the history. `AlwaysJoins` (`PagesJoin`) applies
`PagesAreTable` to the tables of `SessionInv`, whose rows are in order whatever
blocks are missing among them (`TablesOrdered`), through parsing, the parameters
and the method (`HistoryAnswer`, `PageOfOne`). The assumptions: `Requests` are HTTP requests
other than for the paged history, which only `NextPage` asks for; the bodies in
`Probes` have values; the largest limit is at least 1 and below `Word`, and the last page of that size
ends below `Word` (`BackendAssumption`), as it does in the code, where `Word` is
2^64 and the limit is 1000.

Only model-checked: the liveness properties (`EventuallyIndexed`,
`RestartRepairs`, `EventuallyStreamed`, `StateEventually`, `EventuallySeen`,
`EveryRequestAnswered`, `StatisticsCurrent`), which need fairness, out of the
prover's reach. Every other property of a run that passes, invariant, action
property or refinement, is a theorem.

## Not modelled

The contents of blocks, transactions and states beyond what tells them apart;
the reading of the genesis text (`genesis.cpp`, a pure function whose result is a
constant of `Wallets`) and the rows of `genesis_transactions`; a torn read of the
256-bit cursor, which two threads access without a lock; which of two answers
about the same wallet is written last; the rounding of amounts; log output,
configuration, the command line. HTTPS is compiled but no server uses it, and
`wallets_top.cpp` is compiled but not registered. In `Backend` the flush of the
stream by a restarting indexer is left out, and a client of the model keeps to one
request at a time (pipelined requests wait in the buffer of the session).

Blocks and their stream are not composed in one module: a crash between the
insert of a block and the task for its transactions loses them
(`transactions.cpp:155`), and so may the flush of `migration.cpp:83`. Both can be
read off the code, and no document claims the contrary, so there is nothing a run
could decide.

Met while modelling, and not a matter of any property:

- `check_limit` accepts a limit of 1000, while its message says that the limit
  "must be less then 1000" (`params.hpp:42-43`); the models take the comparison,
  with `MaxLimit` as the largest limit accepted;
- a legacy row above 122 is not removed (`migration.cpp:32`), and as its id, a
  string, is the largest one of `meta`, `get_version` answers 0 for ever and every
  start tries to record its version as row 1, which only the first one can;
- the count of get-transaction-history-state and the rows of the stream may differ
  in both directions after a failed call (`processing.cpp:48`, `:88`, `:96`), and a
  page of the stream may be longer than its limit after a crash there;
- between two documents of the batch of `wallets_top_upd.cpp:60` wallets that trade
  places are shown twice, and when the batch fails there, until the next round;
- the example of `Readme.md:251` asks get-transaction for a numeric id without
  `block-id`, which `get_transaction.cpp` answers with an error;
- the ids of get-wallet-history-blocks come from the wallet's transactions, one
  for each, while their count is that of `blocks` (`getters.cpp:135`);
- a first id above 2^64 wraps in get-block-history (`get_block_history.cpp:18`);
- pages of get-nodes each take the newest roster (`getters.cpp:68`);
- the limit of wallets-top is not compared with anything
  (`get_statistics.cpp:45`), though the table bounds the page;
- when the database cannot be made, `init` ends without a thread while the
  fetcher runs (`db.cpp:162`); when the address does not parse, an empty optional
  is dereferenced (`backend/main.cpp:51`); one failed accept ends the process
  (`listener.cpp:22`);
- `update_info` throws on an info without `supported-assets` and the loop comes
  to no nodes (`fetcher.cpp:246`); the model takes an answered info for well
  formed.

## What could follow

The instances of the liveness properties could be larger, and their safety parts
(that a row that is ahead is still there, that a task that waits is still queued)
could be stated and proved on their own. `BlockIndex`, `TxIndex` and `Wallets`
could be composed into one indexer, once somebody decides what a crash between
a block and its transactions is allowed to lose.
