------------------------------ MODULE Statistics ------------------------------
(***************************************************************************)
(* The statistics worker that Db::init starts: every round it reads the    *)
(* newest block and runs the registered methods in the order of their      *)
(* names, transaction_turnover, turnover24 and wallets_top_upd, while the  *)
(* processing threads store blocks, transactions and wallet states.        *)
(*                                                                         *)
(* The chain is fixed: Chain[b] is the time of block b and the assets its  *)
(* transactions move.  Its blocks and its stream are stored in any order,  *)
(* one independently of the other, as BlockIndex and TxIndex allow.        *)
(***************************************************************************)
EXTENDS Start, FiniteSetsExt

CONSTANTS
    Chain,          \* a sequence of [time, moved: a sequence of <<asset, amount>>]
    Assets,         \* the codes of XDR and MILE
    Day,            \* 86400
    Days,           \* the days of transaction_turnover, 14
    Wallets,        \* public keys
    Amounts,        \* balances
    TopSize,        \* each_type_amount, 1024
    MaxWrites       \* bound on the rows the processing threads write

ASSUME StatisticsAssumption ==
    /\ Chain \in Seq([time : Nat, moved : Seq(Nat \X Nat)])
    /\ \A b \in DOMAIN Chain : Chain[b].time > Days * Day
    /\ Assets \subseteq Nat /\ Amounts \subseteq Nat /\ IsFiniteSet(Wallets)
    /\ {Day, Days, TopSize, MaxWrites} \subseteq Nat /\ Days > 0

VARIABLES
    stored,         \* blocks in the table blocks
    streamed,       \* blocks whose transactions are in the table transactions
    balance,        \* wallets_state: [Wallets -> a function from some assets to amounts]
    writes,         \* rows written by the processing threads so far
    lost,           \* whether a wallet state has lost an asset
    worker,         \* [pc, last, seen] of the worker: `seen` is what its last query answered
    turnover,       \* the row of turnovers: none or one
    intervals,      \* the row of transaction_turnover: none or one
    top,            \* wallets_top: a function from <<position, asset>> to [key, amount]
    torn            \* observer: whether only a part of the last batch of wallets_top is written

data      == <<stored, streamed, balance, writes, lost>>
published == <<turnover, intervals, top, torn>>
vars      == <<startVars, data, worker, published>>

-------------------------------------------------------------------------------
Blocks == DOMAIN Chain
Time(b) == Chain[b].time

(* Cursor::between on timestamps: from first to before first + limit. *)
InRange(t, first, limit) == first <= t /\ t < first + limit

(* Slip: the second argument is taken for the end. *)
WindowToLast(rows, first, last) == {b \in rows : first <= Time(b) /\ Time(b) < last}

(* The rows `.between(first, last, "timestamp")` selects: `last` is passed as the limit. *)
Window(rows, first, last) == {b \in rows : InRange(Time(b), first, last)}

(* enumerate_assets: how often, and how much, of an asset the transactions of a block move. *)
Moves(b, a) == {i \in DOMAIN Chain[b].moved : Chain[b].moved[i][1] = a}
CountOf(b, a)  == Cardinality(Moves(b, a))
AmountOf(b, a) == SumFunctionOnSet([i \in DOMAIN Chain[b].moved |-> Chain[b].moved[i][2]], Moves(b, a))

Totals(rows) ==
    [a \in Assets |-> [count  |-> SumFunctionOnSet([b \in Blocks |-> CountOf(b, a)], rows),
                       amount |-> SumFunctionOnSet([b \in Blocks |-> AmountOf(b, a)], rows)]]

(* interval_map: Days intervals of a Day; interval i starts at Begin(last, i). *)
Begin(last, i) == last - Days * Day + (i - 1) * Day

(* Slip: an interval ends before its end. *)
HoldsHalfOpen(last, i, t) == Begin(last, i) <= t /\ t < Begin(last, i + 1)

Holds(last, i, t) == Begin(last, i) <= t /\ t <= Begin(last, i + 1)

(* operator[]: the first interval that holds the time, or none: end(), which is dereferenced. *)
Interval(last, t) ==
    LET is == {i \in 1 .. Days : Holds(last, i, t)} IN IF is = {} THEN 0 ELSE Min(is)

(* The totals of every interval; place[b] is the interval a late block falls into, 0 if into none. *)
Intervals(last, rows, place) ==
    LET of(b) == IF b \in DOMAIN place THEN place[b] ELSE Interval(last, Time(b))
    IN  [i \in 1 .. Days |-> Totals({b \in rows : of(b) = i})]

(* Wallets with an asset, largest balance first: any such order of equal ones. *)
Holders(a) == {w \in Wallets : a \in DOMAIN balance[w]}
Rankings(a) ==
    {s \in SetToSeqs(Holders(a)) :
        \A i, j \in DOMAIN s : i < j => balance[s[i]][a] >= balance[s[j]][a]}
Cut(s) == SubSeq(s, 1, IF TopSize < Len(s) THEN TopSize ELSE Len(s))

(* A query on a table, with an index, can be answered. *)
Ready(table, field) == table \in tables /\ <<table, field>> \in indices

Asleep  == [pc |-> "asleep", last |-> 0, seen |-> <<>>]
NoTop   == [x \in {} |-> 0]
Running == start.pc = "running"

Init ==
    /\ StartInit
    /\ stored = {} /\ streamed = {}
    /\ balance = [w \in Wallets |-> NoTop] /\ writes = 0 /\ lost = FALSE
    /\ worker = Asleep
    /\ turnover = <<>> /\ intervals = <<>> /\ top = NoTop /\ torn = FALSE

-------------------------------------------------------------------------------
(* The processing threads, as far as they show here. *)

Write(table) ==
    /\ Running /\ table \in tables
    /\ writes < MaxWrites /\ writes' = writes + 1

StoreBlock(b) ==
    /\ Write("blocks")
    /\ b \notin stored
    /\ stored' = stored \cup {b}
    /\ UNCHANGED <<startVars, streamed, balance, lost, worker, published>>

StoreStream(b) ==
    /\ Write("transactions")
    /\ b \notin streamed
    /\ streamed' = streamed \cup {b}
    /\ UNCHANGED <<startVars, stored, balance, lost, worker, published>>

(* A wallet state replaces the one before: its balance may hold other assets. *)
StoreState(w) ==
    /\ Write("wallets_state")
    /\ \E as \in SUBSET Assets : \E new \in [as -> Amounts] :
         /\ new # balance[w]
         /\ balance' = [balance EXCEPT ![w] = new]
         /\ lost' = (lost \/ ~(DOMAIN balance[w] \subseteq as))
    /\ UNCHANGED <<startVars, stored, streamed, worker, published>>

-------------------------------------------------------------------------------
(* The worker. *)

At(pc)     == Running /\ worker.pc = pc
Step(pc, seen) == worker' = [worker EXCEPT !.pc = pc, !.seen = seen]

(***************************************************************************)
(* get_block_history_state and state["timestamp"], outside the try: if     *)
(* there is no block, or the query fails, the exception ends the worker.   *)
(***************************************************************************)
ReadNewest ==
    /\ At("asleep")
    /\ \/ /\ Ready("blocks", "block-id") /\ stored # {}
          /\ worker' = [pc |-> "intervals", last |-> Time(Max(stored)), seen |-> <<>>]
          /\ UNCHANGED faults
       \/ /\ ~Ready("blocks", "block-id") \/ stored = {}
          /\ worker' = [Asleep EXCEPT !.pc = "ended"]
          /\ UNCHANGED faults
       \/ /\ Fault
          /\ worker' = [Asleep EXCEPT !.pc = "ended"]
    /\ UNCHANGED <<schema, meta, legacy, start, crashes, data, published>>

(* What a query answers: its rows, or none if it fails. *)
Query(ready, rows, none, pc) ==
    /\ \/ Step(pc, <<IF ready THEN rows ELSE none>>) /\ UNCHANGED faults
       \/ ready /\ Fault /\ Step(pc, <<none>>)
    /\ UNCHANGED <<schema, meta, legacy, start, crashes, data, published>>

(* Table::update: the row is inserted or replaced, unless the query fails. *)
Publish(row, new, pc) ==
    \/ row' = new /\ Step(pc, <<>>) /\ UNCHANGED faults
    \/ Fault /\ Step(pc, <<>>) /\ UNCHANGED row

First(days) == worker.last - days * Day

(* Slip: the table blocks is asked. *)
QueryStreamOfBlocks ==
    /\ At("intervals")
    /\ Query(Ready("blocks", "timestamp"), Window(stored, First(Days), worker.last), {}, "add intervals")

QueryStream ==
    /\ At("intervals")
    /\ Query(Ready("transactions", "timestamp"), Window(streamed, First(Days), worker.last), {}, "add intervals")

Late(rows) == {b \in rows : Interval(worker.last, Time(b)) = 0 /\ Chain[b].moved # <<>>}

(***************************************************************************)
(* transaction_turnover: a time after `last` is in no interval, and what   *)
(* dereferencing end() gives is any interval or none of them (0); it may   *)
(* also end the process, which is Crash.                                   *)
(***************************************************************************)
PublishIntervals ==
    /\ At("add intervals")
    /\ LET rows == worker.seen[1]
       IN  \E place \in [Late(rows) -> 0 .. Days] :
             IF "transaction_turnover" \in tables
             THEN Publish(intervals,
                          <<[rows |-> rows, last |-> worker.last, sums |-> Intervals(worker.last, rows, place)]>>,
                          "turnover")
             ELSE Step("turnover", <<>>) /\ UNCHANGED <<intervals, faults>>
    /\ UNCHANGED <<schema, meta, legacy, start, crashes, data, turnover, top, torn>>

QueryBlocks ==
    /\ At("turnover")
    /\ Query(Ready("blocks", "timestamp"), Window(stored, First(1), worker.last), {}, "add turnover")

PublishTurnover ==
    /\ At("add turnover")
    /\ IF "turnovers" \in tables THEN Publish(turnover, <<Totals(worker.seen[1])>>, "top")
       ELSE Step("top", <<>>) /\ UNCHANGED <<turnover, faults>>
    /\ UNCHANGED <<schema, meta, legacy, start, crashes, data, intervals, top, torn>>

(* wallets_top_upd makes its table and the index of it when they are missing; either may fail. *)
EnsureTop ==
    /\ At("top")
    /\ LET table == tables \cup {"wallets_top"}
           index == <<"wallets_top", "position">>
       IN  \/ tables' = table /\ indices' = indices \cup {index} /\ UNCHANGED faults
           \/ index \notin indices /\ Fault /\ tables' \in {tables, table} /\ UNCHANGED indices
    /\ Step("rank", <<>>)
    /\ UNCHANGED <<exists, meta, legacy, start, crashes, data, published>>

(* The rows of a ranking of every asset; position and asset are the id of a row. *)
TopRows(ranking) ==
    [x \in UNION {{<<i - 1, a>> : i \in DOMAIN ranking[a]} : a \in Assets} |->
        LET w == ranking[x[2]][x[1] + 1] IN [key |-> w, amount |-> balance[w][x[2]]]]

QueryTop ==
    /\ At("rank")
    /\ \E ranking \in [Assets -> UNION {Rankings(a) : a \in Assets}] :
         /\ \A a \in Assets : ranking[a] \in Rankings(a)
         /\ Query("wallets_state" \in tables, TopRows([a \in Assets |-> Cut(ranking[a])]), NoTop, "insert top")

(* Table::insert_with_replace: a row replaces the one with its id, the other rows stay. *)
InsertWithReplace(table, rows) ==
    [x \in DOMAIN rows \cup DOMAIN table |-> IF x \in DOMAIN rows THEN rows[x] ELSE table[x]]

(* The rows of a batch at the places xs. *)
RowsAt(rows, xs) == [x \in xs |-> rows[x]]

(* The row x of the batch is written, which makes the table `now`; the others are still to be written. *)
WriteRow(x, now) ==
    LET rest == RowsAt(worker.seen[1], DOMAIN worker.seen[1] \ {x})
    IN  /\ "wallets_top" \in tables
        /\ top' = now
        /\ torn' = (DOMAIN rest # {})
        /\ Step("insert top", <<rest>>)

(* Slip: a row that is there already is not replaced. *)
InsertTopKeeps ==
    /\ At("insert top")
    /\ \/ \E x \in DOMAIN worker.seen[1] : WriteRow(x, top @@ RowsAt(worker.seen[1], {x}))
       \/ /\ "wallets_top" \notin tables \/ DOMAIN worker.seen[1] = {}
          /\ worker' = Asleep
          /\ UNCHANGED <<top, torn>>
    /\ UNCHANGED <<startVars, data, turnover, intervals>>

(***************************************************************************)
(* wallets_top_upd writes its rows with one insert_with_replace, which is  *)
(* atomic for each row only: in any order, and if the query fails between  *)
(* two rows the rest of the batch is not written.  The rows beyond the     *)
(* ranking stay as they are.                                               *)
(***************************************************************************)
InsertTop ==
    /\ At("insert top")
    /\ \/ /\ \E x \in DOMAIN worker.seen[1] :
               WriteRow(x, InsertWithReplace(top, RowsAt(worker.seen[1], {x})))
          /\ UNCHANGED faults
       \/ /\ "wallets_top" \notin tables \/ DOMAIN worker.seen[1] = {}
          /\ worker' = Asleep
          /\ UNCHANGED <<top, torn, faults>>
       \/ Fault /\ worker' = Asleep /\ UNCHANGED <<top, torn>>
    /\ UNCHANGED <<schema, meta, legacy, start, crashes, data, turnover, intervals>>

Work ==
    \/ ReadNewest \/ QueryStream \/ PublishIntervals \/ QueryBlocks \/ PublishTurnover
    \/ EnsureTop \/ QueryTop \/ InsertTop

(* The process ends; the database stays. *)
Crash == CrashStart /\ worker' = Asleep /\ UNCHANGED <<data, published>>

Starting == StartNext /\ UNCHANGED <<data, worker, published>>

Next ==
    \/ Starting
    \/ \E b \in Blocks : StoreBlock(b) \/ StoreStream(b)
    \/ \E w \in Wallets : StoreState(w)
    \/ Work
    \/ Crash

Spec == Init /\ [][Next]_vars

(* The process is started again when it is down; its thread and the worker's run. *)
FairSpec == Spec /\ WF_vars(Starting) /\ WF_vars(Work)
-------------------------------------------------------------------------------
(* Properties. *)

(* Types, and what a published row is made of: rows that are stored. *)
TypeOK ==
    /\ tables \subseteq ToSet(Names) \cup {"wallets_top"}
    /\ indices \subseteq ToSet(Indices) \cup {<<"wallets_top", "position">>}
    /\ stored \subseteq Blocks /\ streamed \subseteq Blocks
    /\ worker.pc \in {"asleep", "ended", "intervals", "add intervals", "turnover", "add turnover",
                      "top", "rank", "insert top"}
    /\ Len(turnover) <= 1 /\ Len(intervals) <= 1 /\ Len(worker.seen) <= 1
    /\ intervals # <<>> => intervals[1].rows \subseteq streamed
    /\ \A x \in DOMAIN top : x \in (0 .. TopSize - 1) \X Assets /\ top[x].key \in Wallets

Sum(sums, a, field) == SumFunction([i \in DOMAIN sums |-> sums[i][a][field]])

(***************************************************************************)
(* The intervals of transaction_turnover share their ends, and the newest  *)
(* transaction lies on the last one; still every transaction of the window *)
(* is counted in one interval and in no second one, and so is what it      *)
(* moves.  Only those later than the newest block, stored since, may be    *)
(* counted or not.                                                         *)
(***************************************************************************)
IntervalsPartition ==
    intervals # <<>> =>
      LET r == intervals[1]
      IN  \A a \in Assets, field \in {"count", "amount"} :
            /\ Totals({b \in r.rows : Time(b) <= r.last})[a][field] <= Sum(r.sums, a, field)
            /\ Sum(r.sums, a, field) <= Totals(r.rows)[a][field]

(***************************************************************************)
(* No wallet is twice among the top of an asset, although each round only  *)
(* writes over the positions it has, and a round may be skipped.  Two      *)
(* exceptions: some wallet has lost an asset, which makes a ranking        *)
(* shorter and leaves the rows behind its end as they were; and between    *)
(* two rows of a batch, or after a batch that failed there, wallets that   *)
(* trade places are shown twice until a later batch is written whole.      *)
(***************************************************************************)
TopDistinct ==
    ~lost /\ ~torn => \A x, y \in DOMAIN top : x[2] = y[2] /\ x # y => top[x].key # top[y].key

(* The blocks the statistics should count, and the interval of each. *)
Newest == Time(Max(stored))
Recent(rows, days) == {b \in rows : Time(b) >= Newest - days * Day}
Bin(t) ==
    IF t = Newest - Days * Day THEN 1 ELSE Days - (Newest - t) \div Day

TurnoverCurrent  == turnover = <<Totals(Recent(stored, 1))>>
IntervalsCurrent ==
    (\A b \in streamed : Time(b) <= Newest) =>
      /\ intervals # <<>>
      /\ intervals[1].sums = [i \in 1 .. Days |-> Totals({b \in Recent(streamed, Days) : Bin(Time(b)) = i})]
(* Wallets with the same balance may trade places in every round, so a place tells which balance it shows. *)
TopCurrent ==
    \A a \in Assets : \E s \in Rankings(a) : \A i \in DOMAIN Cut(s) :
      /\ <<i - 1, a>> \in DOMAIN top
      /\ LET row == top[<<i - 1, a>>]
         IN  /\ row.amount = balance[s[i]][a]
             /\ row.key \in Holders(a) /\ balance[row.key][a] = row.amount

(***************************************************************************)
(* Once the tables rest, the published statistics come to be those of the  *)
(* stored blocks, stream and wallet states and stay so, after rounds in    *)
(* which queries failed and zeros were published too; unless the worker    *)
(* has ended or a query failed during the start of the process.            *)
(***************************************************************************)
StatisticsCurrent ==
    <>[](\/ ~Running \/ start.failed \/ worker.pc = "ended"
         \/ TurnoverCurrent /\ IntervalsCurrent /\ TopCurrent)
===============================================================================
