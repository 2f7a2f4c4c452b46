--------------------------- MODULE StatisticsProofs ---------------------------
(***************************************************************************)
(* Theorems about the start of the indexer and its statistics worker, for  *)
(* every chain, every finite set of wallets, every size of the ranking and *)
(* however often the process crashes or its queries fail.                  *)
(***************************************************************************)
EXTENDS Statistics, StartProofs, FiniteSetTheorems

WorkerPcs == {"asleep", "ended", "intervals", "add intervals", "turnover", "add turnover",
              "top", "rank", "insert top"}

(* Rows of wallets_top: a place below the size of the ranking, and a wallet. *)
TopRowsOK(rows) ==
    \A x \in DOMAIN rows : x \in (0 .. TopSize - 1) \X Assets /\ rows[x].key \in Wallets

(* What the worker carries from a query to the update that follows it. *)
SeenOK ==
    /\ worker.pc = "add intervals" => worker.seen # <<>> /\ worker.seen[1] \subseteq streamed
    /\ worker.pc = "add turnover" => worker.seen # <<>>
    /\ worker.pc = "insert top" => worker.seen # <<>> /\ TopRowsOK(worker.seen[1])

DataOK ==
    /\ stored \subseteq Blocks /\ streamed \subseteq Blocks
    /\ balance = [w \in Wallets |-> balance[w]]
    /\ lost \in BOOLEAN

PublishedOK ==
    /\ Len(turnover) <= 1 /\ Len(intervals) <= 1
    /\ intervals # <<>> => intervals[1].rows \subseteq streamed
    /\ TopRowsOK(top) /\ torn \in BOOLEAN

WorkerOK ==
    /\ worker = [pc |-> worker.pc, last |-> worker.last, seen |-> worker.seen]
    /\ worker.pc \in WorkerPcs
    /\ Len(worker.seen) <= 1
    /\ SeenOK

TypeInv == StartInv /\ DataOK /\ PublishedOK /\ WorkerOK

(* No wallet is twice among the rows of an asset. *)
Distinct(rows) ==
    \A x, y \in DOMAIN rows : x[2] = y[2] /\ x # y => rows[x].key # rows[y].key

(* The rows are no more than the wallets that hold the asset. *)
Covered(rows) == \A x \in DOMAIN rows : x[1] < Cardinality(Holders(x[2]))

(* Once the rows are written the table has no wallet twice. *)
WillBeDistinct(table, rows) == DOMAIN rows # {} => Distinct(InsertWithReplace(table, rows))

(***************************************************************************)
(* While no wallet has lost an asset the rows of wallets_top are no more   *)
(* than the wallets that hold it, so the ranking the worker has read       *)
(* covers all of them, unless its query failed: what is still to be        *)
(* written of it makes the table distinct, however much of it is.          *)
(***************************************************************************)
TopInv ==
    ~lost => /\ Covered(top) /\ (~torn => Distinct(top))
             /\ worker.pc = "insert top" =>
                  Covered(worker.seen[1]) /\ WillBeDistinct(top, worker.seen[1])

-------------------------------------------------------------------------------
(* An empty table has no row that could be wrong. *)
LEMMA NoTopFacts == TopRowsOK(NoTop) /\ Distinct(NoTop) /\ DOMAIN NoTop = {}
BY DEF TopRowsOK, Distinct, NoTop

(***************************************************************************)
(* insert_with_replace: rows for every place of the table leave just them; *)
(* and writing one row and then the rest is writing all of them.           *)
(***************************************************************************)
LEMMA WriteAll ==
    ASSUME NEW table, NEW rows, DOMAIN table \subseteq DOMAIN rows, Distinct(rows)
    PROVE  Distinct(InsertWithReplace(table, rows))
<1> DEFINE new == InsertWithReplace(table, rows)
<1>1. DOMAIN new = DOMAIN rows /\ \A x \in DOMAIN rows : new[x] = rows[x]
  BY DEF InsertWithReplace
<1> HIDE DEF new
<1>2. Distinct(new)
  BY <1>1 DEF Distinct
<1> QED
  BY <1>2 DEF new

Written(table, rows, x, rest, now) ==
    /\ DOMAIN rest = DOMAIN rows \ {x} /\ \A y \in DOMAIN rest : rest[y] = rows[y]
    /\ DOMAIN now = DOMAIN table \cup {x} /\ now[x] = rows[x]
    /\ \A y \in DOMAIN table \ {x} : now[y] = table[y]
    /\ InsertWithReplace(now, rest) = InsertWithReplace(table, rows)
    /\ DOMAIN rest = {} => now = InsertWithReplace(table, rows)

LEMMA WriteOne ==
    ASSUME NEW table, NEW rows, NEW x \in DOMAIN rows
    PROVE  Written(table, rows, x, RowsAt(rows, DOMAIN rows \ {x}), InsertWithReplace(table, RowsAt(rows, {x})))
<1> DEFINE one  == RowsAt(rows, {x})
           rest == RowsAt(rows, DOMAIN rows \ {x})
           now  == InsertWithReplace(table, one)
           all  == InsertWithReplace(table, rows)
           then == InsertWithReplace(now, rest)
<1>1. DOMAIN one = {x} /\ one[x] = rows[x]
  BY DEF RowsAt
<1>2. DOMAIN rest = DOMAIN rows \ {x} /\ \A y \in DOMAIN rest : rest[y] = rows[y]
  BY DEF RowsAt
<1> HIDE DEF one, rest
<1>3. now = [y \in DOMAIN table \cup {x} |-> IF y = x THEN rows[x] ELSE table[y]]
  <2>1. DOMAIN one \cup DOMAIN table = DOMAIN table \cup {x}
    BY <1>1
  <2> QED
    BY <1>1, <2>1 DEF InsertWithReplace
<1> HIDE DEF now
<1>4. all = [y \in DOMAIN rows \cup DOMAIN table |-> IF y \in DOMAIN rows THEN rows[y] ELSE table[y]]
  BY DEF InsertWithReplace
<1> HIDE DEF all
<1>5. then = [y \in DOMAIN rest \cup DOMAIN now |-> IF y \in DOMAIN rest THEN rest[y] ELSE now[y]]
  BY DEF InsertWithReplace
<1> HIDE DEF then
<1>6. DOMAIN rest \cup DOMAIN now = DOMAIN rows \cup DOMAIN table
  BY <1>2, <1>3
<1>7. \A y \in DOMAIN rows \cup DOMAIN table : then[y] = all[y]
  BY <1>2, <1>3, <1>4, <1>5, <1>6
<1>8. then = all
  BY <1>4, <1>5, <1>6, <1>7
<1>9. ASSUME DOMAIN rest = {} PROVE now = all
  <2>1. DOMAIN rows = {x}
    BY <1>2, <1>9
  <2> QED
    BY <1>3, <1>4, <2>1
<1>10. Written(table, rows, x, rest, now)
  BY <1>2, <1>3, <1>8, <1>9 DEF all, then, Written
<1> QED
  BY <1>10 DEF one, rest, now

LEMMA InitTypes == Init => TypeInv
<1> SUFFICES ASSUME Init PROVE TypeInv
  OBVIOUS
<1>1. StartInv
  BY StartInitially DEF Init
<1>2. DataOK
  BY DEF Init, DataOK
<1>3. PublishedOK
  <2>1. turnover = <<>> /\ intervals = <<>> /\ top = NoTop
    BY DEF Init
  <2>2. torn \in BOOLEAN
    BY DEF Init
  <2> QED
    BY <2>1, <2>2, NoTopFacts DEF PublishedOK
<1>4. WorkerOK
  BY DEF Init, WorkerOK, SeenOK, Asleep, WorkerPcs
<1> QED
  BY <1>1, <1>2, <1>3, <1>4 DEF TypeInv

(* A step that does nothing to the database but, perhaps, fail a query. *)
LEMMA DatabaseStays ==
    ASSUME StartInv, UNCHANGED <<schema, meta, legacy, start, crashes>>, UNCHANGED faults \/ Fault
    PROVE  StartInv' /\ VersionStep
BY StartRests DEF schema

(* What SMT knows of tuples, in the form Zenon needs. *)
LEMMA ShortTuples == Len(<<>>) <= 1 /\ \A x : Len(<<x>>) <= 1 /\ <<x>> # <<>> /\ <<x>>[1] = x
OBVIOUS

(* A step of the worker to a place where it carries nothing. *)
LEMMA WorkerMoves ==
    ASSUME TypeInv, NEW pc \in WorkerPcs \ {"add intervals", "add turnover", "insert top"}, Step(pc, <<>>)
    PROVE  WorkerOK' /\ worker'.pc = pc
<1>1. worker' = [pc |-> pc, last |-> worker.last, seen |-> <<>>]
  BY DEF TypeInv, WorkerOK, Step
<1>2. worker'.pc = pc /\ worker'.last = worker.last /\ worker'.seen = <<>>
  BY <1>1
<1>3. worker' = [pc |-> worker'.pc, last |-> worker'.last, seen |-> worker'.seen]
  BY <1>1
<1>4. Len(worker'.seen) <= 1
  BY <1>2, ShortTuples, Zenon
<1> QED
  BY <1>2, <1>3, <1>4 DEF WorkerOK, SeenOK

(* A step of the worker that ends a query, whose rows it carries. *)
LEMMA WorkerCarries ==
    ASSUME TypeInv, NEW pc \in WorkerPcs, NEW rows, Step(pc, <<rows>>),
           pc = "add intervals" => rows \subseteq streamed',
           pc = "insert top" => TopRowsOK(rows)
    PROVE  WorkerOK' /\ worker'.pc = pc /\ worker'.seen = <<rows>>
<1>1. worker' = [pc |-> pc, last |-> worker.last, seen |-> <<rows>>]
  BY DEF TypeInv, WorkerOK, Step
<1>2. worker'.pc = pc /\ worker'.last = worker.last /\ worker'.seen = <<rows>>
  BY <1>1
<1>3. Len(worker'.seen) <= 1 /\ worker'.seen # <<>> /\ worker'.seen[1] = rows
  BY <1>2, ShortTuples, Zenon
<1>4. SeenOK'
  BY <1>2, <1>3 DEF SeenOK, TopRowsOK
<1> QED
  BY <1>1, <1>2, <1>3, <1>4 DEF WorkerOK

LEMMA StepStoreTypes ==
    ASSUME TypeInv, NEW b \in Blocks, StoreBlock(b) \/ StoreStream(b)
    PROVE  TypeInv' /\ VersionStep
<1>1. UNCHANGED <<startVars, balance, lost, worker, published>>
  BY DEF StoreBlock, StoreStream
<1>2. UNCHANGED <<schema, meta, legacy, start, crashes, faults>>
  BY <1>1 DEF startVars
<1>3. StartInv' /\ VersionStep
  BY <1>2, DatabaseStays DEF TypeInv
<1>4. streamed \subseteq streamed' /\ DataOK'
  BY <1>1 DEF StoreBlock, StoreStream, TypeInv, DataOK
<1>5. PublishedOK'
  BY <1>1, <1>4 DEF published, TypeInv, PublishedOK
<1>6. WorkerOK'
  BY <1>1, <1>4 DEF TypeInv, WorkerOK, SeenOK
<1> QED
  BY <1>3, <1>4, <1>5, <1>6 DEF TypeInv

LEMMA StepStoreStateTypes ==
    ASSUME TypeInv, NEW w \in Wallets, StoreState(w)
    PROVE  TypeInv' /\ VersionStep
<1>1. UNCHANGED <<startVars, stored, streamed, worker, published>>
  BY DEF StoreState
<1>2. UNCHANGED <<schema, meta, legacy, start, crashes, faults>>
  BY <1>1 DEF startVars
<1>3. StartInv' /\ VersionStep
  BY <1>2, DatabaseStays DEF TypeInv
<1>4. DataOK'
  BY <1>1 DEF StoreState, TypeInv, DataOK
<1>5. PublishedOK' /\ WorkerOK'
  BY <1>1 DEF published, TypeInv, PublishedOK, WorkerOK, SeenOK
<1> QED
  BY <1>3, <1>4, <1>5 DEF TypeInv

(* A query of the worker: it changes its own place only. *)
LEMMA StepQueryTypes ==
    ASSUME TypeInv, NEW ready, NEW rows, NEW none, NEW pc \in WorkerPcs, Query(ready, rows, none, pc),
           pc = "add intervals" => rows \subseteq streamed /\ none \subseteq streamed,
           pc = "insert top" => TopRowsOK(rows) /\ TopRowsOK(none)
    PROVE  /\ TypeInv' /\ VersionStep
           /\ UNCHANGED <<data, published>>
           /\ worker'.pc = pc /\ worker'.seen \in {<<rows>>, <<none>>}
<1>1. UNCHANGED <<schema, meta, legacy, start, crashes, data, published>> /\ (UNCHANGED faults \/ Fault)
  BY DEF Query
<1>2. StartInv' /\ VersionStep
  BY <1>1, DatabaseStays DEF TypeInv
<1>3. DataOK' /\ PublishedOK' /\ streamed' = streamed
  BY <1>1 DEF data, published, TypeInv, DataOK, PublishedOK
<1>4. Step(pc, <<rows>>) \/ Step(pc, <<none>>)
  BY DEF Query
<1>5. WorkerOK' /\ worker'.pc = pc /\ worker'.seen \in {<<rows>>, <<none>>}
  <2>1. CASE Step(pc, <<rows>>)
    BY <1>3, <2>1, WorkerCarries
  <2>2. CASE Step(pc, <<none>>)
    BY <1>3, <2>2, WorkerCarries
  <2> QED
    BY <1>4, <2>1, <2>2
<1> QED
  BY <1>1, <1>2, <1>3, <1>5 DEF TypeInv

LEMMA StepReadNewestTypes == ASSUME TypeInv, ReadNewest PROVE TypeInv' /\ VersionStep
<1>1. UNCHANGED <<schema, meta, legacy, start, crashes, data, published>> /\ (UNCHANGED faults \/ Fault)
  BY DEF ReadNewest
<1>2. StartInv' /\ VersionStep
  BY <1>1, DatabaseStays DEF TypeInv
<1>3. DataOK' /\ PublishedOK'
  BY <1>1 DEF data, published, TypeInv, DataOK, PublishedOK
<1>4. \/ worker' = [pc |-> "intervals", last |-> Time(Max(stored)), seen |-> <<>>]
      \/ worker' = [pc |-> "ended", last |-> 0, seen |-> <<>>]
  BY DEF ReadNewest, Asleep
<1>5. WorkerOK'
  <2>1. PICK pc \in {"intervals", "ended"}, last \in {0, Time(Max(stored))} :
          worker' = [pc |-> pc, last |-> last, seen |-> <<>>]
    BY <1>4
  <2>2. worker'.pc = pc /\ worker'.last = last /\ worker'.seen = <<>>
    BY <2>1
  <2>3. worker' = [pc |-> worker'.pc, last |-> worker'.last, seen |-> worker'.seen]
    BY <2>1
  <2>4. Len(worker'.seen) <= 1
    BY <2>2, ShortTuples, Zenon
  <2> QED
    BY <2>2, <2>3, <2>4 DEF WorkerOK, SeenOK, WorkerPcs
<1> QED
  BY <1>2, <1>3, <1>5 DEF TypeInv

LEMMA StepPublishTypes ==
    ASSUME TypeInv, PublishIntervals \/ PublishTurnover
    PROVE  TypeInv' /\ VersionStep /\ UNCHANGED <<data, top, torn>> /\ worker'.pc \in {"turnover", "top"}
<1>1. UNCHANGED <<schema, meta, legacy, start, crashes, data, top, torn>> /\ (UNCHANGED faults \/ Fault)
  BY DEF PublishIntervals, PublishTurnover, Publish
<1>2. StartInv' /\ VersionStep
  BY <1>1, DatabaseStays DEF TypeInv
<1>3. DataOK' /\ streamed' = streamed
  BY <1>1 DEF data, TypeInv, DataOK
<1>4. CASE PublishIntervals
  <2>1. UNCHANGED turnover /\ worker.pc = "add intervals"
    BY <1>4 DEF PublishIntervals, At
  <2>2. Step("turnover", <<>>)
    BY <1>4 DEF PublishIntervals, Publish
  <2>3. \/ UNCHANGED intervals
        \/ \E sums : intervals' = <<[rows |-> worker.seen[1], last |-> worker.last, sums |-> sums]>>
    BY <1>4 DEF PublishIntervals, Publish
  <2>4. PublishedOK'
    <3>1. CASE UNCHANGED intervals
      BY <1>1, <1>3, <2>1, <3>1 DEF TypeInv, PublishedOK
    <3>2. CASE intervals' # intervals
      <4>1. PICK sums : intervals' = <<[rows |-> worker.seen[1], last |-> worker.last, sums |-> sums]>>
        BY <2>3, <3>2
      <4>2. /\ Len(intervals') <= 1
            /\ intervals'[1] = [rows |-> worker.seen[1], last |-> worker.last, sums |-> sums]
        BY <4>1, ShortTuples, Zenon
      <4>3. intervals'[1].rows = worker.seen[1]
        BY <4>2
      <4>4. worker.seen[1] \subseteq streamed'
        BY <1>3, <2>1 DEF TypeInv, WorkerOK, SeenOK
      <4> QED
        BY <1>1, <2>1, <4>2, <4>3, <4>4 DEF TypeInv, PublishedOK
    <3> QED
      BY <3>1, <3>2
  <2>5. WorkerOK' /\ worker'.pc = "turnover"
    BY <2>2, WorkerMoves DEF WorkerPcs
  <2> QED
    BY <1>1, <1>2, <1>3, <2>4, <2>5 DEF TypeInv
<1>5. CASE PublishTurnover
  <2>1. UNCHANGED intervals
    BY <1>5 DEF PublishTurnover
  <2>2. Step("top", <<>>)
    BY <1>5 DEF PublishTurnover, Publish
  <2>3. UNCHANGED turnover \/ turnover' = <<Totals(worker.seen[1])>>
    BY <1>5 DEF PublishTurnover, Publish
  <2>4. PublishedOK'
    <3>1. Len(turnover') <= 1
      BY <2>3, ShortTuples, Zenon DEF TypeInv, PublishedOK
    <3> QED
      BY <1>1, <1>3, <2>1, <3>1 DEF TypeInv, PublishedOK
  <2>5. WorkerOK' /\ worker'.pc = "top"
    BY <2>2, WorkerMoves DEF WorkerPcs
  <2> QED
    BY <1>1, <1>2, <1>3, <2>4, <2>5 DEF TypeInv
<1> QED
  BY <1>4, <1>5

LEMMA StepEnsureTopTypes ==
    ASSUME TypeInv, EnsureTop PROVE TypeInv' /\ VersionStep /\ UNCHANGED <<data, published>> /\ worker'.pc = "rank"
<1>1. UNCHANGED <<exists, meta, legacy, start, crashes, data, published>> /\ (UNCHANGED faults \/ Fault)
  BY DEF EnsureTop
<1>2. /\ tables \subseteq tables' /\ tables' \subseteq tables \cup {"wallets_top"}
      /\ indices \subseteq indices' /\ indices' \subseteq indices \cup {<<"wallets_top", "position">>}
  BY DEF EnsureTop
<1>3. StartInv' /\ VersionStep
  BY <1>1, <1>2, StartRests DEF TypeInv
<1>4. DataOK' /\ PublishedOK'
  BY <1>1 DEF data, published, TypeInv, DataOK, PublishedOK
<1>5. WorkerOK' /\ worker'.pc = "rank"
  BY WorkerMoves DEF EnsureTop, WorkerPcs
<1> QED
  BY <1>1, <1>3, <1>4, <1>5 DEF TypeInv

-------------------------------------------------------------------------------
(* The ranking of an asset, cut: as many wallets as hold it, at most TopSize, none of them twice. *)
TopLen(a) == IF TopSize < Cardinality(Holders(a)) THEN TopSize ELSE Cardinality(Holders(a))

LEMMA HoldersFinite == ASSUME NEW a PROVE IsFiniteSet(Holders(a)) /\ Cardinality(Holders(a)) \in Nat
BY FS_Subset, FS_CardinalityType, StatisticsAssumption DEF Holders

LEMMA CutFacts ==
    ASSUME NEW a \in Assets, NEW s \in Rankings(a)
    PROVE  /\ TopLen(a) \in Nat /\ DOMAIN Cut(s) = 1 .. TopLen(a)
           /\ \A i \in 1 .. TopLen(a) : Cut(s)[i] \in Wallets
           /\ \A i, j \in 1 .. TopLen(a) : i # j => Cut(s)[i] # Cut(s)[j]
<1> DEFINE n == Cardinality(Holders(a))
<1>1. n \in Nat /\ TopSize \in Nat /\ TopLen(a) \in Nat /\ TopLen(a) <= n
  BY HoldersFinite, StatisticsAssumption DEF TopLen
<1>2. s \in [1 .. n -> Holders(a)] /\ \A i, j \in 1 .. n : i # j => s[i] # s[j]
  BY DEF Rankings, SetToSeqs
<1>3. s \in Seq(Holders(a)) /\ Len(s) = n
  BY <1>1, <1>2
<1>4. Cut(s) = SubSeq(s, 1, TopLen(a))
  BY <1>3 DEF Cut, TopLen
<1>5. DOMAIN Cut(s) = 1 .. TopLen(a) /\ \A i \in 1 .. TopLen(a) : Cut(s)[i] = s[i]
  BY <1>1, <1>3, <1>4
<1>6. \A i \in 1 .. TopLen(a) : i \in 1 .. n
  BY <1>1
<1> HIDE DEF n
<1>7. \A i \in 1 .. TopLen(a) : Cut(s)[i] \in Wallets
  BY <1>2, <1>5, <1>6 DEF Holders
<1> QED
  BY <1>1, <1>2, <1>5, <1>6, <1>7

(* The rows of the rankings: all the places there are wallets for, and no wallet twice. *)
LEMMA TopRowsFacts ==
    ASSUME NEW ranking, \A a \in Assets : ranking[a] \in Rankings(a),
           NEW rows, rows = TopRows([a \in Assets |-> Cut(ranking[a])])
    PROVE  /\ TopRowsOK(rows) /\ Distinct(rows) /\ Covered(rows)
           /\ \A a \in Assets : \A k \in 0 .. TopSize - 1 :
                k < Cardinality(Holders(a)) => <<k, a>> \in DOMAIN rows
<1> DEFINE cut == [a \in Assets |-> Cut(ranking[a])]
           places == UNION {{<<i - 1, a>> : i \in DOMAIN cut[a]} : a \in Assets}
<1>1. \A a \in Assets : cut[a] = Cut(ranking[a])
  OBVIOUS
<1>2. DOMAIN rows = places /\ \A x \in places : rows[x].key = cut[x[2]][x[1] + 1]
  BY DEF TopRows
<1> HIDE DEF cut
<1>3. \A x \in places : \E a \in Assets : \E i \in 1 .. TopLen(a) : x = <<i - 1, a>>
  <2> SUFFICES ASSUME NEW x \in places PROVE \E a \in Assets : \E i \in 1 .. TopLen(a) : x = <<i - 1, a>>
    OBVIOUS
  <2>1. PICK a \in Assets : \E i \in DOMAIN cut[a] : x = <<i - 1, a>>
    OBVIOUS
  <2>2. DOMAIN cut[a] = 1 .. TopLen(a)
    BY <1>1, CutFacts
  <2> QED
    BY <2>1, <2>2
<1>4. \A a \in Assets : \A i \in 1 .. TopLen(a) : <<i - 1, a>> \in places
  <2> SUFFICES ASSUME NEW a \in Assets, NEW i \in 1 .. TopLen(a) PROVE <<i - 1, a>> \in places
    OBVIOUS
  <2>1. i \in DOMAIN cut[a]
    BY <1>1, CutFacts
  <2> QED
    BY <2>1
<1> HIDE DEF places
<1>5. ASSUME NEW a \in Assets, NEW i \in 1 .. TopLen(a)
      PROVE  /\ rows[<<i - 1, a>>].key = Cut(ranking[a])[i] /\ Cut(ranking[a])[i] \in Wallets
             /\ i - 1 \in 0 .. TopSize - 1 /\ i - 1 < Cardinality(Holders(a))
             /\ \A j \in 1 .. TopLen(a) : j # i => Cut(ranking[a])[j] # Cut(ranking[a])[i]
  <2>1. TopLen(a) \in Nat /\ Cardinality(Holders(a)) \in Nat /\ TopSize \in Nat
    BY HoldersFinite, CutFacts, StatisticsAssumption
  <2>2. <<i - 1, a>>[2] = a /\ <<i - 1, a>>[1] + 1 = i
    BY <2>1
  <2>3. rows[<<i - 1, a>>].key = Cut(ranking[a])[i]
    BY <1>1, <1>2, <1>4, <2>2
  <2>4. i - 1 \in 0 .. TopSize - 1 /\ i - 1 < Cardinality(Holders(a))
    BY <2>1 DEF TopLen
  <2> QED
    BY <2>3, <2>4, CutFacts
<1>6. TopRowsOK(rows)
  BY <1>2, <1>3, <1>5 DEF TopRowsOK
<1>7. Covered(rows)
  <2> SUFFICES ASSUME NEW x \in DOMAIN rows PROVE x[1] < Cardinality(Holders(x[2]))
    BY DEF Covered
  <2>1. PICK a \in Assets : \E i \in 1 .. TopLen(a) : x = <<i - 1, a>>
    BY <1>2, <1>3
  <2>2. PICK i \in 1 .. TopLen(a) : x = <<i - 1, a>>
    BY <2>1
  <2>3. x[1] = i - 1 /\ x[2] = a
    BY <2>2
  <2> QED
    BY <1>5, <2>3
<1>8. Distinct(rows)
  <2> SUFFICES ASSUME NEW x \in DOMAIN rows, NEW y \in DOMAIN rows, x[2] = y[2], x # y
               PROVE  rows[x].key # rows[y].key
    BY DEF Distinct
  <2>1. PICK a \in Assets : \E i \in 1 .. TopLen(a) : x = <<i - 1, a>>
    BY <1>2, <1>3
  <2>2. PICK i \in 1 .. TopLen(a) : x = <<i - 1, a>>
    BY <2>1
  <2>3. PICK b \in Assets : \E j \in 1 .. TopLen(b) : y = <<j - 1, b>>
    BY <1>2, <1>3
  <2>4. PICK j \in 1 .. TopLen(b) : y = <<j - 1, b>>
    BY <2>3
  <2>5. a = b /\ i # j
    BY <2>2, <2>4
  <2> QED
    BY <1>5, <2>2, <2>4, <2>5
<1>9. \A a \in Assets : \A k \in 0 .. TopSize - 1 : k < Cardinality(Holders(a)) => <<k, a>> \in DOMAIN rows
  <2> SUFFICES ASSUME NEW a \in Assets, NEW k \in 0 .. TopSize - 1, k < Cardinality(Holders(a))
               PROVE  <<k, a>> \in places
    BY <1>2
  <2>1. Cardinality(Holders(a)) \in Nat /\ TopSize \in Nat
    BY HoldersFinite, StatisticsAssumption
  <2>2. k + 1 \in 1 .. TopLen(a) /\ (k + 1) - 1 = k
    BY <2>1 DEF TopLen
  <2> QED
    BY <1>4, <2>2
<1> QED
  BY <1>6, <1>7, <1>8, <1>9

(* A step that leaves the ranking and the balances alone and does not end their query. *)
LEMMA TopStays ==
    ASSUME TopInv, UNCHANGED <<top, torn, lost, balance>>, UNCHANGED worker \/ worker'.pc # "insert top"
    PROVE  TopInv'
<1>1. \A a : Holders(a)' = Holders(a)
  BY DEF Holders
<1> QED
  BY <1>1 DEF TopInv, Covered

LEMMA StepQueryTop ==
    ASSUME TypeInv, QueryTop PROVE TypeInv' /\ VersionStep /\ (TopInv => TopInv')
<1>1. PICK ranking \in [Assets -> UNION {Rankings(a) : a \in Assets}] :
        /\ \A a \in Assets : ranking[a] \in Rankings(a)
        /\ Query("wallets_state" \in tables, TopRows([a \in Assets |-> Cut(ranking[a])]), NoTop, "insert top")
  BY DEF QueryTop
<1> DEFINE rows == TopRows([a \in Assets |-> Cut(ranking[a])])
<1>2. /\ TopRowsOK(rows) /\ Distinct(rows) /\ Covered(rows)
      /\ \A a \in Assets : \A k \in 0 .. TopSize - 1 :
           k < Cardinality(Holders(a)) => <<k, a>> \in DOMAIN rows
  BY <1>1, TopRowsFacts
<1>3. Query("wallets_state" \in tables, rows, NoTop, "insert top")
  BY <1>1
<1> HIDE DEF rows
<1>4. /\ TypeInv' /\ VersionStep /\ UNCHANGED <<data, published>>
      /\ worker'.pc = "insert top" /\ worker'.seen \in {<<rows>>, <<NoTop>>}
  BY <1>2, <1>3, NoTopFacts, StepQueryTypes DEF WorkerPcs
<1>5. ASSUME TopInv PROVE TopInv'
  <2> SUFFICES ASSUME ~lost' PROVE TopInv'
    BY DEF TopInv
  <2>1. UNCHANGED <<top, torn, lost, balance>>
    BY <1>4 DEF data, published
  <2>2. \A a : Holders(a)' = Holders(a)
    BY <2>1 DEF Holders
  <2>3. Covered(top) /\ (~torn => Distinct(top)) /\ TopRowsOK(top)
    BY <1>5, <2>1 DEF TopInv, TypeInv, PublishedOK
  <2>4. worker'.seen[1] = rows \/ worker'.seen[1] = NoTop
    BY <1>4, ShortTuples, Zenon
  <2>5. DOMAIN top \subseteq DOMAIN rows
    <3> SUFFICES ASSUME NEW x \in DOMAIN top PROVE x \in DOMAIN rows
      OBVIOUS
    <3>1. x \in (0 .. TopSize - 1) \X Assets /\ x[1] < Cardinality(Holders(x[2]))
      BY <2>3 DEF TopRowsOK, Covered
    <3>2. x = <<x[1], x[2]>> /\ x[1] \in 0 .. TopSize - 1 /\ x[2] \in Assets
      BY <3>1
    <3> QED
      BY <1>2, <3>1, <3>2
  <2>6. Covered(top') /\ (~torn' => Distinct(top'))
    BY <2>1, <2>3
  <2>7. Covered(worker'.seen[1]) /\ WillBeDistinct(top', worker'.seen[1])
    <3>1. CASE worker'.seen[1] = NoTop
      BY <3>1, NoTopFacts DEF Covered, WillBeDistinct
    <3>2. CASE worker'.seen[1] = rows
      BY <1>2, <2>1, <2>5, <3>2, WriteAll DEF WillBeDistinct
    <3> QED
      BY <2>4, <3>1, <3>2
  <2> QED
    BY <2>2, <2>6, <2>7 DEF TopInv, Covered
<1> QED
  BY <1>4, <1>5

(* A row of the batch is written, and what is left of the batch still makes the table distinct. *)
LEMMA StepWriteRow ==
    ASSUME TypeInv, worker.pc = "insert top",
           NEW x \in DOMAIN worker.seen[1],
           WriteRow(x, InsertWithReplace(top, RowsAt(worker.seen[1], {x})))
    PROVE  /\ worker'.pc = "insert top" /\ WorkerOK' /\ TopRowsOK(top') /\ torn' \in BOOLEAN
           /\ UNCHANGED <<lost, balance>> => (TopInv => TopInv')
<1> DEFINE rows == worker.seen[1]
           one  == RowsAt(rows, {x})
           rest == RowsAt(rows, DOMAIN rows \ {x})
           now  == InsertWithReplace(top, one)
<1>1. top' = now /\ torn' = (DOMAIN rest # {}) /\ Step("insert top", <<rest>>)
  BY DEF WriteRow
<1>2. TopRowsOK(rows) /\ TopRowsOK(top)
  BY DEF TypeInv, WorkerOK, SeenOK, PublishedOK
<1>3. Written(top, rows, x, rest, now)
  BY WriteOne
<1> HIDE DEF one, rest, now
<1>4. TopRowsOK(rest) /\ TopRowsOK(now)
  BY <1>2, <1>3 DEF TopRowsOK, Written
<1>5. worker' = [pc |-> "insert top", last |-> worker.last, seen |-> <<rest>>]
  BY <1>1 DEF TypeInv, WorkerOK, Step
<1>6. worker'.pc = "insert top" /\ worker'.last = worker.last /\ worker'.seen = <<rest>>
  BY <1>5
<1>7. worker'.seen # <<>> /\ worker'.seen[1] = rest /\ Len(worker'.seen) <= 1
  BY <1>6, ShortTuples, Zenon
<1>8. WorkerOK'
  BY <1>4, <1>5, <1>6, <1>7 DEF WorkerOK, SeenOK, WorkerPcs, TopRowsOK
<1>9. ASSUME UNCHANGED <<lost, balance>>, TopInv, ~lost' PROVE TopInv'
  <2>1. \A a : Holders(a)' = Holders(a)
    BY <1>9 DEF Holders
  <2>2. Covered(top) /\ Covered(rows) /\ WillBeDistinct(top, rows)
    BY <1>9 DEF TopInv
  <2>3. Distinct(InsertWithReplace(top, rows))
    BY <2>2 DEF WillBeDistinct
  <2>4. Covered(now) /\ Covered(rest)
    BY <1>3, <2>2 DEF Covered, Written
  <2>5. WillBeDistinct(now, rest) /\ (DOMAIN rest = {} => Distinct(now))
    BY <1>3, <2>3 DEF WillBeDistinct, Written
  <2> QED
    BY <1>1, <1>6, <1>7, <2>1, <2>4, <2>5 DEF TopInv, Covered
<1> QED
  BY <1>1, <1>4, <1>6, <1>8, <1>9 DEF TopInv

LEMMA StepInsertTop ==
    ASSUME TypeInv, InsertTop
    PROVE  TypeInv' /\ VersionStep /\ (TopInv => TopInv') /\ worker'.pc \in {"asleep", "insert top"}
<1>1. /\ UNCHANGED <<schema, meta, legacy, start, crashes, data, turnover, intervals>>
      /\ UNCHANGED faults \/ Fault
      /\ worker.pc = "insert top"
  BY DEF InsertTop, At
<1>2. StartInv' /\ VersionStep
  BY <1>1, DatabaseStays DEF TypeInv
<1>3. DataOK' /\ UNCHANGED <<streamed, lost, balance>>
  BY <1>1 DEF data, TypeInv, DataOK
<1>4. CASE \E x \in DOMAIN worker.seen[1]  :
              WriteRow(x, InsertWithReplace(top, RowsAt(worker.seen[1], {x})))
  <2>1. PICK x \in DOMAIN worker.seen[1]  :
              WriteRow(x, InsertWithReplace(top, RowsAt(worker.seen[1], {x})))
    BY <1>4
  <2>2. /\ worker'.pc = "insert top" /\ WorkerOK' /\ TopRowsOK(top') /\ torn' \in BOOLEAN
        /\ TopInv => TopInv'
    BY <1>1, <1>3, <2>1, StepWriteRow
  <2>3. PublishedOK'
    BY <1>1, <1>3, <2>2 DEF TypeInv, PublishedOK, TopRowsOK
  <2> QED
    BY <1>2, <1>3, <2>2, <2>3 DEF TypeInv
<1>5. CASE worker' = Asleep /\ UNCHANGED <<top, torn>>
  <2>1. worker' = [pc |-> "asleep", last |-> 0, seen |-> <<>>]
    BY <1>5 DEF Asleep
  <2>2. worker'.pc = "asleep" /\ worker'.last = 0 /\ worker'.seen = <<>>
    BY <2>1
  <2>3. Len(worker'.seen) <= 1
    BY <2>2, ShortTuples, Zenon
  <2>4. WorkerOK'
    BY <2>1, <2>2, <2>3 DEF WorkerOK, SeenOK, WorkerPcs
  <2>5. PublishedOK'
    BY <1>1, <1>3, <1>5 DEF TypeInv, PublishedOK, TopRowsOK
  <2> QED
    BY <1>2, <1>3, <1>5, <2>2, <2>4, <2>5, TopStays DEF TypeInv
<1> QED
  BY <1>4, <1>5 DEF InsertTop

(* While no asset is lost, a wallet state adds holders only. *)
LEMMA StepStoreStateTop ==
    ASSUME TypeInv, TopInv, NEW w \in Wallets, StoreState(w) PROVE TopInv'
<1> SUFFICES ASSUME ~lost' PROVE TopInv'
  BY DEF TopInv
<1>1. UNCHANGED <<worker, top, torn>>
  BY DEF StoreState, published
<1>2. PICK as \in SUBSET Assets : \E new \in [as -> Amounts] :
        /\ balance' = [balance EXCEPT ![w] = new]
        /\ lost' = (lost \/ ~(DOMAIN balance[w] \subseteq as))
  BY DEF StoreState
<1>3. ~lost /\ DOMAIN balance[w] \subseteq DOMAIN (balance'[w]) /\ \A v \in Wallets \ {w} : balance'[v] = balance[v]
  BY <1>2 DEF TypeInv, DataOK
<1>4. \A a : Holders(a) \subseteq Holders(a)'
  BY <1>3 DEF Holders
<1>5. \A a : /\ Cardinality(Holders(a)) \in Nat /\ Cardinality(Holders(a)') \in Nat
             /\ Cardinality(Holders(a)) <= Cardinality(Holders(a)')
  <2> SUFFICES ASSUME NEW a
               PROVE  /\ Cardinality(Holders(a)) \in Nat /\ Cardinality(Holders(a)') \in Nat
                      /\ Cardinality(Holders(a)) <= Cardinality(Holders(a)')
    OBVIOUS
  <2>1. Holders(a)' \subseteq Wallets
    BY DEF Holders
  <2>2. IsFiniteSet(Holders(a)')
    BY <2>1, FS_Subset, StatisticsAssumption
  <2> QED
    BY <1>4, <2>2, FS_Subset, FS_CardinalityType
<1>6. ASSUME NEW rows, TopRowsOK(rows), Covered(rows)
      PROVE  \A x \in DOMAIN rows : x[1] < Cardinality(Holders(x[2])')
  BY <1>5, <1>6 DEF TopRowsOK, Covered
<1>7. Covered(top)' /\ (~torn => Distinct(top))
  BY <1>1, <1>3, <1>6 DEF TypeInv, PublishedOK, TopInv, Covered
<1>8. ASSUME worker.pc = "insert top"
      PROVE  Covered(worker.seen[1])' /\ WillBeDistinct(top, worker.seen[1])
  <2>1. Covered(worker.seen[1]) /\ WillBeDistinct(top, worker.seen[1]) /\ TopRowsOK(worker.seen[1])
    BY <1>3, <1>8 DEF TopInv, TypeInv, WorkerOK, SeenOK
  <2> QED
    BY <1>1, <1>6, <2>1 DEF Covered
<1> QED
  BY <1>1, <1>7, <1>8 DEF TopInv

-------------------------------------------------------------------------------
(***************************************************************************)
(* Sums.  Induction over the size of a set is done by its smallest         *)
(* counterexample: a set of naturals that is not empty has a least one.    *)
(***************************************************************************)
LEMMA LeastNumber == ASSUME NEW T, T \subseteq Nat, T # {}
                     PROVE \E m \in T : \A k \in T : m <= k
<1> DEFINE R == OpToRel(<, Nat)
<1>1. IsWellFoundedOn(R, Nat)
  BY NatLessThanWellFounded
<1>2. \A x \in Nat, y \in Nat : <<y, x>> \in R <=> y < x
  BY DEF OpToRel
<1> HIDE DEF R
<1>3. \E x \in T : \A y \in T : ~(<<y, x>> \in R)
  BY <1>1, WFMin
<1>4. PICK x \in T : \A y \in T : ~(<<y, x>> \in R)
  BY <1>3
<1>5. \A y \in T : y \in Nat /\ x \in Nat /\ ~(y < x)
  BY <1>2, <1>4
<1> QED
  BY <1>5

-------------------------------------------------------------------------------
(* The element a sum takes next, and what it is to be defined by the recursion on the sets in D. *)
Pick(s) == CHOOSE x \in s : TRUE

Sums(g, f, D) ==
    g = [s \in D |-> IF s = {} THEN 0 ELSE f[Pick(s)] + g[s \ {Pick(s)}]]

SumsAll(g, f, S) == Sums(g, f, SUBSET S)

(* The subsets of S with n elements at most. *)
UpTo(S, n) == {s \in SUBSET S : Cardinality(s) <= n}

LEMMA PickFacts ==
    ASSUME NEW S, IsFiniteSet(S), NEW s \in SUBSET S, s # {}
    PROVE  /\ Pick(s) \in s /\ s \ {Pick(s)} \in SUBSET S
           /\ IsFiniteSet(s) /\ IsFiniteSet(s \ {Pick(s)})
           /\ Cardinality(s) \in Nat \ {0}
           /\ Cardinality(s \ {Pick(s)}) = Cardinality(s) - 1
<1>1. Pick(s) \in s
  BY DEF Pick
<1>2. IsFiniteSet(s)
  BY FS_Subset
<1>3. Cardinality(s \ {Pick(s)}) = Cardinality(s) - 1 /\ IsFiniteSet(s \ {Pick(s)})
  BY <1>1, <1>2, FS_RemoveElement
<1>4. Cardinality(s) \in Nat /\ Cardinality(s \ {Pick(s)}) \in Nat
  BY <1>2, <1>3, FS_CardinalityType
<1>5. Cardinality(s) # 0
  BY <1>3, <1>4
<1> QED
  BY <1>1, <1>2, <1>3, <1>4, <1>5

(* The recursion defines a function: the smallest n for which it did not would be no such n. *)
LEMMA SumsExist == ASSUME NEW f, NEW S, IsFiniteSet(S) PROVE \E g : Sums(g, f, SUBSET S)
<1> DEFINE Bad == {n \in Nat : ~ \E g : Sums(g, f, UpTo(S, n))}
<1>1. \A s \in SUBSET S : IsFiniteSet(s) /\ Cardinality(s) \in Nat
  BY FS_Subset, FS_CardinalityType
<1>2. Bad = {}
  <2> SUFFICES ASSUME Bad # {} PROVE FALSE
    OBVIOUS
  <2>1. PICK n \in Bad : \A k \in Bad : n <= k
    BY LeastNumber, Bad \subseteq Nat
  <2>2. CASE n = 0
    <3>1. \A s \in UpTo(S, 0) : s = {}
      BY <1>1, FS_EmptySet DEF UpTo
    <3>2. Sums([s \in UpTo(S, 0) |-> 0], f, UpTo(S, 0))
      BY <3>1 DEF Sums
    <3> QED
      BY <2>1, <2>2, <3>2
  <2>3. CASE n # 0
    <3>1. n - 1 \in Nat /\ n - 1 \notin Bad
      BY <2>1, <2>3
    <3>2. PICK g : Sums(g, f, UpTo(S, n - 1))
      BY <3>1
    <3> DEFINE h == [s \in UpTo(S, n) |-> IF s = {} THEN 0 ELSE f[Pick(s)] + g[s \ {Pick(s)}]]
    <3>3. \A s \in UpTo(S, n - 1) : s \in UpTo(S, n) /\ h[s] = g[s]
      <4>1. ASSUME NEW s \in UpTo(S, n - 1) PROVE s \in UpTo(S, n)
        BY <1>1, <2>1 DEF UpTo
      <4>2. ASSUME NEW s \in UpTo(S, n - 1)
            PROVE  g[s] = IF s = {} THEN 0 ELSE f[Pick(s)] + g[s \ {Pick(s)}]
        BY <3>2 DEF Sums
      <4> QED
        BY <4>1, <4>2
    <3>4. ASSUME NEW s \in UpTo(S, n), s # {} PROVE s \ {Pick(s)} \in UpTo(S, n - 1)
      <4>1. s \in SUBSET S /\ Cardinality(s) <= n
        BY DEF UpTo
      <4>2. /\ s \ {Pick(s)} \in SUBSET S /\ Cardinality(s) \in Nat \ {0}
            /\ Cardinality(s \ {Pick(s)}) = Cardinality(s) - 1
        BY <3>4, <4>1, PickFacts
      <4> QED
        BY <2>1, <4>1, <4>2 DEF UpTo
    <3>5. ASSUME NEW s \in UpTo(S, n)
          PROVE  h[s] = IF s = {} THEN 0 ELSE f[Pick(s)] + h[s \ {Pick(s)}]
      BY <3>3, <3>4
    <3>6. h = [s \in UpTo(S, n) |-> IF s = {} THEN 0 ELSE f[Pick(s)] + h[s \ {Pick(s)}]]
      <4> DEFINE k == [s \in UpTo(S, n) |-> IF s = {} THEN 0 ELSE f[Pick(s)] + h[s \ {Pick(s)}]]
      <4>1. DOMAIN h = UpTo(S, n) /\ h = [s \in DOMAIN h |-> h[s]]
        OBVIOUS
      <4> HIDE DEF h
      <4> QED
        BY <4>1, <3>5
    <3>7. Sums(h, f, UpTo(S, n))
      BY <3>6 DEF Sums
    <3> QED
      BY <2>1, <3>7
  <2> QED
    BY <2>2, <2>3
<1>3. Cardinality(S) \in Nat /\ UpTo(S, Cardinality(S)) = SUBSET S
  BY FS_Subset, FS_CardinalityType DEF UpTo
<1>4. \E g : Sums(g, f, UpTo(S, Cardinality(S)))
  BY <1>2, <1>3
<1> QED
  BY <1>3, <1>4

(* Two functions that satisfy it agree where both are defined. *)
LEMMA SumsAgree ==
    ASSUME NEW f, NEW S, IsFiniteSet(S), NEW R \in SUBSET S,
           NEW g, SumsAll(g, f, S), NEW h, SumsAll(h, f, R)
    PROVE  g[R] = h[R]
<1> DEFINE Bad == {n \in Nat : \E s \in SUBSET R : Cardinality(s) = n /\ g[s] # h[s]}
<1>1. \A s \in SUBSET R : s \in SUBSET S /\ IsFiniteSet(s) /\ Cardinality(s) \in Nat
  BY FS_Subset, FS_CardinalityType
<1>2. Bad = {}
  <2> SUFFICES ASSUME Bad # {} PROVE FALSE
    OBVIOUS
  <2>1. PICK n \in Bad : \A k \in Bad : n <= k
    BY LeastNumber, Bad \subseteq Nat
  <2>2. PICK s \in SUBSET R : Cardinality(s) = n /\ g[s] # h[s]
    BY <2>1
  <2>3. s \in SUBSET S
    BY <2>2
  <2>4. /\ g[s] = IF s = {} THEN 0 ELSE f[Pick(s)] + g[s \ {Pick(s)}]
        /\ h[s] = IF s = {} THEN 0 ELSE f[Pick(s)] + h[s \ {Pick(s)}]
    BY <2>3 DEF Sums, SumsAll
  <2>5. s # {}
    BY <2>2, <2>4
  <2>6. s \ {Pick(s)} \in SUBSET R /\ Cardinality(s \ {Pick(s)}) \in Nat /\ Cardinality(s \ {Pick(s)}) < n
    <3>1. /\ Cardinality(s) \in Nat \ {0}
          /\ Cardinality(s \ {Pick(s)}) = Cardinality(s) - 1
      BY <2>3, <2>5, PickFacts
    <3> QED
      BY <2>2, <3>1
  <2>7. g[s \ {Pick(s)}] = h[s \ {Pick(s)}]
    BY <2>1, <2>6
  <2> QED
    BY <2>2, <2>4, <2>7
<1> QED
  BY <1>1, <1>2

(* What SumFunctionOnSet adds up, one element after the other. *)
LEMMA SumRecursion ==
    ASSUME NEW f, NEW S, IsFiniteSet(S)
    PROVE  SumFunctionOnSet(f, S) =
             IF S = {} THEN 0 ELSE f[Pick(S)] + SumFunctionOnSet(f, S \ {Pick(S)})
<1> DEFINE It(R) == CHOOSE g : Sums(g, f, SUBSET R)
<1>1. ASSUME NEW R PROVE SumFunctionOnSet(f, R) = It(R)[R]
  BY DEF SumFunctionOnSet, FoldFunctionOnSet, MapThenFoldSet, Sums, Pick
<1>2. ASSUME NEW R \in SUBSET S PROVE Sums(It(R), f, SUBSET R)
  BY SumsExist, FS_Subset
<1> HIDE DEF It
<1>3. It(S)[S] = IF S = {} THEN 0 ELSE f[Pick(S)] + It(S)[S \ {Pick(S)}]
  BY <1>2 DEF Sums
<1>4. CASE S = {}
  BY <1>1, <1>3, <1>4
<1>5. CASE S # {}
  <2>1. S \ {Pick(S)} \in SUBSET S
    OBVIOUS
  <2>2. It(S)[S \ {Pick(S)}] = It(S \ {Pick(S)})[S \ {Pick(S)}]
    <3>1. Sums(It(S), f, SUBSET S) /\ Sums(It(S \ {Pick(S)}), f, SUBSET (S \ {Pick(S)}))
      BY <1>2, <2>1
    <3>2. PICK R, g, h : R = S \ {Pick(S)} /\ g = It(S) /\ h = It(S \ {Pick(S)})
      OBVIOUS
    <3>3. R \in SUBSET S
      BY <2>1, <3>2
    <3>4. SumsAll(g, f, S)
      BY <3>1, <3>2 DEF SumsAll
    <3>5. SumsAll(h, f, R)
      BY <3>1, <3>2 DEF SumsAll
    <3>6. g[R] = h[R]
      BY <3>3, <3>4, <3>5, SumsAgree
    <3> QED
      BY <3>2, <3>6
  <2> QED
    BY <1>1, <1>3, <1>5, <2>2
<1> QED
  BY <1>4, <1>5

(* It is a natural number. *)
LEMMA SumIsNat ==
    ASSUME NEW f, NEW S, IsFiniteSet(S), \A x \in S : f[x] \in Nat
    PROVE  SumFunctionOnSet(f, S) \in Nat
<1> DEFINE Bad == {n \in Nat : \E s \in SUBSET S : Cardinality(s) = n /\ SumFunctionOnSet(f, s) \notin Nat}
<1>1. Bad = {}
  <2> SUFFICES ASSUME Bad # {} PROVE FALSE
    OBVIOUS
  <2>1. PICK n \in Bad : \A k \in Bad : n <= k
    BY LeastNumber, Bad \subseteq Nat
  <2>2. PICK s \in SUBSET S : Cardinality(s) = n /\ SumFunctionOnSet(f, s) \notin Nat
    BY <2>1
  <2>3. IsFiniteSet(s)
    BY FS_Subset
  <2>4. s # {} /\ SumFunctionOnSet(f, s) = f[Pick(s)] + SumFunctionOnSet(f, s \ {Pick(s)})
    BY <2>2, <2>3, SumRecursion
  <2>5. /\ Pick(s) \in S /\ s \ {Pick(s)} \in SUBSET S
        /\ Cardinality(s) \in Nat \ {0} /\ Cardinality(s \ {Pick(s)}) = Cardinality(s) - 1
    BY <2>4, PickFacts
  <2>6. SumFunctionOnSet(f, s \ {Pick(s)}) \in Nat
    BY <2>1, <2>2, <2>5
  <2> QED
    BY <2>2, <2>4, <2>5, <2>6
<1>2. Cardinality(S) \in Nat
  BY FS_CardinalityType
<1> QED
  BY <1>1, <1>2

(* Any element can be added last. *)
LEMMA SumTakesOut ==
    ASSUME NEW f, NEW S, IsFiniteSet(S), \A x \in S : f[x] \in Nat, NEW x \in S
    PROVE  SumFunctionOnSet(f, S) = f[x] + SumFunctionOnSet(f, S \ {x})
<1> DEFINE Differs(s) == \E y \in s : SumFunctionOnSet(f, s) # f[y] + SumFunctionOnSet(f, s \ {y})
           Bad == {n \in Nat : \E s \in SUBSET S : Cardinality(s) = n /\ Differs(s)}
<1>1. Bad = {}
  <2> SUFFICES ASSUME Bad # {} PROVE FALSE
    OBVIOUS
  <2>1. PICK n \in Bad : \A k \in Bad : n <= k
    BY LeastNumber, Bad \subseteq Nat
  <2>2. PICK s \in SUBSET S : Cardinality(s) = n /\ Differs(s)
    BY <2>1
  <2>3. PICK y \in s : SumFunctionOnSet(f, s) # f[y] + SumFunctionOnSet(f, s \ {y})
    BY <2>2
  <2> DEFINE c == Pick(s)
  <2>4. IsFiniteSet(s) /\ s # {}
    BY <2>3, FS_Subset
  <2>5. /\ c \in s /\ s \ {c} \in SUBSET S
        /\ Cardinality(s) \in Nat \ {0} /\ Cardinality(s \ {c}) = Cardinality(s) - 1
    BY <2>4, PickFacts
  <2>6. SumFunctionOnSet(f, s) = f[c] + SumFunctionOnSet(f, s \ {c})
    BY <2>4, SumRecursion
  <2>7. Cardinality(s \ {y}) = Cardinality(s) - 1 /\ s \ {y} \in SUBSET S
    BY <2>4, FS_RemoveElement
  <2> HIDE DEF c
  <2>8. y # c
    BY <2>3, <2>6
  <2>9. ~Differs(s \ {c}) /\ ~Differs(s \ {y})
    <3>1. n - 1 \in Nat /\ n - 1 \notin Bad
      BY <2>1, <2>2, <2>5
    <3>2. Cardinality(s \ {c}) = n - 1 /\ Cardinality(s \ {y}) = n - 1
      BY <2>2, <2>5, <2>7
    <3> HIDE DEF Differs
    <3> QED
      BY <2>5, <2>7, <3>1, <3>2
  <2> DEFINE rest == SumFunctionOnSet(f, (s \ {c}) \ {y})
  <2>10. SumFunctionOnSet(f, s \ {c}) = f[y] + rest
    BY <2>8, <2>9
  <2>11. SumFunctionOnSet(f, s \ {y}) = f[c] + rest
    <3>1. (s \ {y}) \ {c} = (s \ {c}) \ {y}
      OBVIOUS
    <3> QED
      BY <2>5, <2>8, <2>9, <3>1
  <2>12. rest \in Nat
    <3>1. (s \ {c}) \ {y} \in SUBSET S
      OBVIOUS
    <3> QED
      BY <3>1, SumIsNat, FS_Subset
  <2> HIDE DEF rest
  <2>13. f[c] \in Nat /\ f[y] \in Nat
    BY <2>5
  <2> QED
    BY <2>3, <2>6, <2>10, <2>11, <2>12, <2>13
<1>2. Cardinality(S) \in Nat
  BY FS_CardinalityType
<1>3. ~Differs(S)
  BY <1>1, <1>2
<1> QED
  BY <1>3

(* The sums of two sets without a common element add up. *)
LEMMA SumOfUnion ==
    ASSUME NEW f, NEW S, IsFiniteSet(S), \A x \in S : f[x] \in Nat,
           NEW A \in SUBSET S, NEW B \in SUBSET S, A \cap B = {}
    PROVE  SumFunctionOnSet(f, A \cup B) = SumFunctionOnSet(f, A) + SumFunctionOnSet(f, B)
<1> DEFINE Differs(s) == /\ s \cap B = {}
                         /\ SumFunctionOnSet(f, s \cup B) # SumFunctionOnSet(f, s) + SumFunctionOnSet(f, B)
           Bad == {n \in Nat : \E s \in SUBSET S : Cardinality(s) = n /\ Differs(s)}
<1>0. \A s \in SUBSET S : /\ IsFiniteSet(s) /\ Cardinality(s) \in Nat /\ SumFunctionOnSet(f, s) \in Nat
                          /\ \A x \in s : f[x] \in Nat
  BY SumIsNat, FS_Subset, FS_CardinalityType
<1>1. Bad = {}
  <2> SUFFICES ASSUME Bad # {} PROVE FALSE
    OBVIOUS
  <2>1. PICK n \in Bad : \A k \in Bad : n <= k
    BY LeastNumber, Bad \subseteq Nat
  <2>2. PICK s \in SUBSET S : Cardinality(s) = n /\ Differs(s)
    BY <2>1
  <2>3. s # {}
    <3> SUFFICES ASSUME s = {} PROVE FALSE
      OBVIOUS
    <3>1. SumFunctionOnSet(f, s) = 0 /\ s \cup B = B
      BY <1>0, SumRecursion
    <3> QED
      BY <1>0, <2>2, <3>1
  <2>4. PICK x \in s : TRUE
    BY <2>3
  <2>5. Cardinality(s \ {x}) = Cardinality(s) - 1 /\ s \ {x} \in SUBSET S /\ (s \ {x}) \cap B = {}
    BY <1>0, <2>2, <2>4, FS_RemoveElement
  <2>6. SumFunctionOnSet(f, s) = f[x] + SumFunctionOnSet(f, s \ {x})
    BY <1>0, <2>4, SumTakesOut
  <2>7. SumFunctionOnSet(f, s \cup B) = f[x] + SumFunctionOnSet(f, (s \ {x}) \cup B)
    <3>1. s \cup B \in SUBSET S /\ x \in s \cup B /\ (s \cup B) \ {x} = (s \ {x}) \cup B
      BY <2>2, <2>4
    <3>2. IsFiniteSet(s \cup B) /\ \A y \in s \cup B : f[y] \in Nat
      BY <1>0, <3>1
    <3>3. SumFunctionOnSet(f, s \cup B) = f[x] + SumFunctionOnSet(f, (s \cup B) \ {x})
      BY <3>1, <3>2, SumTakesOut
    <3> QED
      BY <3>1, <3>3
  <2>8. ~Differs(s \ {x})
    <3>1. Cardinality(s \ {x}) \in Nat /\ Cardinality(s) \in Nat
      BY <1>0, <2>5
    <3>2. Cardinality(s \ {x}) = n - 1
      BY <2>2, <2>5
    <3>3. n \in Nat /\ n - 1 \in Nat
      BY <2>1, <3>1, <3>2
    <3> HIDE DEF Bad
    <3>4. n - 1 \notin Bad
      BY <2>1, <3>3
    <3> USE DEF Bad
    <3> HIDE DEF Differs
    <3> QED
      BY <2>5, <3>2, <3>3, <3>4
  <2>9. SumFunctionOnSet(f, (s \ {x}) \cup B) = SumFunctionOnSet(f, s \ {x}) + SumFunctionOnSet(f, B)
    BY <2>5, <2>8
  <2>10. f[x] \in Nat /\ SumFunctionOnSet(f, s \ {x}) \in Nat /\ SumFunctionOnSet(f, B) \in Nat
    BY <1>0, <2>4, <2>5
  <2> QED
    BY <2>2, <2>6, <2>7, <2>9, <2>10
<1>2. ~Differs(A)
  BY <1>0, <1>1
<1> QED
  BY <1>2

(* More elements, no smaller a sum. *)
LEMMA SumGrows ==
    ASSUME NEW f, NEW S, IsFiniteSet(S), \A x \in S : f[x] \in Nat,
           NEW A \in SUBSET S
    PROVE  SumFunctionOnSet(f, A) <= SumFunctionOnSet(f, S)
<1>1. S \ A \in SUBSET S /\ A \cap (S \ A) = {} /\ A \cup (S \ A) = S
  OBVIOUS
<1>2. SumFunctionOnSet(f, A \cup (S \ A)) = SumFunctionOnSet(f, A) + SumFunctionOnSet(f, S \ A)
  BY <1>1, SumOfUnion
<1>3. SumFunctionOnSet(f, A) \in Nat /\ SumFunctionOnSet(f, S \ A) \in Nat
  BY <1>1, SumIsNat, FS_Subset
<1>4. SumFunctionOnSet(f, S) = SumFunctionOnSet(f, A) + SumFunctionOnSet(f, S \ A)
  BY <1>1, <1>2
<1> QED
  BY <1>3, <1>4

(* The last of the first k numbers is added last. *)
LEMMA SumToNext ==
    ASSUME NEW f, NEW k \in Nat \ {0}, \A i \in 1 .. k : f[i] \in Nat
    PROVE  SumFunctionOnSet(f, 1 .. k) = f[k] + SumFunctionOnSet(f, 1 .. (k - 1))
<1> DEFINE ks == 1 .. k
<1>1. k \in ks /\ ks \ {k} = 1 .. (k - 1) /\ \A i \in ks : f[i] \in Nat
  OBVIOUS
<1>2. IsFiniteSet(ks)
  BY FS_Interval
<1> HIDE DEF ks
<1>3. SumFunctionOnSet(f, ks) = f[k] + SumFunctionOnSet(f, ks \ {k})
  BY <1>1, <1>2, SumTakesOut
<1> QED
  BY <1>1, <1>3 DEF ks

(* The i-th part of S by the function `of`, and the first n parts. *)
PartOf(S, of, i)  == {x \in S : of[x] = i}
PartsTo(S, of, n) == {x \in S : of[x] \in 1 .. n}

(* The sums of the parts. *)
AreSums(parts, f, S, of, n) ==
    DOMAIN parts = 1 .. n /\ \A i \in 1 .. n : parts[i] = SumFunctionOnSet(f, PartOf(S, of, i))

(* A sum taken part by part: what lies in no part is left out, and nothing is added twice. *)
LEMMA SumOfParts ==
    ASSUME NEW f, NEW S, IsFiniteSet(S), \A x \in S : f[x] \in Nat, NEW n \in Nat,
           NEW of, NEW parts, AreSums(parts, f, S, of, n)
    PROVE  SumFunction(parts) = SumFunctionOnSet(f, PartsTo(S, of, n))
<1> DEFINE Part(i) == PartOf(S, of, i)
           Parts(k) == PartsTo(S, of, k)
           Bad == {k \in 0 .. n : SumFunctionOnSet(parts, 1 .. k) # SumFunctionOnSet(f, Parts(k))}
<1>1. \A s \in SUBSET S : IsFiniteSet(s) /\ SumFunctionOnSet(f, s) \in Nat
  BY SumIsNat, FS_Subset
<1>2. \A i \in 1 .. n : parts[i] = SumFunctionOnSet(f, Part(i)) /\ parts[i] \in Nat
  BY <1>1 DEF AreSums, PartOf
<1>3. Bad = {}
  <2> SUFFICES ASSUME Bad # {} PROVE FALSE
    OBVIOUS
  <2>1. PICK k \in Bad : \A j \in Bad : k <= j
    BY LeastNumber, Bad \subseteq Nat
  <2>2. k \in 0 .. n /\ SumFunctionOnSet(parts, 1 .. k) # SumFunctionOnSet(f, Parts(k))
    BY <2>1
  <2>3. CASE k = 0
    <3>1. 1 .. k = {} /\ Parts(k) = {}
      BY <2>3 DEF PartsTo
    <3>2. \A g : SumFunctionOnSet(g, {}) = 0
      BY SumRecursion, FS_EmptySet
    <3> QED
      BY <2>2, <3>1, <3>2
  <2>4. CASE k # 0
    <3>1. k - 1 \in 0 .. n /\ k \in 1 .. n
      BY <2>2, <2>4
    <3>2. SumFunctionOnSet(parts, 1 .. (k - 1)) = SumFunctionOnSet(f, Parts(k - 1))
      <4>1. k - 1 \notin Bad
        BY <2>1, <2>2, <3>1
      <4> QED
        BY <3>1, <4>1
    <3>3. SumFunctionOnSet(parts, 1 .. k) = parts[k] + SumFunctionOnSet(parts, 1 .. (k - 1))
      <4>1. \A i \in 1 .. k : i \in 1 .. n
        BY <3>1
      <4>2. k \in Nat \ {0}
        BY <3>1
      <4>3. \A i \in 1 .. k : parts[i] \in Nat
        BY <1>2, <4>1
      <4> QED
        BY <4>2, <4>3, SumToNext
    <3>4. /\ Part(k) \in SUBSET S /\ Parts(k - 1) \in SUBSET S
          /\ Part(k) \cap Parts(k - 1) = {} /\ Part(k) \cup Parts(k - 1) = Parts(k)
      BY <3>1 DEF PartOf, PartsTo
    <3> HIDE DEF Part, Parts
    <3>5. SumFunctionOnSet(f, Parts(k)) = SumFunctionOnSet(f, Part(k)) + SumFunctionOnSet(f, Parts(k - 1))
      <4>1. SumFunctionOnSet(f, Part(k) \cup Parts(k - 1))
              = SumFunctionOnSet(f, Part(k)) + SumFunctionOnSet(f, Parts(k - 1))
        BY <3>4, SumOfUnion
      <4> QED
        BY <3>4, <4>1
    <3> QED
      BY <1>2, <2>2, <3>1, <3>2, <3>3, <3>5
  <2> QED
    BY <2>3, <2>4
<1>4. n \in 0 .. n
  OBVIOUS
<1>5. SumFunctionOnSet(parts, 1 .. n) = SumFunctionOnSet(f, Parts(n))
  BY <1>3, <1>4
<1> QED
  BY <1>5 DEF SumFunction, AreSums

-------------------------------------------------------------------------------
(* What a field of Totals adds up. *)
Moving(a, field) ==
    IF field = "count" THEN [b \in Blocks |-> CountOf(b, a)] ELSE [b \in Blocks |-> AmountOf(b, a)]

Fields == {"count", "amount"}

LEMMA ChainFacts ==
    /\ Blocks = 1 .. Len(Chain) /\ Len(Chain) \in Nat /\ IsFiniteSet(Blocks)
    /\ \A b \in Blocks : Time(b) \in Nat /\ Chain[b].moved \in Seq(Nat \X Nat)
    /\ Days \in Nat /\ Day \in Nat /\ Days > 0
<1> DEFINE Entries == [time : Nat, moved : Seq(Nat \X Nat)]
<1>1. Chain \in Seq(Entries) /\ Days \in Nat /\ Day \in Nat /\ Days > 0
  BY StatisticsAssumption
<1>2. \A e \in Entries : e.time \in Nat /\ e.moved \in Seq(Nat \X Nat)
  OBVIOUS
<1> HIDE DEF Entries
<1>3. Blocks = 1 .. Len(Chain) /\ Len(Chain) \in Nat /\ \A b \in Blocks : Chain[b] \in Entries
  BY <1>1 DEF Blocks
<1>4. IsFiniteSet(Blocks)
  BY <1>3, FS_Interval
<1> QED
  BY <1>1, <1>2, <1>3, <1>4 DEF Time

LEMMA MovingFacts ==
    ASSUME NEW a \in Assets, NEW field \in Fields
    PROVE  /\ \A b \in Blocks : Moving(a, field)[b] \in Nat
           /\ \A rows : Totals(rows)[a][field] = SumFunctionOnSet(Moving(a, field), rows)
<1>1. ASSUME NEW b \in Blocks PROVE CountOf(b, a) \in Nat /\ AmountOf(b, a) \in Nat
  <2> DEFINE moved == Chain[b].moved
             amounts == [i \in DOMAIN moved |-> moved[i][2]]
  <2>1. moved \in Seq(Nat \X Nat)
    BY <1>1, ChainFacts
  <2>2. DOMAIN moved = 1 .. Len(moved) /\ Len(moved) \in Nat /\ \A i \in DOMAIN moved : moved[i][2] \in Nat
    BY <2>1
  <2>3. Moves(b, a) \subseteq DOMAIN moved /\ IsFiniteSet(DOMAIN moved)
    BY <2>2, FS_Interval DEF Moves
  <2>4. IsFiniteSet(Moves(b, a)) /\ CountOf(b, a) \in Nat
    BY <2>3, FS_Subset, FS_CardinalityType DEF CountOf
  <2>5. \A i \in Moves(b, a) : amounts[i] \in Nat
    BY <2>2, <2>3
  <2> HIDE DEF amounts
  <2>6. SumFunctionOnSet(amounts, Moves(b, a)) \in Nat
    BY <2>4, <2>5, SumIsNat
  <2> QED
    BY <2>4, <2>6 DEF AmountOf, amounts
<1>2. \A b \in Blocks : Moving(a, field)[b] \in Nat
  BY <1>1 DEF Moving
<1>3. ASSUME NEW rows PROVE Totals(rows)[a][field] = SumFunctionOnSet(Moving(a, field), rows)
  <2>1. Totals(rows)[a] = [count  |-> SumFunctionOnSet([b \in Blocks |-> CountOf(b, a)], rows),
                           amount |-> SumFunctionOnSet([b \in Blocks |-> AmountOf(b, a)], rows)]
    BY DEF Totals
  <2>2. CASE field = "count"
    BY <2>1, <2>2 DEF Moving
  <2>3. CASE field = "amount"
    BY <2>1, <2>3 DEF Moving
  <2> QED
    BY <2>2, <2>3 DEF Fields
<1> QED
  BY <1>2, <1>3

(* interval_map: a time of the window up to `last` lies in an interval; no time lies beyond the last. *)
LEMMA IntervalFacts ==
    ASSUME NEW last \in Nat, NEW t \in Nat
    PROVE  /\ Interval(last, t) \in 0 .. Days
           /\ last - Days * Day <= t /\ t <= last => Interval(last, t) \in 1 .. Days
<1> DEFINE is == {i \in 1 .. Days : Holds(last, i, t)}
           ends == {i \in 1 .. Days : t <= Begin(last, i + 1)}
<1>0. Days \in Nat /\ Day \in Nat /\ Days > 0
  BY StatisticsAssumption
<1>1. is # {} => Min(is) \in is
  <2> SUFFICES ASSUME is # {} PROVE Min(is) \in is
    OBVIOUS
  <2>1. \E m \in is : \A k \in is : m <= k
    BY <1>0, LeastNumber, is \subseteq Nat
  <2> HIDE DEF is
  <2> QED
    BY <2>1 DEF Min
<1>2. Interval(last, t) = IF is = {} THEN 0 ELSE Min(is)
  BY DEF Interval
<1>3. ASSUME last - Days * Day <= t, t <= last PROVE is # {}
  <2>1. /\ \A i \in 1 .. Days + 1 : Begin(last, i) \in Int
        /\ Begin(last, 1) = last - Days * Day /\ Begin(last, Days + 1) = last
    BY <1>0 DEF Begin
  <2>2. Days \in ends /\ ends \subseteq Nat
    BY <1>0, <1>3, <2>1
  <2>3. PICK m \in ends : \A k \in ends : m <= k
    BY <2>2, LeastNumber
  <2>4. m \in 1 .. Days /\ t <= Begin(last, m + 1)
    BY <2>3
  <2>5. Begin(last, m) <= t
    <3>1. CASE m = 1
      BY <1>3, <2>1, <3>1
    <3>2. CASE m # 1
      <4>1. m - 1 \in 1 .. Days /\ m - 1 \notin ends /\ (m - 1) + 1 = m /\ m \in 1 .. Days + 1
        BY <1>0, <2>3, <2>4, <3>2
      <4>2. ~(t <= Begin(last, m))
        BY <4>1
      <4>3. Begin(last, m) \in Int
        BY <2>1, <4>1
      <4> QED
        BY <4>2, <4>3
    <3> QED
      BY <3>1, <3>2
  <2> QED
    BY <2>4, <2>5 DEF Holds
<1> QED
  BY <1>0, <1>1, <1>2, <1>3

(* transaction_turnover: its intervals count what is no later than the newest block, once. *)
LEMMA IntervalsAddUp ==
    ASSUME NEW last \in Nat, NEW rows \in SUBSET Blocks, \A b \in rows : last - Days * Day <= Time(b),
           NEW late \in SUBSET rows, \A b \in late : Interval(last, Time(b)) = 0,
           NEW place \in [late -> 0 .. Days], NEW a \in Assets, NEW field \in Fields
    PROVE  /\ Totals({b \in rows : Time(b) <= last})[a][field] <= Sum(Intervals(last, rows, place), a, field)
           /\ Sum(Intervals(last, rows, place), a, field) <= Totals(rows)[a][field]
<1> DEFINE of == [b \in rows |-> IF b \in late THEN place[b] ELSE Interval(last, Time(b))]
           f == Moving(a, field)
           sums == Intervals(last, rows, place)
           placed == PartsTo(rows, of, Days)
           early == {b \in rows : Time(b) <= last}
<1>1. Days \in Nat /\ Day \in Nat /\ \A b \in Blocks : Time(b) \in Nat
  BY ChainFacts
<1>2. \A b \in rows : f[b] \in Nat
  BY MovingFacts
<1>3. IsFiniteSet(rows)
  BY ChainFacts, FS_Subset
<1>4. \A b \in rows : Interval(last, Time(b)) \in 0 .. Days
  BY <1>1, IntervalFacts
<1>5. of \in [rows -> Nat]
  BY <1>1, <1>4
<1>6. sums = [i \in 1 .. Days |-> Totals(PartOf(rows, of, i))]
  <2>1. DOMAIN place = late
    OBVIOUS
  <2>2. \A b \in rows : of[b] = IF b \in DOMAIN place THEN place[b] ELSE Interval(last, Time(b))
    BY <2>1
  <2> HIDE DEF of
  <2>3. \A i \in 1 .. Days : {b \in rows : (IF b \in DOMAIN place THEN place[b] ELSE Interval(last, Time(b))) = i}
                               = PartOf(rows, of, i)
    BY <2>2 DEF PartOf
  <2> QED
    BY <2>3 DEF Intervals
<1>7. \A b \in early : of[b] \in 1 .. Days
  <2> SUFFICES ASSUME NEW b \in early PROVE of[b] \in 1 .. Days
    OBVIOUS
  <2>1. Interval(last, Time(b)) \in 1 .. Days
    BY <1>1, IntervalFacts
  <2>2. b \notin late
    BY <2>1
  <2> QED
    BY <2>1, <2>2
<1> HIDE DEF of, f, sums
<1>8. Sum(sums, a, field) = SumFunctionOnSet(f, placed)
  <2>1. DOMAIN sums = 1 .. Days /\ \A i \in 1 .. Days : sums[i] = Totals(PartOf(rows, of, i))
    BY <1>6
  <2>2. \A i \in 1 .. Days : sums[i][a][field] = SumFunctionOnSet(f, PartOf(rows, of, i))
    BY <2>1, MovingFacts DEF f
  <2> DEFINE parts == [i \in DOMAIN sums |-> sums[i][a][field]]
  <2>3. AreSums(parts, f, rows, of, Days)
    BY <2>1, <2>2 DEF AreSums
  <2>4. Sum(sums, a, field) = SumFunction(parts)
    BY DEF Sum
  <2> HIDE DEF parts
  <2>5. SumFunction(parts) = SumFunctionOnSet(f, placed)
    BY <1>1, <1>2, <1>3, <2>3, SumOfParts
  <2> QED
    BY <2>4, <2>5
<1>9. /\ Totals(early)[a][field] = SumFunctionOnSet(f, early)
      /\ Totals(rows)[a][field] = SumFunctionOnSet(f, rows)
  BY MovingFacts DEF f
<1>10. SumFunctionOnSet(f, placed) <= SumFunctionOnSet(f, rows)
  BY <1>2, <1>3, SumGrows DEF PartsTo
<1>11. SumFunctionOnSet(f, early) <= SumFunctionOnSet(f, placed)
  <2>1. early \in SUBSET placed
    BY <1>7 DEF PartsTo
  <2>2. IsFiniteSet(placed) /\ \A b \in placed : f[b] \in Nat
    BY <1>2, <1>3, FS_Subset DEF PartsTo
  <2> QED
    BY <2>1, <2>2, SumGrows
<1> QED
  BY <1>8, <1>9, <1>10, <1>11 DEF sums

-------------------------------------------------------------------------------
LEMMA StepWork == ASSUME TypeInv, Work PROVE TypeInv' /\ VersionStep /\ (TopInv => TopInv')
<1>1. CASE ReadNewest
  <2>1. UNCHANGED <<top, torn, lost, balance>>
    BY <1>1 DEF ReadNewest, data, published
  <2>2. \/ worker' = [pc |-> "intervals", last |-> Time(Max(stored)), seen |-> <<>>]
        \/ worker' = [pc |-> "ended", last |-> 0, seen |-> <<>>]
    BY <1>1 DEF ReadNewest, Asleep
  <2>3. PICK pc \in {"intervals", "ended"}, last \in {0, Time(Max(stored))} :
          worker' = [pc |-> pc, last |-> last, seen |-> <<>>]
    BY <2>2
  <2>4. worker'.pc # "insert top"
    BY <2>3
  <2> QED
    BY <1>1, <2>1, <2>4, StepReadNewestTypes, TopStays
<1>2. CASE QueryStream
  <2>1. Window(streamed, First(Days), worker.last) \subseteq streamed
    BY DEF Window
  <2>2. TypeInv' /\ VersionStep /\ UNCHANGED <<data, published>> /\ worker'.pc = "add intervals"
    BY <1>2, <2>1, StepQueryTypes DEF QueryStream, WorkerPcs
  <2>3. UNCHANGED <<top, torn, lost, balance>>
    BY <2>2 DEF data, published
  <2> QED
    BY <2>2, <2>3, TopStays
<1>3. CASE PublishIntervals \/ PublishTurnover
  <2>1. TypeInv' /\ VersionStep /\ UNCHANGED <<data, top, torn>> /\ worker'.pc \in {"turnover", "top"}
    BY <1>3, StepPublishTypes
  <2>2. UNCHANGED <<lost, balance>>
    BY <2>1 DEF data
  <2> QED
    BY <2>1, <2>2, TopStays
<1>4. CASE QueryBlocks
  <2>1. TypeInv' /\ VersionStep /\ UNCHANGED <<data, published>> /\ worker'.pc = "add turnover"
    BY <1>4, StepQueryTypes DEF QueryBlocks, WorkerPcs
  <2>2. UNCHANGED <<top, torn, lost, balance>>
    BY <2>1 DEF data, published
  <2> QED
    BY <2>1, <2>2, TopStays
<1>5. CASE EnsureTop
  <2>1. TypeInv' /\ VersionStep /\ UNCHANGED <<data, published>> /\ worker'.pc = "rank"
    BY <1>5, StepEnsureTopTypes
  <2>2. UNCHANGED <<top, torn, lost, balance>>
    BY <2>1 DEF data, published
  <2> QED
    BY <2>1, <2>2, TopStays
<1>6. CASE QueryTop
  BY <1>6, StepQueryTop
<1>7. CASE InsertTop
  BY <1>7, StepInsertTop
<1> QED
  BY <1>1, <1>2, <1>3, <1>4, <1>5, <1>6, <1>7 DEF Work

(* Every step of the indexer preserves the invariants, and none takes the version back. *)
LEMMA StepAll == ASSUME TypeInv, [Next]_vars PROVE TypeInv' /\ VersionStep /\ (TopInv => TopInv')
<1>1. CASE Starting
  <2>1. UNCHANGED <<data, worker, published>> /\ StartInv' /\ VersionStep
    BY <1>1, StartStep DEF Starting, TypeInv
  <2>2. DataOK' /\ PublishedOK' /\ WorkerOK' /\ UNCHANGED <<top, torn, lost, balance>>
    BY <2>1 DEF data, published, TypeInv, DataOK, PublishedOK, WorkerOK, SeenOK
  <2> QED
    BY <2>1, <2>2, TopStays DEF TypeInv
<1>2. ASSUME NEW b \in Blocks, StoreBlock(b) \/ StoreStream(b)
      PROVE  TypeInv' /\ VersionStep /\ (TopInv => TopInv')
  <2>1. UNCHANGED <<top, torn, lost, balance, worker>>
    BY <1>2 DEF StoreBlock, StoreStream, published
  <2> QED
    BY <1>2, <2>1, StepStoreTypes, TopStays
<1>3. ASSUME NEW w \in Wallets, StoreState(w) PROVE TypeInv' /\ VersionStep /\ (TopInv => TopInv')
  BY <1>3, StepStoreStateTypes, StepStoreStateTop
<1>4. CASE Work
  BY <1>4, StepWork
<1>5. CASE Crash
  <2>1. UNCHANGED <<data, published>> /\ StartInv' /\ VersionStep /\ worker' = Asleep
    BY <1>5, StartStep DEF Crash, TypeInv
  <2>2. DataOK' /\ PublishedOK' /\ UNCHANGED <<top, torn, lost, balance>>
    BY <2>1 DEF data, published, TypeInv, DataOK, PublishedOK
  <2>3. WorkerOK' /\ worker'.pc = "asleep"
    <3>1. worker' = [pc |-> "asleep", last |-> 0, seen |-> <<>>]
      BY <2>1 DEF Asleep
    <3>2. worker'.pc = "asleep" /\ worker'.last = 0 /\ worker'.seen = <<>>
      BY <3>1
    <3>3. Len(worker'.seen) <= 1
      BY <3>2, ShortTuples, Zenon
    <3> QED
      BY <3>1, <3>2, <3>3 DEF WorkerOK, SeenOK, WorkerPcs
  <2> QED
    BY <2>1, <2>2, <2>3, TopStays DEF TypeInv
<1>6. CASE UNCHANGED vars
  <2>1. UNCHANGED <<schema, meta, legacy, start, crashes, faults, data, worker, published>>
    BY <1>6 DEF vars, startVars
  <2>2. StartInv' /\ VersionStep
    BY <2>1, DatabaseStays DEF TypeInv
  <2>3. DataOK' /\ PublishedOK' /\ WorkerOK' /\ UNCHANGED <<top, torn, lost, balance>>
    BY <2>1 DEF data, published, TypeInv, DataOK, PublishedOK, WorkerOK, SeenOK
  <2> QED
    BY <2>1, <2>2, <2>3, TopStays DEF TypeInv
<1> QED
  BY <1>1, <1>2, <1>3, <1>4, <1>5, <1>6 DEF Next

-------------------------------------------------------------------------------
(***************************************************************************)
(* What makes the intervals a partition: the time the worker counts from   *)
(* stays that of a block, and what it carries to the update is no older    *)
(* than the window that starts there.                                      *)
(***************************************************************************)
WindowInv ==
    /\ worker.pc \in {"intervals", "add intervals"} => worker.last \in Nat
    /\ worker.pc = "add intervals" => \A b \in worker.seen[1] : First(Days) <= Time(b)
    /\ IntervalsPartition

(* The largest of finitely many numbers. *)
LEMMA MaxStored == ASSUME TypeInv, stored # {} PROVE Max(stored) \in Blocks
<1> DEFINE n == Len(Chain)
           below == {n - b : b \in stored}
<1>1. n \in Nat /\ stored \subseteq 1 .. n
  BY ChainFacts DEF TypeInv, DataOK
<1> HIDE DEF n
<1>2. \A b \in stored : b \in Nat /\ n - b \in Nat
  BY <1>1
<1>3. below \subseteq Nat /\ below # {}
  BY <1>2
<1>4. PICK m \in below : \A k \in below : m <= k
  BY <1>3, LeastNumber
<1>5. PICK b \in stored : m = n - b
  BY <1>4
<1>6. \A c \in stored : n - c \in below
  OBVIOUS
<1>7. \A c \in stored : c <= b
  <2> SUFFICES ASSUME NEW c \in stored PROVE c <= b
    OBVIOUS
  <2>1. n - b <= n - c
    BY <1>4, <1>5, <1>6
  <2> QED
    BY <1>2, <1>1, <2>1
<1>8. \E x \in stored : \A y \in stored : x >= y
  BY <1>1, <1>5, <1>7
<1>9. Max(stored) \in stored
  BY <1>8 DEF Max
<1> QED
  BY <1>1, <1>9, ChainFacts DEF n

(* A step that leaves the published intervals alone and brings the worker to no place before their update. *)
LEMMA WindowStays ==
    ASSUME WindowInv, UNCHANGED intervals,
           UNCHANGED worker \/ worker'.pc \notin {"intervals", "add intervals"}
    PROVE  WindowInv'
BY DEF WindowInv, IntervalsPartition, First

LEMMA WindowReadNewest == ASSUME TypeInv, WindowInv, ReadNewest PROVE WindowInv'
<1>1. UNCHANGED intervals
  BY DEF ReadNewest, published
<1>2. CASE worker' = [Asleep EXCEPT !.pc = "ended"]
  <2>1. worker'.pc = "ended"
    BY <1>2 DEF Asleep
  <2> QED
    BY <1>1, <2>1, WindowStays
<1>3. CASE stored # {} /\ worker' = [pc |-> "intervals", last |-> Time(Max(stored)), seen |-> <<>>]
  <2>1. worker'.pc = "intervals" /\ worker'.last = Time(Max(stored))
    BY <1>3
  <2>2. worker'.last \in Nat
    BY <1>3, <2>1, MaxStored, ChainFacts
  <2> QED
    BY <1>1, <2>1, <2>2 DEF WindowInv, IntervalsPartition
<1> QED
  BY <1>2, <1>3 DEF ReadNewest

LEMMA WindowQueryStream == ASSUME TypeInv, WindowInv, QueryStream PROVE WindowInv'
<1> DEFINE rows == Window(streamed, First(Days), worker.last)
<1>1. UNCHANGED intervals /\ worker.pc = "intervals"
  BY DEF QueryStream, Query, At, published
<1>2. PICK seen \in {rows, {}} : Step("add intervals", <<seen>>)
  BY DEF QueryStream, Query
<1>3. worker' = [pc |-> "add intervals", last |-> worker.last, seen |-> <<seen>>]
  BY <1>2 DEF TypeInv, WorkerOK, Step
<1>4. worker'.pc = "add intervals" /\ worker'.last = worker.last /\ worker'.seen = <<seen>>
  BY <1>3
<1>5. worker'.seen[1] = seen
  BY <1>4, ShortTuples, Zenon
<1>6. \A b \in seen : First(Days) <= Time(b)
  BY <1>2 DEF Window, InRange
<1>7. First(Days)' = First(Days)
  BY <1>4 DEF First
<1> QED
  BY <1>1, <1>4, <1>5, <1>6, <1>7 DEF WindowInv, IntervalsPartition

LEMMA WindowPublishIntervals == ASSUME TypeInv, WindowInv, PublishIntervals PROVE WindowInv'
<1> DEFINE rows == worker.seen[1]
           last == worker.last
<1>1. worker.pc = "add intervals"
  BY DEF PublishIntervals, At
<1>2. PICK place \in [Late(rows) -> 0 .. Days] :
        /\ Step("turnover", <<>>)
        /\ \/ UNCHANGED intervals
           \/ intervals' = <<[rows |-> rows, last |-> last, sums |-> Intervals(last, rows, place)]>>
  BY DEF PublishIntervals, Publish
<1>3. worker'.pc = "turnover"
  BY <1>2, WorkerMoves DEF WorkerPcs
<1>4. CASE UNCHANGED intervals
  BY <1>3, <1>4, WindowStays
<1>5. CASE intervals' = <<[rows |-> rows, last |-> last, sums |-> Intervals(last, rows, place)]>>
  <2> DEFINE sums == Intervals(last, rows, place)
             early == {b \in rows : Time(b) <= last}
  <2>1. last \in Nat /\ rows \in SUBSET Blocks /\ \A b \in rows : last - Days * Day <= Time(b)
    BY <1>1 DEF WindowInv, TypeInv, WorkerOK, SeenOK, DataOK, First
  <2>2. Late(rows) \in SUBSET rows /\ \A b \in Late(rows) : Interval(last, Time(b)) = 0
    BY DEF Late
  <2>3. \A a \in Assets, field \in Fields :
          /\ Totals(early)[a][field] <= Sum(sums, a, field)
          /\ Sum(sums, a, field) <= Totals(rows)[a][field]
    BY <2>1, <2>2, IntervalsAddUp
  <2>4. intervals'[1] = [rows |-> rows, last |-> last, sums |-> sums]
    BY <1>5, ShortTuples, Zenon
  <2>5. intervals'[1].rows = rows /\ intervals'[1].last = last /\ intervals'[1].sums = sums
    BY <2>4
  <2> HIDE DEF rows, last, sums
  <2>6. IntervalsPartition'
    BY <2>3, <2>5 DEF IntervalsPartition, Fields
  <2> QED
    BY <1>3, <2>6 DEF WindowInv
<1> QED
  BY <1>2, <1>4, <1>5

LEMMA WindowStep == ASSUME TypeInv, WindowInv, [Next]_vars PROVE WindowInv'
<1>1. CASE \/ Starting \/ UNCHANGED vars
           \/ \E b \in Blocks : StoreBlock(b) \/ StoreStream(b)
           \/ \E w \in Wallets : StoreState(w)
  <2>1. UNCHANGED <<worker, intervals>>
    BY <1>1 DEF Starting, vars, StoreBlock, StoreStream, StoreState, published
  <2> QED
    BY <2>1, WindowStays
<1>2. CASE ReadNewest
  BY <1>2, WindowReadNewest
<1>3. CASE QueryStream
  BY <1>3, WindowQueryStream
<1>4. CASE PublishIntervals
  BY <1>4, WindowPublishIntervals
<1>5. CASE QueryBlocks
  <2>1. UNCHANGED published /\ worker'.pc = "add turnover"
    BY <1>5, StepQueryTypes DEF QueryBlocks, WorkerPcs
  <2> QED
    BY <2>1, WindowStays DEF published
<1>6. CASE PublishTurnover
  <2>1. UNCHANGED intervals /\ worker'.pc = "top"
    <3>1. Step("top", <<>>) /\ UNCHANGED intervals
      BY <1>6 DEF PublishTurnover, Publish
    <3> QED
      BY <3>1, WorkerMoves DEF WorkerPcs
  <2> QED
    BY <2>1, WindowStays
<1>7. CASE EnsureTop
  <2>1. UNCHANGED published /\ worker'.pc = "rank"
    BY <1>7, StepEnsureTopTypes
  <2> QED
    BY <2>1, WindowStays DEF published
<1>8. CASE QueryTop
  <2>1. PICK rows : Query("wallets_state" \in tables, rows, NoTop, "insert top")
    BY <1>8 DEF QueryTop
  <2>2. UNCHANGED published /\ \E seen : Step("insert top", seen)
    BY <2>1 DEF Query
  <2>3. worker'.pc = "insert top"
    BY <2>2 DEF Step, TypeInv, WorkerOK
  <2> QED
    BY <2>2, <2>3, WindowStays DEF published
<1>9. CASE InsertTop
  <2>1. UNCHANGED intervals /\ worker'.pc \in {"asleep", "insert top"}
    BY <1>9, StepInsertTop DEF InsertTop
  <2> QED
    BY <2>1, WindowStays
<1>10. CASE Crash
  <2>1. UNCHANGED intervals /\ worker' = Asleep
    BY <1>10 DEF Crash, published
  <2>2. worker'.pc = "asleep"
    BY <2>1 DEF Asleep
  <2> QED
    BY <2>1, <2>2, WindowStays
<1> QED
  BY <1>1, <1>2, <1>3, <1>4, <1>5, <1>6, <1>7, <1>8, <1>9, <1>10 DEF Next, Work

LEMMA TypeInvariant == Spec => []TypeInv
<1>1. TypeInv /\ [Next]_vars => TypeInv'
  BY StepAll
<1> QED
  BY InitTypes, <1>1, PTL DEF Spec

(***************************************************************************)
(* Every state the indexer's database and its statistics reach has its     *)
(* type; a published row of transaction_turnover is made of transactions   *)
(* that are stored, and a row of wallets_top lies below each_type_amount.  *)
(***************************************************************************)
THEOREM TypeCorrect == Spec => []TypeOK
<1>1. TypeInv => TypeOK
  BY DEF TypeInv, StartInv, StartTypeOK, DataOK, PublishedOK, WorkerOK, WorkerPcs, TopRowsOK, TypeOK
<1> QED
  BY TypeInvariant, <1>1, PTL

(***************************************************************************)
(* Db::init: whatever earlier starts left undone when they crashed or      *)
(* swallowed errors, an indexer that runs after a start without a failing  *)
(* query has every table of get_names() and every index of get_indices().  *)
(***************************************************************************)
THEOREM AlwaysComplete == Spec => []SchemaComplete
<1>1. TypeInv => SchemaComplete
  BY SchemaFromInv DEF TypeInv
<1> QED
  BY TypeInvariant, <1>1, PTL

(***************************************************************************)
(* migration: a start without a failing query never lowers the version     *)
(* that get_version answers; and it leaves one no older than itself, for   *)
(* every number in the row with the text id of old versions up to 122, at  *)
(* which that row is removed.  Crashes and earlier failing starts included.*)
(***************************************************************************)
THEOREM NeverGoesBack == Spec => VersionNeverGoesBack
<1>1. TypeInv /\ [Next]_vars => [VersionStep]_startVars
  BY StepAll
<1>2. Spec => [][VersionStep]_startVars
  BY TypeInvariant, <1>1, PTL DEF Spec
<1> QED
  BY <1>2 DEF VersionNeverGoesBack, VersionStep

(***************************************************************************)
(* wallets_top_upd: as long as no wallet has lost an asset no wallet is    *)
(* twice among the top of one whenever the last batch is written whole,    *)
(* although insert_with_replace only writes over the places a round has,   *)
(* one row after another, batches fail midway, rounds are skipped when a   *)
(* query fails and balances change between the rounds.                     *)
(***************************************************************************)
THEOREM AlwaysDistinct == Spec => []TopDistinct
<1>1. Init => TopInv
  BY NoTopFacts DEF Init, TopInv, Asleep, Covered
<1>2. TypeInv /\ TopInv /\ [Next]_vars => TopInv'
  BY StepAll
<1>3. TopInv => TopDistinct
  BY DEF TopInv, Distinct, TopDistinct
<1> QED
  BY TypeInvariant, <1>1, <1>2, <1>3, PTL DEF Spec

(***************************************************************************)
(* transaction_turnover: the intervals share their ends and the newest     *)
(* block lies on the last one; still what the transactions of the window   *)
(* move is counted once, in number and in amount, for every chain, every   *)
(* length of a day and every number of days.  Only what is later than the  *)
(* block the worker read, for which operator[] finds no interval, may be   *)
(* left out or put anywhere, and still not twice.                          *)
(***************************************************************************)
THEOREM AlwaysPartitioned == Spec => []IntervalsPartition
<1>1. Init => WindowInv
  BY DEF Init, WindowInv, Asleep, IntervalsPartition
<1>2. TypeInv /\ WindowInv /\ [Next]_vars => WindowInv'
  BY WindowStep
<1>3. WindowInv => IntervalsPartition
  BY DEF WindowInv
<1> QED
  BY TypeInvariant, <1>1, <1>2, <1>3, PTL DEF Spec
===============================================================================
