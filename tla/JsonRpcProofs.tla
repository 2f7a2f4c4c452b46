----------------------------- MODULE JsonRpcProofs -----------------------------
(***************************************************************************)
(* What the answers of the JSON-RPC router have in common, whatever the    *)
(* body of the request and whatever the tables hold.                       *)
(***************************************************************************)
EXTENDS JsonRpc, FiniteSetTheorems, SequenceTheorems, TLAPS

(* A method that gives up without a word leaves no result, no error and no exception. *)
Loud(out) == out.result # <<>> \/ out.error # None \/ out.raised # None

LEMMA Outcomes ==
    /\ \A r : Return(r).result = <<r>> /\ Return(r).result # <<>> /\ Return(r).result[1] = r
    /\ \A r : Return(r).error = None /\ Return(r).raised = None /\ Loud(Return(r))
    /\ Refuse.result = <<>> /\ Refuse.error = "ParseError" /\ Refuse.raised = None /\ Loud(Refuse)
    /\ Silent.result = <<>> /\ Silent.error = None /\ Silent.raised = None
    /\ \A x : Raise(x).result = <<>> /\ Raise(x).error = None /\ Raise(x).raised = x
    /\ Loud(Raise("json")) /\ Loud(Raise("other")) /\ Loud(Raise("unknown method"))
BY DEF Return, Refuse, Silent, Raise, Loud, None

-------------------------------------------------------------------------------
(* A request that was read without an error is complete. *)
LEMMA ParsedIsComplete ==
    ASSUME NEW body, FromString(body).error = None
    PROVE  /\ body.text = "json" /\ body.jsonrpc = "2.0" /\ body.id # <<>> /\ body.method # <<>>
           /\ body.params # <<>> /\ FromString(body).id = body.id
BY DEF FromString, None

(* A text that does not parse has no method. *)
LEMMA GarbageHasNoMethod ==
    \A body \in {Empty, Garbage} : FromString(body).method = <<>> /\ FromString(body).error = "ParseError"
BY DEF FromString, Empty, Garbage

(* What a method leaves, for a body. *)
Out(body, early, d) ==
    IF FromString(body).method # <<>> /\ FromString(body).method[1] \in Methods
    THEN Apply(FromString(body).method[1], FromString(body).params, early, d) ELSE Raise("unknown method")

(* The answer, by what the method leaves. *)
LEMMA AnswerCases ==
    ASSUME NEW body, NEW early, NEW d
    PROVE  LET ctx == FromString(body)
               out == Out(body, early, d)
               a   == Answer(body, early, d)
           IN  /\ out.raised = None =>
                    a = [status |-> 200, id |-> ctx.id, result |-> out.result, error |-> Later(ctx.error, out.error)]
               /\ out.raised = "json" => a = [status |-> 404, id |-> ctx.id, result |-> <<>>, error |-> "ParseError"]
               /\ out.raised = "other" =>
                    a = [status |-> 404, id |-> ctx.id, result |-> <<<<>>>>, error |-> Later("MethodNotFound", ctx.error)]
               /\ out.raised \notin {None, "json", "other"} =>
                    a = [status |-> 404, id |-> ctx.id, result |-> <<>>, error |-> Later("MethodNotFound", ctx.error)]
<1> DEFINE ctx == FromString(body)
           out == Out(body, early, d)
<1>1. Answer(body, early, d) =
        CASE out.raised = None    -> Response(200, ctx.id, out.result, Later(ctx.error, out.error))
          [] out.raised = "json"  -> Response(404, ctx.id, <<>>, "ParseError")
          [] out.raised = "other" -> Response(404, ctx.id, <<<<>>>>, Later("MethodNotFound", ctx.error))
          [] OTHER                -> Response(404, ctx.id, <<>>, Later("MethodNotFound", ctx.error))
  BY DEF Answer, Out
<1> HIDE DEF ctx, out
<1> SUFFICES
      LET a == Answer(body, early, d)
      IN  /\ out.raised = None =>
               a = [status |-> 200, id |-> ctx.id, result |-> out.result, error |-> Later(ctx.error, out.error)]
          /\ out.raised = "json" => a = [status |-> 404, id |-> ctx.id, result |-> <<>>, error |-> "ParseError"]
          /\ out.raised = "other" =>
               a = [status |-> 404, id |-> ctx.id, result |-> <<<<>>>>, error |-> Later("MethodNotFound", ctx.error)]
          /\ out.raised \notin {None, "json", "other"} =>
               a = [status |-> 404, id |-> ctx.id, result |-> <<>>, error |-> Later("MethodNotFound", ctx.error)]
  BY DEF ctx, out
<1> QED
  BY <1>1 DEF Response, None

-------------------------------------------------------------------------------
(* The methods: each of them says something, unless it is asked for uint256_t(-1). *)

LEMMA BlockIdLoud ==
    ASSUME NEW p, NEW name \in {"id", "first"}, \A x \in DOMAIN p : p[x] \in Value,
           BlockId(p, name).result = <<>>
    PROVE  Loud(BlockId(p, name)) \/ AsksSentinel(p)
<1> SUFFICES ASSUME ~Loud(BlockId(p, name)) PROVE AsksSentinel(p)
  OBVIOUS
<1>1. /\ Has(p, name) /\ ~Number(p, name) /\ String(p, name) /\ IsDecimal(p[name])
      /\ p[name].ns[1] = Last256
  BY Outcomes DEF BlockId
<1>2. p[name] \in [kind : {"string"}, ks : Seq(STRING), ns : Seq(Nat)]
  BY <1>1 DEF Has, String, Value, Bool
<1>3. p[name].ns = <<Last256>> /\ p[name].ks = <<>> /\ p[name].kind = "string"
  BY <1>1, <1>2 DEF IsDecimal
<1>4. p[name] = [kind |-> "string", ks |-> <<>>, ns |-> <<Last256>>]
  BY <1>2, <1>3
<1> QED
  BY <1>1, <1>4 DEF AsksSentinel, Has, Decimal, Str

LEMMA TransactionIdLoud ==
    ASSUME NEW p, NEW name, TransactionId(p, name).result = <<>> PROVE Loud(TransactionId(p, name))
BY Outcomes DEF TransactionId

LEMMA StringOfLoud ==
    ASSUME NEW p, NEW name, StringOf(p, name).result = <<>> PROVE Loud(StringOf(p, name))
BY Outcomes DEF StringOf

LEMMA GetBlockLoud ==
    ASSUME NEW p, NEW d, \A x \in DOMAIN p : p[x] \in Value
    PROVE  Loud(GetBlock(p, d)) \/ AsksSentinel(p)
BY Outcomes, BlockIdLoud DEF GetBlock, With

LEMMA GetBlockHistoryLoud ==
    ASSUME NEW p, NEW d, \A x \in DOMAIN p : p[x] \in Value
    PROVE  Loud(GetBlockHistory(p, d)) \/ AsksSentinel(p)
BY Outcomes, BlockIdLoud DEF GetBlockHistory, CheckLimit, With

LEMMA GetTransactionLoud ==
    ASSUME NEW p, NEW d PROVE Loud(GetTransaction(p, d))
BY Outcomes, StringOfLoud DEF GetTransaction, Check, With

LEMMA GetTransactionHistoryLoud ==
    ASSUME NEW p, NEW d PROVE Loud(GetTransactionHistory(p, d))
BY Outcomes, TransactionIdLoud DEF GetTransactionHistory, CheckLimit, With

LEMMA GetWalletHistoryBlocksLoud ==
    ASSUME NEW p, NEW d, \A x \in DOMAIN p : p[x] \in Value
    PROVE  Loud(GetWalletHistoryBlocks(p, d)) \/ AsksSentinel(p)
BY Outcomes, BlockIdLoud, StringOfLoud DEF GetWalletHistoryBlocks, Check, CheckLimit, With

LEMMA GetWalletHistoryTransactionsLoud ==
    ASSUME NEW p, NEW d PROVE Loud(GetWalletHistoryTransactions(p, d))
BY Outcomes, TransactionIdLoud, StringOfLoud DEF GetWalletHistoryTransactions, Check, CheckLimit, With

LEMMA GetStatisticsLoud ==
    ASSUME NEW p, NEW d PROVE Loud(GetStatistics(p, d))
BY Outcomes, StringOfLoud DEF GetStatistics, Check, With

LEMMA OthersLoud ==
    ASSUME NEW p, NEW early, NEW d
    PROVE  /\ Loud(GetBlockHistoryState(p, d)) /\ Loud(GetTransactionHistoryState(p, d))
           /\ Loud(GetWalletHistoryState(p, early, d)) /\ Loud(GetWalletNode(p, d))
           /\ Loud(GetNodes(p, d)) /\ Loud(GetNetworkState(p, d))
<1>1. Loud(GetBlockHistoryState(p, d))
  BY Outcomes DEF GetBlockHistoryState
<1>2. Loud(GetTransactionHistoryState(p, d))
  BY Outcomes DEF GetTransactionHistoryState
<1>3. Loud(GetWalletHistoryState(p, early, d)) /\ Loud(GetWalletNode(p, d))
  BY Outcomes, StringOfLoud DEF GetWalletHistoryState, GetWalletNode, Check, With
<1>4. Loud(GetNodes(p, d))
  BY Outcomes DEF GetNodes, CheckLimit
<1>5. Loud(GetNetworkState(p, d))
  BY Outcomes DEF GetNetworkState
<1> QED
  BY <1>1, <1>2, <1>3, <1>4, <1>5

(* The parameters that are handed to a method are values. *)
LEMMA ParamsAreValues ==
    ASSUME NEW body, HasValues(body), NEW x \in DOMAIN FromString(body).params
    PROVE  FromString(body).params[x] \in Value
<1>1. DOMAIN NoParams = {}
  BY DEF NoParams
<1>2. FromString(body).params = NoParams \/ FromString(body).error = None
  BY DEF FromString
<1>3. CASE FromString(body).error = None
  <2>1. FromString(body).params = body.params[1] /\ body.text = "json" /\ body.params # <<>>
    BY <1>3 DEF FromString, None
  <2> QED
    BY <2>1 DEF HasValues
<1> QED
  BY <1>1, <1>2, <1>3

(* The router: whichever method it applies says something. *)
LEMMA ApplyLoud ==
    ASSUME NEW method \in Methods, NEW p, NEW early, NEW d, \A x \in DOMAIN p : p[x] \in Value
    PROVE  Loud(Apply(method, p, early, d)) \/ AsksSentinel(p)
BY Outcomes, GetBlockLoud, GetBlockHistoryLoud, GetTransactionLoud, GetTransactionHistoryLoud,
   GetWalletHistoryBlocksLoud, GetWalletHistoryTransactionsLoud, GetStatisticsLoud, OthersLoud
   DEF Apply, Methods, Constants

(***************************************************************************)
(* request::handle: every POST is answered with a result or an error,      *)
(* whatever its body and whatever the queries find or fail to find; only   *)
(* the decimal of uint256_t(-1), which get_block_id takes for an error     *)
(* that was reported already, gets neither.                                *)
(***************************************************************************)
THEOREM NoSilence ==
    ASSUME NEW body, HasValues(body), NEW early, NEW d,
           Answer(body, early, d).result = <<>>, Answer(body, early, d).error = None
    PROVE  AsksSentinel(FromString(body).params)
<1> DEFINE ctx == FromString(body)
           out == Out(body, early, d)
           a   == Answer(body, early, d)
<1>1. \A e : Later("MethodNotFound", e) # None
  BY DEF Later, None
<1>2. out.raised = None /\ a.result = out.result /\ a.error = Later(ctx.error, out.error)
  BY <1>1, AnswerCases DEF None
<1>3. out.result = <<>> /\ out.error = None
  BY <1>2 DEF Later
<1>4. ~Loud(out)
  BY <1>2, <1>3 DEF Loud
<1>5. ctx.method # <<>> /\ ctx.method[1] \in Methods
  BY <1>4, Outcomes DEF Out
<1>6. out = Apply(ctx.method[1], ctx.params, early, d)
  BY <1>5 DEF Out
<1> QED
  BY <1>4, <1>5, <1>6, ApplyLoud, ParamsAreValues

(***************************************************************************)
(* An answer of status 200 without an error is the answer to a complete    *)
(* request and has its id: from_string's error is never lost, although the *)
(* method runs after it and its own error replaces the parser's.           *)
(***************************************************************************)
THEOREM SuccessIsComplete ==
    ASSUME NEW body, NEW early, NEW d,
           Answer(body, early, d).status = 200, Answer(body, early, d).error = None
    PROVE  /\ body.text = "json" /\ body.jsonrpc = "2.0" /\ body.id # <<>> /\ body.method # <<>>
           /\ body.params # <<>> /\ Answer(body, early, d).id = body.id
<1> DEFINE ctx == FromString(body)
           out == Out(body, early, d)
           a   == Answer(body, early, d)
<1>1. out.raised = None /\ a.id = ctx.id /\ a.error = Later(ctx.error, out.error)
  BY AnswerCases DEF None
<1>2. ctx.error = None
  BY <1>1 DEF Later
<1> QED
  BY <1>1, <1>2, ParsedIsComplete

-------------------------------------------------------------------------------
(* The queries. *)

(* Numbers below twice the word size, on 64 bits. *)
LEMMA Wrap ==
    ASSUME NEW n \in Nat
    PROVE  /\ n % Word \in Nat /\ n % Word < Word
           /\ n < Word => n % Word = n
           /\ n >= Word /\ n < Word + Word => n % Word = n - Word
BY JsonRpcAssumption

(* The ascending order of a finite set of numbers has each of them once. *)
LEMMA AscendingFacts ==
    ASSUME NEW S \in SUBSET Int, IsFiniteSet(S)
    PROVE  /\ Cardinality(S) \in Nat /\ DOMAIN Ascending(S) = 1 .. Cardinality(S)
           /\ \A i \in 1 .. Cardinality(S) :
                Ascending(S)[i] \in S /\ Cardinality({y \in S : y < Ascending(S)[i]}) = i - 1
           /\ \A i, j \in 1 .. Cardinality(S) : i # j => Ascending(S)[i] # Ascending(S)[j]
<1> DEFINE n == Cardinality(S)
           below(x) == {y \in S : y < x}
           rank == [x \in S |-> Cardinality(below(x))]
<1>1. n \in Nat
  BY FS_CardinalityType
<1>2. \A x \in S : IsFiniteSet(below(x)) /\ Cardinality(below(x)) \in 0 .. n - 1
  <2> SUFFICES ASSUME NEW x \in S PROVE IsFiniteSet(below(x)) /\ Cardinality(below(x)) \in 0 .. n - 1
    OBVIOUS
  <2>1. below(x) \in SUBSET (S \ {x})
    OBVIOUS
  <2>2. IsFiniteSet(S \ {x}) /\ Cardinality(S \ {x}) = n - 1
    BY FS_RemoveElement
  <2>3. IsFiniteSet(below(x)) /\ Cardinality(below(x)) <= n - 1
    BY <2>1, <2>2, FS_Subset
  <2> QED
    BY <1>1, <2>3, FS_CardinalityType
<1>3. \A x, z \in S : x < z => Cardinality(below(x)) < Cardinality(below(z))
  <2> SUFFICES ASSUME NEW x \in S, NEW z \in S, x < z
               PROVE  Cardinality(below(x)) < Cardinality(below(z))
    OBVIOUS
  <2>0. S \subseteq Int /\ x \in Int /\ z \in Int
    OBVIOUS
  <2>1. below(x) \cup {x} \in SUBSET below(z) /\ x \notin below(x)
    <3>1. x \in below(z) /\ x \notin below(x)
      BY <2>0
    <3>2. \A y \in below(x) : y \in below(z)
      BY <2>0
    <3> QED
      BY <3>1, <3>2
  <2>2. IsFiniteSet(below(x)) /\ IsFiniteSet(below(z))
        /\ Cardinality(below(x)) \in Nat /\ Cardinality(below(z)) \in Nat
    BY <1>2
  <2> HIDE DEF below
  <2>3. Cardinality(below(x) \cup {x}) = Cardinality(below(x)) + 1
    BY <2>1, <2>2, FS_AddElement
  <2>4. Cardinality(below(x) \cup {x}) <= Cardinality(below(z))
    BY <2>1, <2>2, FS_Subset
  <2> QED
    BY <2>2, <2>3, <2>4
<1>4. rank \in [S -> 0 .. n - 1] /\ \A x, z \in S : rank[x] = rank[z] => x = z
  <2>1. \A x \in S : rank[x] = Cardinality(below(x)) /\ Cardinality(below(x)) \in 0 .. n - 1
    BY <1>2
  <2>2. \A x, z \in S : x # z => x < z \/ z < x
    OBVIOUS
  <2> HIDE DEF below, n
  <2>3. \A x, z \in S : x # z => rank[x] # rank[z]
    BY <1>1, <1>3, <2>1, <2>2
  <2> QED
    BY <2>1, <2>3
<1>5. IsFiniteSet(0 .. n - 1) /\ Cardinality(0 .. n - 1) = n
  BY <1>1, FS_Interval
<1>6. \A k \in 0 .. n - 1 : \E x \in S : rank[x] = k
  <2> HIDE DEF rank
  <2>1. rank \in Injection(S, 0 .. n - 1)
    BY <1>4 DEF Injection, IsInjective
  <2>2. rank \in Surjection(S, 0 .. n - 1)
    BY <1>5, <2>1, FS_Injection
  <2> QED
    BY <2>2 DEF Surjection
<1>7. \A i \in 1 .. n : Ascending(S)[i] = CHOOSE x \in S : Cardinality(below(x)) = i - 1
  BY DEF Ascending
<1>8. \A i \in 1 .. n : Ascending(S)[i] \in S /\ Cardinality(below(Ascending(S)[i])) = i - 1
  <2> SUFFICES ASSUME NEW i \in 1 .. n
               PROVE  Ascending(S)[i] \in S /\ Cardinality(below(Ascending(S)[i])) = i - 1
    OBVIOUS
  <2>1. i - 1 \in 0 .. n - 1
    BY <1>1
  <2>2. \E x \in S : Cardinality(below(x)) = i - 1
    BY <1>6, <2>1
  <2> HIDE DEF below
  <2> QED
    BY <1>7, <2>2
<1>9. DOMAIN Ascending(S) = 1 .. n
  BY DEF Ascending
<1>10. \A i, j \in 1 .. n : i # j => Ascending(S)[i] # Ascending(S)[j]
  <2> HIDE DEF below
  <2>1. \A i, j \in 1 .. n : i - 1 = j - 1 => i = j
    BY <1>1
  <2> QED
    BY <1>8, <2>1
<1> QED
  BY <1>1, <1>8, <1>9, <1>10

LEMMA AscendingHasAll ==
    ASSUME NEW S \in SUBSET Int, IsFiniteSet(S), NEW x \in S
    PROVE  \E i \in 1 .. Cardinality(S) : Ascending(S)[i] = x
<1> DEFINE n == Cardinality(S)
           f == Ascending(S)
<1>1. n \in Nat /\ f \in [1 .. n -> S] /\ \A i, j \in 1 .. n : i # j => f[i] # f[j]
  <2>1. n \in Nat /\ DOMAIN f = 1 .. n /\ \A i \in 1 .. n : f[i] \in S
    BY AscendingFacts
  <2>2. f = [i \in DOMAIN f |-> f[i]]
    <3> DEFINE c(i) == CHOOSE y \in S : Cardinality({z \in S : z < y}) = i - 1
    <3>1. f = [i \in 1 .. n |-> c(i)]
      BY DEF Ascending
    <3> HIDE DEF c, f, n
    <3> QED
      BY <3>1
  <2>3. \A i, j \in 1 .. n : i # j => f[i] # f[j]
    BY AscendingFacts
  <2> HIDE DEF f, n
  <2> QED
    BY <2>1, <2>2, <2>3
<1>2. IsFiniteSet(1 .. n) /\ Cardinality(1 .. n) = n
  BY <1>1, FS_Interval
<1> HIDE DEF f
<1>3. f \in Injection(1 .. n, S)
  BY <1>1 DEF Injection, IsInjective
<1>4. f \in Surjection(1 .. n, S)
  BY <1>2, <1>3, FS_Injection
<1> QED
  BY <1>4 DEF Surjection, f

(* The end of a range is past its start by the limit, unless the addition wraps: then it is before the start. *)
LEMMA EndFacts ==
    ASSUME NEW first \in Nat, first < Word, NEW limit \in Nat, limit <= MaxLimit
    PROVE  LET end == (first + limit) % Word
           IN  /\ end \in Nat /\ Word \in Nat /\ limit < Word
               /\ (end = first + limit /\ end < Word) \/ end < first
<1> DEFINE end == (first + limit) % Word
<1>1. Word \in Nat /\ limit < Word /\ first + limit \in Nat /\ first + limit < Word + Word
  BY JsonRpcAssumption
<1>2. CASE first + limit < Word
  BY <1>1, <1>2, Wrap
<1>3. CASE first + limit >= Word
  <2>1. end = first + limit - Word
    BY <1>1, <1>3, Wrap
  <2> QED
    BY <1>1, <1>3, <2>1
<1> QED
  BY <1>1, <1>2, <1>3

(* Cursor::slice gives no more than the limit, of the list from the place that was asked for. *)
LEMMA SliceFacts ==
    ASSUME NEW S, NEW seq \in Seq(S), NEW first \in Nat, first < Word,
           NEW limit \in Nat, limit <= MaxLimit
    PROVE  /\ Slice(seq, first, limit) \in Seq(S) /\ Len(Slice(seq, first, limit)) <= limit
           /\ first <= Len(seq) =>
                /\ first + Len(Slice(seq, first, limit)) <= Len(seq)
                /\ first + Len(Slice(seq, first, limit)) < Word \/ Slice(seq, first, limit) = <<>>
                /\ \A i \in 1 .. Len(Slice(seq, first, limit)) : Slice(seq, first, limit)[i] = seq[first + i]
<1> DEFINE end == (first + limit) % Word
           last == IF end < Len(seq) THEN end ELSE Len(seq)
           page == SubSeq(seq, first + 1, last)
<1>1. /\ end \in Nat /\ Word \in Nat /\ limit < Word
      /\ (end = first + limit /\ end < Word) \/ end < first
  BY EndFacts
<1>2. last \in Nat /\ last <= Len(seq) /\ last <= end
  BY <1>1
<1>3. Slice(seq, first, limit) = page
  BY DEF Slice
<1>4. \A i \in first + 1 .. last : seq[i] \in S
  BY <1>2
<1>0. Len(seq) \in Nat
  OBVIOUS
<1> HIDE DEF end, last
<1>5. /\ page \in Seq(S) /\ Len(page) = (IF first + 1 <= last THEN last - (first + 1) + 1 ELSE 0)
      /\ \A i \in 1 .. last - (first + 1) + 1 : page[i] = seq[first + 1 + i - 1]
  BY <1>2, <1>4, SubSeqProperties
<1>6. Len(page) <= limit
  BY <1>1, <1>2, <1>5
<1>7. ASSUME first <= Len(seq)
      PROVE  /\ first + Len(page) <= Len(seq)
             /\ first + Len(page) < Word \/ page = <<>>
             /\ \A i \in 1 .. Len(page) : page[i] = seq[first + i]
  <2>1. CASE first + 1 <= last
    BY <1>1, <1>2, <1>5, <2>1
  <2>2. CASE ~(first + 1 <= last)
    <3>1. page = <<>>
      BY <1>2, <2>2, SubSeqEmpty
    <3>2. Len(page) = 0
      BY <1>5, <2>2
    <3> HIDE DEF page
    <3>3. \A i \in 1 .. Len(page) : page[i] = seq[first + i]
      BY <3>2
    <3>4. first + Len(page) <= Len(seq)
      BY <1>0, <1>7, <3>2
    <3> QED
      BY <3>1, <3>3, <3>4
  <2> QED
    BY <2>1, <2>2
<1> QED
  BY <1>3, <1>5, <1>6, <1>7

(* A slice of an empty list is empty. *)
LEMMA SliceOfNothing ==
    ASSUME NEW first \in Nat, first < Word, NEW limit \in Nat, limit <= MaxLimit
    PROVE  Slice(<<>>, first, limit) = <<>>
<1>1. (first + limit) % Word \in Nat
  BY EndFacts
<1>2. Slice(<<>>, first, limit) = SubSeq(<<>>, first + 1, 0)
  <2>1. Len(<<>>) = 0
    OBVIOUS
  <2> QED
    BY <1>1, <2>1 DEF Slice
<1>3. SubSeq(<<>>, first + 1, 0) = <<>>
  BY SubSeqEmpty
<1> QED
  BY <1>2, <1>3

(* Cursor::between gives no more rows than the limit, when no two rows have the same index. *)
LEMMA BetweenBounded ==
    ASSUME NEW rows, NEW n \in Nat, DOMAIN rows = 1 .. n, NEW index,
           \A i \in 1 .. n : rows[i][index] \in Nat,
           \A i, j \in 1 .. n : i # j => rows[i][index] # rows[j][index],
           NEW first \in Nat, first < Word, NEW limit \in Nat, limit <= MaxLimit
    PROVE  Len(Between(rows, index, first, limit)) \in Nat /\ Len(Between(rows, index, first, limit)) <= limit
<1> DEFINE end == (first + limit) % Word
           in  == {i \in DOMAIN rows : first <= rows[i][index] /\ rows[i][index] < end}
           T   == first .. first + limit - 1
           f   == [i \in in |-> rows[i][index]]
<1>1. end \in Nat /\ end <= first + limit
  BY EndFacts
<1> HIDE DEF end
<1>2. IsFiniteSet(T) /\ Cardinality(T) = limit
  <2>1. first \in Int /\ first + limit - 1 \in Int
    OBVIOUS
  <2>2. /\ IsFiniteSet(T)
        /\ Cardinality(T) = IF first > first + limit - 1 THEN 0 ELSE (first + limit - 1) - first + 1
    BY <2>1, FS_Interval
  <2> HIDE DEF T
  <2> QED
    BY <2>2
<1>3. f \in [in -> T] /\ \A i, j \in in : f[i] = f[j] => i = j
  <2>1. \A i \in in : rows[i][index] \in T
    BY <1>1
  <2> QED
    BY <2>1
<1> HIDE DEF f, T
<1>4. f \in Injection(in, T)
  BY <1>3 DEF Injection, IsInjective
<1>5. IsFiniteSet(in) /\ Cardinality(in) <= limit
  BY <1>2, <1>4, FS_Injection
<1>6. in \in SUBSET Int
  OBVIOUS
<1>7. Between(rows, index, first, limit) = [i \in DOMAIN Ascending(in) |-> rows[Ascending(in)[i]]]
  BY DEF Between, RowsAt, end
<1> HIDE DEF in
<1>8. Cardinality(in) \in Nat /\ DOMAIN Ascending(in) = 1 .. Cardinality(in)
  BY <1>5, <1>6, AscendingFacts
<1>9. Len(Between(rows, index, first, limit)) = Cardinality(in)
  BY <1>7, <1>8
<1> QED
  BY <1>5, <1>8, <1>9

(* The different numbers of some rows. *)
Numbers(rows, index) == {rows[i][index] : i \in DOMAIN rows}

(* Cursor::between gives rows of no more different numbers than the limit. *)
LEMMA NumbersBounded ==
    ASSUME NEW rows, NEW n \in Nat, DOMAIN rows = 1 .. n, NEW index,
           \A i \in 1 .. n : rows[i][index] \in Nat,
           NEW first \in Nat, first < Word, NEW limit \in Nat, limit <= MaxLimit
    PROVE  Cardinality(Numbers(Between(rows, index, first, limit), index)) <= limit
<1> DEFINE end == (first + limit) % Word
           in  == {i \in DOMAIN rows : first <= rows[i][index] /\ rows[i][index] < end}
           T   == first .. first + limit - 1
           at  == Ascending(in)
           page == Between(rows, index, first, limit)
<1>1. end \in Nat /\ end <= first + limit
  BY EndFacts
<1> HIDE DEF end
<1>2. IsFiniteSet(T) /\ Cardinality(T) = limit
  <2>1. first \in Int /\ first + limit - 1 \in Int
    OBVIOUS
  <2>2. /\ IsFiniteSet(T)
        /\ Cardinality(T) = IF first > first + limit - 1 THEN 0 ELSE (first + limit - 1) - first + 1
    BY <2>1, FS_Interval
  <2> HIDE DEF T
  <2> QED
    BY <2>2
<1>3. \A i \in in : rows[i][index] \in T
  BY <1>1
<1>4. in \in SUBSET Int /\ IsFiniteSet(in)
  <2>1. in \in SUBSET (1 .. n) /\ IsFiniteSet(1 .. n)
    BY FS_Interval
  <2>2. IsFiniteSet(in)
    BY <2>1, FS_Subset
  <2> QED
    BY <2>1, <2>2
<1>5. page = [i \in DOMAIN at |-> rows[at[i]]]
  BY DEF Between, RowsAt, end
<1> HIDE DEF in, T, page
<1>6. \A i \in DOMAIN at : at[i] \in in
  BY <1>4, AscendingFacts
<1> HIDE DEF at
<1>7. Numbers(page, index) \in SUBSET T
  BY <1>3, <1>5, <1>6 DEF Numbers
<1> QED
  BY <1>2, <1>7, FS_Subset DEF page

-------------------------------------------------------------------------------
(* The pages. *)

(* What check_limit lets through. *)
LEMMA LimitFacts ==
    ASSUME NEW p, \A x \in DOMAIN p : p[x] \in Value, NEW then, CheckLimit(p, then).result # <<>>
    PROVE  /\ CheckLimit(p, then) = then /\ Has(p, "first") /\ p["first"] \in Value
           /\ p["limit"].n \in Nat /\ p["limit"].n <= MaxLimit
<1>1. /\ Has(p, "first") /\ Has(p, "limit") /\ Number(p, "limit") /\ ~(p["limit"].n > MaxLimit)
      /\ CheckLimit(p, then) = then
  BY Outcomes DEF CheckLimit
<1>2. p["limit"].n \in Nat /\ p["first"] \in Value
  BY <1>1 DEF Has, Number, Value, Bool
<1> QED
  BY <1>1, <1>2, JsonRpcAssumption

(* The numbers that get_block_id and get_transaction_id make of a value. *)
LEMMA IdFacts ==
    ASSUME NEW p, p["first"] \in Value
    PROVE  /\ BlockId(p, "first").result # <<>> => BlockId(p, "first").result[1] \in Nat
           /\ TransactionId(p, "first").result # <<>> =>
                TransactionId(p, "first").result[1] \in Nat /\ TransactionId(p, "first").result[1] < Word
<1>1. Number(p, "first") => p["first"].n \in Nat
  BY DEF Number, Value, Bool
<1>2. Number(p, "first") => p["first"].n % Word \in Nat /\ p["first"].n % Word < Word
  BY <1>1, Wrap
<1>3. /\ String(p, "first") /\ IsDecimal(p["first"]) => p["first"].ns[1] \in Nat
      /\ String(p, "first") /\ BeginsWithNumber(p["first"]) => p["first"].ns[1] \in Nat
  BY DEF String, Value, Bool, IsDecimal, BeginsWithNumber
<1>4. BlockId(p, "first").result # <<>> => BlockId(p, "first").result[1] \in Nat
  BY <1>2, <1>3, Outcomes DEF BlockId
<1>5. Word \in Nat
  BY JsonRpcAssumption
<1>6. ASSUME TransactionId(p, "first").result # <<>>
      PROVE  TransactionId(p, "first").result[1] \in Nat /\ TransactionId(p, "first").result[1] < Word
  <2>1. CASE Number(p, "first")
    BY <1>2, <2>1, Outcomes DEF TransactionId
  <2>2. CASE ~Number(p, "first")
    <3>1. /\ String(p, "first") /\ BeginsWithNumber(p["first"]) /\ ~(p["first"].ns[1] >= Word)
          /\ TransactionId(p, "first") = Return(p["first"].ns[1])
      BY <1>6, <2>2, Outcomes DEF TransactionId
    <3>2. TransactionId(p, "first").result[1] = p["first"].ns[1]
      BY <3>1, Outcomes
    <3> QED
      BY <1>3, <1>5, <3>1, <3>2
  <2> QED
    BY <2>1, <2>2
<1> QED
  BY <1>4, <1>6

(* A slice of a list is no longer than the limit, whatever is on the list. *)
LEMMA SliceBounded ==
    ASSUME NEW seq, NEW n \in Nat, seq = [i \in 1 .. n |-> seq[i]],
           NEW first \in Nat, first < Word, NEW limit \in Nat, limit <= MaxLimit
    PROVE  Len(Slice(seq, first, limit)) \in Nat /\ Len(Slice(seq, first, limit)) <= limit
<1> DEFINE S == {seq[i] : i \in 1 .. n}
<1>1. seq \in [1 .. n -> S]
  BY Zenon
<1> HIDE DEF S
<1>2. seq \in Seq(S)
  BY <1>1
<1> QED
  BY <1>2, SliceFacts, LenProperties

LEMMA PageOfLimit ==
    ASSUME NEW out, NEW page, out = Return(page), Len(page) \in Nat,
           NEW limit \in Nat, Len(page) <= limit, limit <= MaxLimit
    PROVE  Len(out.result[1]) <= limit /\ limit <= MaxLimit
<1>1. out.result[1] = page
  BY Outcomes
<1> QED
  BY <1>1

LEMMA BlockPageBounded ==
    ASSUME NEW p, \A x \in DOMAIN p : p[x] \in Value, NEW d, NEW n \in Nat, DOMAIN d.blocks = 1 .. n,
           \A i \in 1 .. n : d.blocks[i].block \in Nat,
           \A i, j \in 1 .. n : i # j => d.blocks[i].block # d.blocks[j].block,
           GetBlockHistory(p, d).result # <<>>
    PROVE  Len(GetBlockHistory(p, d).result[1]) <= p["limit"].n /\ p["limit"].n <= MaxLimit
<1> DEFINE id == BlockId(p, "first").result[1]
           page == Between(d.blocks, "block", id % Word, p["limit"].n)
<1>1. /\ BlockId(p, "first").result # <<>> /\ GetBlockHistory(p, d) = Return(page)
      /\ p["limit"].n \in Nat /\ p["limit"].n <= MaxLimit /\ p["first"] \in Value
  BY LimitFacts DEF GetBlockHistory, With, BlockHistory
<1>2. id \in Nat
  BY <1>1, IdFacts
<1> HIDE DEF id
<1>3. id % Word \in Nat /\ id % Word < Word
  BY <1>2, Wrap
<1>4. Len(page) \in Nat /\ Len(page) <= p["limit"].n
  BY <1>1, <1>3, BetweenBounded
<1> HIDE DEF page
<1> QED
  BY <1>1, <1>4, PageOfLimit

LEMMA TransactionPageBounded ==
    ASSUME NEW p, \A x \in DOMAIN p : p[x] \in Value, NEW d, NEW n \in Nat, DOMAIN d.transactions = 1 .. n,
           \A i \in 1 .. n : d.transactions[i].serial \in Nat,
           GetTransactionHistory(p, d).result # <<>>
    PROVE  /\ Cardinality(Numbers(GetTransactionHistory(p, d).result[1], "serial")) <= p["limit"].n
           /\ p["limit"].n <= MaxLimit
<1> DEFINE id == TransactionId(p, "first").result[1]
           page == Between(d.transactions, "serial", id, p["limit"].n)
<1>1. /\ TransactionId(p, "first").result # <<>> /\ GetTransactionHistory(p, d) = Return(page)
      /\ p["limit"].n \in Nat /\ p["limit"].n <= MaxLimit /\ p["first"] \in Value
  BY LimitFacts DEF GetTransactionHistory, With, TransactionHistory
<1>2. id \in Nat /\ id < Word
  BY <1>1, IdFacts
<1> HIDE DEF id
<1>3. Cardinality(Numbers(page, "serial")) <= p["limit"].n
  BY <1>1, <1>2, NumbersBounded
<1> HIDE DEF page
<1> QED
  BY <1>1, <1>3, Outcomes

LEMMA WalletPageBounded ==
    ASSUME NEW p, \A x \in DOMAIN p : p[x] \in Value, NEW d, NEW n \in Nat,
           Field(d, p["public-key"], "transactions") = [i \in 1 .. n |-> Field(d, p["public-key"], "transactions")[i]]
    PROVE  /\ GetWalletHistoryTransactions(p, d).result # <<>> =>
                Len(GetWalletHistoryTransactions(p, d).result[1]) <= p["limit"].n /\ p["limit"].n <= MaxLimit
           /\ GetWalletHistoryBlocks(p, d).result # <<>> =>
                Len(GetWalletHistoryBlocks(p, d).result[1]) <= p["limit"].n /\ p["limit"].n <= MaxLimit
<1> DEFINE k == p["public-key"]
           rows == Field(d, k, "transactions")
           limit == p["limit"].n
<1>0. DOMAIN rows = 1 .. n
  OBVIOUS
<1>1. ASSUME GetWalletHistoryTransactions(p, d).result # <<>>
      PROVE  Len(GetWalletHistoryTransactions(p, d).result[1]) <= limit /\ limit <= MaxLimit
  <2> DEFINE id == TransactionId(p, "first").result[1]
             page == Slice(rows, id, limit)
  <2>1. /\ TransactionId(p, "first").result # <<>> /\ GetWalletHistoryTransactions(p, d) = Return(page)
        /\ limit \in Nat /\ limit <= MaxLimit /\ p["first"] \in Value
    <3> DEFINE then == With(StringOf(p, "public-key"), LAMBDA x :
                         With(TransactionId(p, "first"), LAMBDA y : Return(WalletTransactions(d, x, y, limit))))
    <3>1. GetWalletHistoryTransactions(p, d) = CheckLimit(p, then)
      BY <1>1, Outcomes DEF GetWalletHistoryTransactions, Check
    <3>2. then.result # <<>> => TransactionId(p, "first").result # <<>> /\ then = Return(page)
      BY Outcomes DEF With, StringOf, WalletTransactions
    <3> HIDE DEF then, page
    <3> QED
      BY <1>1, <3>1, <3>2, LimitFacts
  <2>2. id \in Nat /\ id < Word
    BY <2>1, IdFacts
  <2> HIDE DEF id, rows, limit
  <2>3. Len(page) \in Nat /\ Len(page) <= limit
    BY <2>1, <2>2, SliceBounded DEF rows
  <2> HIDE DEF page
  <2> QED
    BY <2>1, <2>3, PageOfLimit
<1>2. ASSUME GetWalletHistoryBlocks(p, d).result # <<>>
      PROVE  Len(GetWalletHistoryBlocks(p, d).result[1]) <= limit /\ limit <= MaxLimit
  <2> DEFINE id == BlockId(p, "first").result[1]
             ids == BlockIds(rows)
             page == Slice(ids, id % Word, limit)
  <2>1. /\ BlockId(p, "first").result # <<>> /\ GetWalletHistoryBlocks(p, d) = Return(page)
        /\ limit \in Nat /\ limit <= MaxLimit /\ p["first"] \in Value
    <3> DEFINE then == With(StringOf(p, "public-key"), LAMBDA x :
                         With(BlockId(p, "first"), LAMBDA y : Return(WalletBlocks(d, x, y % Word, limit))))
    <3>1. GetWalletHistoryBlocks(p, d) = CheckLimit(p, then)
      BY <1>2, Outcomes DEF GetWalletHistoryBlocks, Check
    <3>2. then.result # <<>> => BlockId(p, "first").result # <<>> /\ then = Return(page)
      BY Outcomes DEF With, StringOf, WalletBlocks
    <3> HIDE DEF then, page
    <3> QED
      BY <1>2, <3>1, <3>2, LimitFacts
  <2>2. id \in Nat
    BY <2>1, IdFacts
  <2>3. ids = [i \in 1 .. n |-> ids[i]]
    <3> HIDE DEF rows
    <3>1. DOMAIN ids = 1 .. n
      BY <1>0 DEF BlockIds
    <3>2. ids = [i \in DOMAIN ids |-> ids[i]]
      BY DEF BlockIds
    <3> HIDE DEF ids
    <3> QED
      BY <3>1, <3>2
  <2> HIDE DEF id, rows, limit, ids
  <2>4. id % Word \in Nat /\ id % Word < Word
    BY <2>2, Wrap
  <2>5. Len(page) \in Nat /\ Len(page) <= limit
    BY <2>1, <2>3, <2>4, SliceBounded
  <2> HIDE DEF page
  <2> QED
    BY <2>1, <2>5, PageOfLimit
<1> QED
  BY <1>1, <1>2

LEMMA NodePageBounded ==
    ASSUME NEW p, \A x \in DOMAIN p : p[x] \in Value, NEW d, NEW n \in Nat, Nodes(d) = [i \in 1 .. n |-> Nodes(d)[i]],
           GetNodes(p, d).result # <<>>
    PROVE  Len(GetNodes(p, d).result[1]) <= p["limit"].n /\ p["limit"].n <= MaxLimit
<1> DEFINE first == p["first"].n % Word
           page == Slice(Nodes(d), first, p["limit"].n)
<1>1. /\ Number(p, "first") /\ GetNodes(p, d) = Return(page)
      /\ p["limit"].n \in Nat /\ p["limit"].n <= MaxLimit /\ p["first"] \in Value
  <2> DEFINE then == IF ~Number(p, "first") THEN Raise("json") ELSE Return(page)
  <2>1. GetNodes(p, d) = CheckLimit(p, then)
    BY DEF GetNodes
  <2>2. then.result # <<>> => Number(p, "first") /\ then = Return(page)
    BY Outcomes
  <2> HIDE DEF then, page
  <2> QED
    BY <2>1, <2>2, LimitFacts
<1>2. p["first"].n \in Nat
  BY <1>1 DEF Number, Value, Bool
<1>3. first \in Nat /\ first < Word
  BY <1>2, Wrap
<1> HIDE DEF first
<1>4. Len(page) \in Nat /\ Len(page) <= p["limit"].n
  BY <1>1, <1>3, SliceBounded
<1> HIDE DEF page
<1> QED
  BY <1>1, <1>4, PageOfLimit

-------------------------------------------------------------------------------
(* Pages that are joined. *)

(* Induction by the smallest counterexample. *)
LEMMA LeastNumber == ASSUME NEW T, T \subseteq Nat, T # {} PROVE \E m \in T : \A k \in T : m <= k
<1> DEFINE R == OpToRel(<, Nat)
<1>1. IsWellFoundedOn(R, Nat)
  BY NatLessThanWellFounded
<1>2. \A x \in Nat, y \in Nat : <<y, x>> \in R <=> y < x
  BY DEF OpToRel
<1> HIDE DEF R
<1>3. PICK x \in T : \A y \in T : ~(<<y, x>> \in R)
  BY <1>1, WFMin
<1>4. \A y \in T : y \in Nat /\ x \in Nat /\ ~(y < x)
  BY <1>2, <1>3
<1> QED
  BY <1>4

(* Places that have all the places before them are the first ones. *)
LEMMA FirstPlaces ==
    ASSUME NEW m \in Nat, NEW T \in SUBSET (1 .. m), \A i \in T : \A j \in 1 .. m : j < i => j \in T
    PROVE  \E k \in 0 .. m : T = 1 .. k
<1> DEFINE out == {k \in Nat : k + 1 \notin T}
<1>1. m \in out
  OBVIOUS
<1>2. PICK k \in out : \A j \in out : k <= j
  BY <1>1, LeastNumber, out \subseteq Nat
<1>3. k \in Nat /\ k <= m /\ k + 1 \notin T
  BY <1>1, <1>2
<1>4. \A i \in 1 .. k : i \in T
  <2> SUFFICES ASSUME NEW i \in 1 .. k PROVE i \in T
    OBVIOUS
  <2>1. i - 1 \in Nat /\ i - 1 < k /\ (i - 1) + 1 = i
    BY <1>3
  <2>2. i - 1 \notin out
    BY <1>2, <1>3, <2>1
  <2> QED
    BY <2>1, <2>2
<1>5. \A i \in T : i \in 1 .. k
  <2> SUFFICES ASSUME NEW i \in T, ~(i <= k) PROVE FALSE
    OBVIOUS
  <2>1. i \in 1 .. m /\ i # k + 1
    BY <1>3
  <2>2. k + 1 \in 1 .. m /\ k + 1 < i
    BY <1>3, <2>1
  <2> QED
    BY <1>3, <2>2
<1>6. T = 1 .. k
  BY <1>4, <1>5
<1> QED
  BY <1>3, <1>6

(* Neighbouring places in their order. *)
LEMMA AscendingInterval ==
    ASSUME NEW a \in Nat, NEW b \in Nat, a <= b
    PROVE  Ascending((a + 1) .. b) = [i \in 1 .. (b - a) |-> a + i]
<1> DEFINE S == (a + 1) .. b
<1>1. S \in SUBSET Int /\ IsFiniteSet(S) /\ Cardinality(S) = b - a
  <2>1. IsFiniteSet(S) /\ Cardinality(S) = IF a + 1 > b THEN 0 ELSE b - (a + 1) + 1
    BY FS_Interval
  <2>2. S \in SUBSET Int
    OBVIOUS
  <2> HIDE DEF S
  <2> QED
    BY <2>1, <2>2
<1>2. \A x \in S : Cardinality({y \in S : y < x}) = x - a - 1
  <2> SUFFICES ASSUME NEW x \in S PROVE Cardinality({y \in S : y < x}) = x - a - 1
    OBVIOUS
  <2>1. {y \in S : y < x} = (a + 1) .. (x - 1) /\ x \in Int /\ a + 1 <= x
    OBVIOUS
  <2>2. Cardinality((a + 1) .. (x - 1)) = IF a + 1 > x - 1 THEN 0 ELSE (x - 1) - (a + 1) + 1
    BY <2>1, FS_Interval
  <2>3. Cardinality((a + 1) .. (x - 1)) = x - a - 1
    BY <2>1, <2>2
  <2> QED
    BY <2>1, <2>3
<1>3. \A x \in S : x \in Int
  OBVIOUS
<1> DEFINE c(i) == CHOOSE x \in S : Cardinality({y \in S : y < x}) = i - 1
<1>4. Ascending(S) = [i \in 1 .. Cardinality(S) |-> c(i)]
  BY DEF Ascending
<1> HIDE DEF S, c
<1>5. \A i \in 1 .. (b - a) : Ascending(S)[i] \in S /\ Cardinality({y \in S : y < Ascending(S)[i]}) = i - 1
  BY <1>1, AscendingFacts
<1>6. \A i \in 1 .. (b - a) : c(i) = a + i
  <2> SUFFICES ASSUME NEW i \in 1 .. (b - a) PROVE c(i) = a + i
    OBVIOUS
  <2>1. PICK x \in S : x = Ascending(S)[i] /\ x \in Int
    BY <1>3, <1>5
  <2>2. x - a - 1 = i - 1
    BY <1>2, <1>5, <2>1
  <2>3. x = c(i)
    BY <1>1, <1>4, <2>1
  <2> QED
    BY <2>1, <2>2, <2>3
<1> QED
  BY <1>1, <1>4, <1>6 DEF S

(* The rows after the first a, up to the b-th. *)
Piece(rows, a, b) == [i \in 1 .. (b - a) |-> rows[a + i]]

(* The rows are in the order of their numbers; several may have the same one. *)
Ordered(rows, index) ==
    /\ \A i \in 1 .. Len(rows) : rows[i][index] \in Nat
    /\ \A i, j \in 1 .. Len(rows) : i < j => rows[i][index] <= rows[j][index]

(* How many rows have numbers below v. *)
Below(rows, index, v) ==
    CHOOSE k \in 0 .. Len(rows) : {i \in 1 .. Len(rows) : rows[i][index] < v} = 1 .. k

LEMMA BelowFacts ==
    ASSUME NEW S, NEW rows \in Seq(S), NEW index, Ordered(rows, index), NEW v \in Nat
    PROVE  /\ Below(rows, index, v) \in 0 .. Len(rows)
           /\ {i \in 1 .. Len(rows) : rows[i][index] < v} = 1 .. Below(rows, index, v)
<1> DEFINE T == {i \in 1 .. Len(rows) : rows[i][index] < v}
<1>1. Len(rows) \in Nat
  OBVIOUS
<1>2. T \in SUBSET (1 .. Len(rows)) /\ \A i \in T : \A j \in 1 .. Len(rows) : j < i => j \in T
  <2>1. ASSUME NEW i \in T, NEW j \in 1 .. Len(rows), j < i PROVE j \in T
    <3>1. i \in 1 .. Len(rows) /\ rows[i][index] < v
      OBVIOUS
    <3>2. rows[j][index] \in Nat /\ rows[i][index] \in Nat /\ rows[j][index] <= rows[i][index]
      BY <2>1, <3>1 DEF Ordered
    <3>3. rows[j][index] < v
      BY <3>1, <3>2
    <3> QED
      BY <3>3
  <2>2. T \in SUBSET (1 .. Len(rows))
    OBVIOUS
  <2> QED
    BY <2>1, <2>2
<1> HIDE DEF T
<1>3. \E k \in 0 .. Len(rows) : T = 1 .. k
  BY <1>1, <1>2, FirstPlaces
<1> QED
  BY <1>3 DEF Below, T

(* Cursor::between of rows in order is a piece of them. *)
LEMMA BetweenIsPiece ==
    ASSUME NEW S, NEW rows \in Seq(S), NEW index, Ordered(rows, index),
           NEW first \in Nat, NEW limit \in Nat, first + limit < Word
    PROVE  /\ Below(rows, index, first) <= Below(rows, index, first + limit)
           /\ Between(rows, index, first, limit)
                = Piece(rows, Below(rows, index, first), Below(rows, index, first + limit))
<1> DEFINE a == Below(rows, index, first)
           b == Below(rows, index, first + limit)
           m == Len(rows)
           in == {i \in DOMAIN rows : first <= rows[i][index] /\ rows[i][index] < first + limit}
<1>1. m \in Nat /\ DOMAIN rows = 1 .. m /\ first + limit \in Nat
  OBVIOUS
<1>2. a \in 0 .. m /\ {i \in 1 .. m : rows[i][index] < first} = 1 .. a
  BY BelowFacts
<1>3. b \in 0 .. m /\ {i \in 1 .. m : rows[i][index] < first + limit} = 1 .. b
  BY <1>1, BelowFacts
<1> HIDE DEF a, b
<1>4. \A i \in 1 .. m : rows[i][index] \in Nat
  BY DEF Ordered
<1> HIDE DEF m
<1>5. a <= b
  <2>1. \A i \in 1 .. a : i \in 1 .. b
    BY <1>1, <1>2, <1>3, <1>4
  <2> QED
    BY <1>1, <1>2, <1>3, <2>1
<1>6. in = (a + 1) .. b
  <2>1. \A i \in 1 .. m : i \in 1 .. a <=> rows[i][index] < first
    BY <1>2
  <2>2. \A i \in 1 .. m : i \in 1 .. b <=> rows[i][index] < first + limit
    BY <1>3
  <2>3. \A i \in in : i \in (a + 1) .. b
    BY <1>1, <1>2, <1>3, <1>4, <2>1, <2>2
  <2>4. \A i \in (a + 1) .. b : i \in in
    BY <1>1, <1>2, <1>3, <1>4, <2>1, <2>2
  <2> QED
    BY <2>3, <2>4
<1>7. Between(rows, index, first, limit) = RowsAt(rows, in)
  <2>1. (first + limit) % Word = first + limit
    BY <1>1, Wrap
  <2> QED
    BY <2>1 DEF Between
<1> HIDE DEF in
<1>8. RowsAt(rows, in) = Piece(rows, a, b)
  <2>1. Ascending(in) = [i \in 1 .. (b - a) |-> a + i]
    BY <1>1, <1>2, <1>3, <1>5, <1>6, AscendingInterval
  <2> QED
    BY <2>1 DEF RowsAt, Piece
<1> QED
  BY <1>5, <1>7, <1>8 DEF a, b

(* A piece and the piece that follows it. *)
LEMMA PiecesJoin ==
    ASSUME NEW S, NEW rows \in Seq(S), NEW a \in 0 .. Len(rows), NEW b \in 0 .. Len(rows), a <= b
    PROVE  /\ Piece(rows, 0, a) \o Piece(rows, a, b) = Piece(rows, 0, b)
           /\ Piece(rows, 0, Len(rows)) = rows
<1>1. Len(rows) \in Nat /\ \A i \in 1 .. Len(rows) : rows[i] \in S
  OBVIOUS
<1>2. Piece(rows, 0, a) \in Seq(S) /\ Len(Piece(rows, 0, a)) = a
  BY <1>1 DEF Piece
<1>3. Piece(rows, a, b) \in Seq(S) /\ Len(Piece(rows, a, b)) = b - a
  BY <1>1 DEF Piece
<1>4. Piece(rows, 0, b) \in Seq(S) /\ Len(Piece(rows, 0, b)) = b
  BY <1>1 DEF Piece
<1> DEFINE joined == Piece(rows, 0, a) \o Piece(rows, a, b)
<1>5. joined \in Seq(S) /\ Len(joined) = b
  BY <1>1, <1>2, <1>3
<1>6. \A i \in 1 .. b : joined[i] = Piece(rows, 0, b)[i]
  <2> SUFFICES ASSUME NEW i \in 1 .. b PROVE joined[i] = Piece(rows, 0, b)[i]
    OBVIOUS
  <2>1. Piece(rows, 0, b)[i] = rows[i]
    BY <1>1 DEF Piece
  <2>2. CASE i <= a
    <3>1. joined[i] = Piece(rows, 0, a)[i]
      BY <1>1, <1>2, <1>3, <2>2
    <3> QED
      BY <1>1, <2>1, <2>2, <3>1 DEF Piece
  <2>3. CASE i > a
    <3>1. joined[i] = Piece(rows, a, b)[i - a]
      BY <1>1, <1>2, <1>3, <2>3
    <3>2. i - a \in 1 .. (b - a) /\ a + (i - a) = i
      BY <1>1, <2>3
    <3> QED
      BY <2>1, <3>1, <3>2 DEF Piece
  <2>4. i <= a \/ i > a
    BY <1>1
  <2> QED
    BY <2>2, <2>3, <2>4
<1> HIDE DEF joined
<1>7. joined = Piece(rows, 0, b)
  BY <1>4, <1>5, <1>6
<1>8. Piece(rows, 0, Len(rows)) = rows
  BY <1>1 DEF Piece
<1> QED
  BY <1>7, <1>8 DEF joined

(* What FlattenSeq defines: f[i] is the first i sequences, joined. *)
Flattens(f, seqs) ==
    f = [i \in 1 .. Len(seqs) |-> IF i = 1 THEN seqs[i] ELSE f[i - 1] \o seqs[i]]

(* Pieces that follow one another are joined to the beginning of the rows. *)
LEMMA FlattenPieces ==
    ASSUME NEW S, NEW rows \in Seq(S), NEW n \in Nat \ {0}, NEW K \in [0 .. n -> 0 .. Len(rows)], K[0] = 0,
           \A i \in 1 .. n : K[i - 1] <= K[i],
           NEW seqs, seqs = [i \in 1 .. n |-> Piece(rows, K[i - 1], K[i])]
    PROVE  FlattenSeq(seqs) = Piece(rows, 0, K[n])
<1> DEFINE it == CHOOSE f : Flattens(f, seqs)
           g == [i \in 1 .. n |-> Piece(rows, 0, K[i])]
<1>1. Len(seqs) = n /\ \A i \in 1 .. n : seqs[i] = Piece(rows, K[i - 1], K[i])
  OBVIOUS
<1>2. FlattenSeq(seqs) = it[n]
  BY <1>1 DEF FlattenSeq, Flattens
<1>3. \A i \in 1 .. n : i # 1 => /\ i - 1 \in 1 .. n
                                 /\ Piece(rows, 0, K[i - 1]) \o seqs[i] = Piece(rows, 0, K[i])
  <2> SUFFICES ASSUME NEW i \in 1 .. n, i # 1
               PROVE  i - 1 \in 1 .. n /\ Piece(rows, 0, K[i - 1]) \o seqs[i] = Piece(rows, 0, K[i])
    OBVIOUS
  <2>1. i - 1 \in 1 .. n /\ K[i - 1] \in 0 .. Len(rows) /\ K[i] \in 0 .. Len(rows) /\ K[i - 1] <= K[i]
    OBVIOUS
  <2>2. Piece(rows, 0, K[i - 1]) \o Piece(rows, K[i - 1], K[i]) = Piece(rows, 0, K[i])
    BY <2>1, PiecesJoin
  <2> QED
    BY <1>1, <2>1, <2>2
<1>4. seqs[1] = Piece(rows, 0, K[1])
  BY <1>1
<1>5. Flattens(g, seqs)
  <2>1. \A i \in 1 .. n : g[i] = IF i = 1 THEN seqs[i] ELSE g[i - 1] \o seqs[i]
    BY <1>3, <1>4
  <2>2. g = [i \in 1 .. n |-> g[i]]
    OBVIOUS
  <2> HIDE DEF g
  <2> QED
    BY <1>1, <2>1, <2>2 DEF Flattens
<1>6. Flattens(it, seqs)
  BY <1>5
<1> HIDE DEF it
<1> DEFINE Bad == {i \in 1 .. n : it[i] # Piece(rows, 0, K[i])}
<1>7. \A i \in 1 .. n : it[i] = IF i = 1 THEN seqs[i] ELSE it[i - 1] \o seqs[i]
  BY <1>1, <1>6 DEF Flattens
<1>8. Bad = {}
  <2> SUFFICES ASSUME Bad # {} PROVE FALSE
    OBVIOUS
  <2>1. PICK i \in Bad : \A k \in Bad : i <= k
    BY LeastNumber, Bad \subseteq Nat
  <2>2. i \in 1 .. n /\ it[i] # Piece(rows, 0, K[i])
    BY <2>1
  <2>3. i # 1
    BY <1>4, <1>7, <2>2
  <2>4. i - 1 \in 1 .. n /\ i - 1 \notin Bad
    BY <2>1, <2>2, <2>3
  <2>5. it[i - 1] = Piece(rows, 0, K[i - 1])
    BY <2>4
  <2> QED
    BY <1>3, <1>7, <2>2, <2>3, <2>5
<1>9. n \in 1 .. n
  OBVIOUS
<1> QED
  BY <1>2, <1>8, <1>9

LEMMA Multiples ==
    ASSUME NEW limit \in Nat, NEW n \in Nat, NEW i \in 1 .. n
    PROVE  /\ limit * (i - 1) \in Nat /\ limit * i \in Nat
           /\ limit * (i - 1) + limit = limit * i /\ limit * i <= limit * n
           /\ limit * n < Word => limit * i < Word
BY JsonRpcAssumption

(* The numbers of the rows are below v. *)
NumbersBelow(rows, index, v) == \A i \in 1 .. Len(rows) : rows[i][index] < v

(* The first n pages of a table. *)
ArePages(pages, rows, index, limit, n) ==
    pages = [i \in 1 .. n |-> Between(rows, index, limit * (i - 1), limit)]

(***************************************************************************)
(* get_block_history and get_transaction_history: the pages of a table,    *)
(* one after another, are the table, when its rows are in order and the    *)
(* end of the last page does not wrap.                                     *)
(***************************************************************************)
LEMMA PagesAreTable ==
    ASSUME NEW S, NEW rows \in Seq(S), NEW index, Ordered(rows, index),
           NEW limit \in Nat, NEW n \in Nat, limit * n < Word,
           NumbersBelow(rows, index, limit * n),
           NEW pages, ArePages(pages, rows, index, limit, n)
    PROVE  FlattenSeq(pages) = rows
<1> DEFINE m == Len(rows)
           K == [i \in 0 .. n |-> Below(rows, index, limit * i)]
<1>1. m \in Nat /\ \A i \in 1 .. m : rows[i][index] \in Nat
  BY DEF Ordered
<1>2. CASE n = 0
  <2>1. rows = <<>>
    <3>1. limit * n = 0
      BY <1>2
    <3>2. m = 0
      BY <1>1, <3>1 DEF NumbersBelow
    <3> QED
      BY <3>2
  <2>2. pages = <<>>
    BY <1>2 DEF ArePages
  <2>3. Len(<<>>) = 0
    OBVIOUS
  <2> QED
    BY <2>1, <2>2, <2>3 DEF FlattenSeq
<1>3. CASE n # 0
  <2>1. \A i \in 0 .. n : limit * i \in Nat
    OBVIOUS
  <2>2. \A i \in 0 .. n : /\ K[i] \in 0 .. m
                          /\ {j \in 1 .. m : rows[j][index] < limit * i} = 1 .. K[i]
    BY <2>1, BelowFacts
  <2>3. K \in [0 .. n -> 0 .. m]
    BY <2>1, BelowFacts
  <2>4. \A i \in 1 .. n : i - 1 \in 0 .. n /\ i \in 0 .. n
    OBVIOUS
  <2>5. \A i \in 1 .. n : K[i - 1] <= K[i] /\ pages[i] = Piece(rows, K[i - 1], K[i])
    <3> SUFFICES ASSUME NEW i \in 1 .. n PROVE K[i - 1] <= K[i] /\ pages[i] = Piece(rows, K[i - 1], K[i])
      OBVIOUS
    <3> DEFINE first == limit * (i - 1)
    <3>1. first \in Nat /\ first + limit = limit * i /\ limit * i \in Nat /\ limit * i <= limit * n /\ limit * n \in Nat
      BY Multiples
    <3>2. first + limit < Word
      <4>1. limit * i < Word
        BY Multiples
      <4> QED
        BY <3>1, <4>1, Zenon
    <3>3. K[i - 1] = Below(rows, index, first) /\ K[i] = Below(rows, index, limit * i)
      BY <2>4
    <3>4. pages[i] = Between(rows, index, first, limit)
      BY DEF ArePages
    <3> HIDE DEF first, K
    <3>5. /\ Below(rows, index, first) <= Below(rows, index, first + limit)
          /\ Between(rows, index, first, limit)
                = Piece(rows, Below(rows, index, first), Below(rows, index, first + limit))
      BY <3>1, <3>2, BetweenIsPiece
    <3> QED
      BY <3>1, <3>3, <3>4, <3>5
  <2> HIDE DEF K
  <2>6. K[0] = 0
    <3>1. 0 \in 0 .. n /\ limit * 0 = 0
      OBVIOUS
    <3>2. K[0] \in 0 .. m /\ {j \in 1 .. m : rows[j][index] < 0} = 1 .. K[0]
      BY <2>2, <3>1
    <3>3. {j \in 1 .. m : rows[j][index] < 0} = {}
      BY <1>1
    <3>4. 1 \notin 1 .. K[0]
      BY <3>2, <3>3
    <3> QED
      BY <1>1, <3>2, <3>4
  <2>7. K[n] = m
    <3>1. K[n] \in 0 .. m /\ {j \in 1 .. m : rows[j][index] < limit * n} = 1 .. K[n]
      BY <2>2
    <3>2. \A j \in 1 .. m : j \in 1 .. K[n]
      BY <3>1 DEF NumbersBelow
    <3> HIDE DEF m
    <3> QED
      BY <1>1, <3>1, <3>2
  <2>8. pages = [i \in 1 .. n |-> Piece(rows, K[i - 1], K[i])]
    BY <2>5 DEF ArePages
  <2>9. n \in Nat \ {0}
    BY <1>3
  <2>10. FlattenSeq(pages) = Piece(rows, 0, K[n])
    BY <2>3, <2>5, <2>6, <2>8, <2>9, FlattenPieces
  <2>11. m \in 0 .. Len(rows)
    BY <1>1
  <2>12. Piece(rows, 0, m) = rows
    BY <2>11, PiecesJoin
  <2> QED
    BY <2>7, <2>10, <2>12
<1> QED
  BY <1>2, <1>3

(* Ascending is ascending. *)
LEMMA AscendingIncreases ==
    ASSUME NEW S \in SUBSET Int, IsFiniteSet(S),
           NEW i \in 1 .. Cardinality(S), NEW j \in 1 .. Cardinality(S), i < j
    PROVE  Ascending(S)[i] < Ascending(S)[j]
<1> DEFINE x == Ascending(S)[i]
           y == Ascending(S)[j]
<1>1. /\ Cardinality(S) \in Nat /\ x \in S /\ y \in S
      /\ Cardinality({z \in S : z < x}) = i - 1 /\ Cardinality({z \in S : z < y}) = j - 1
  BY AscendingFacts
<1> HIDE DEF x, y
<1>2. x \in Int /\ y \in Int /\ \A z \in S : z \in Int
  BY <1>1
<1> SUFFICES ASSUME ~(x < y) PROVE FALSE
  BY DEF x, y
<1>3. {z \in S : z < y} \in SUBSET {z \in S : z < x}
  <2>1. \A z \in S : z < y => z < x
    BY <1>2
  <2> QED
    BY <2>1
<1>4. IsFiniteSet({z \in S : z < x})
  BY FS_Subset
<1>5. Cardinality({z \in S : z < y}) <= Cardinality({z \in S : z < x})
  BY <1>3, <1>4, FS_Subset
<1> QED
  BY <1>1, <1>5

-------------------------------------------------------------------------------
(* Requests for a page of a history, and for one block. *)

LEMMA RequestFacts ==
    ASSUME NEW method \in Methods, NEW p, NEW d,
           Apply(method, p, d, d).raised = None
    PROVE  Answer(Request(0, method, p), d, d).result = Apply(method, p, d, d).result
<1> DEFINE b == Request(0, method, p)
<1>1. /\ b.text = "json" /\ b.jsonrpc = "2.0" /\ b.id = <<0>> /\ b.params = <<p>> /\ b.method = <<method>>
  BY DEF Request, Body
<1> HIDE DEF b
<1>2. FromString(b).method = <<method>> /\ FromString(b).params = p
  BY <1>1 DEF FromString
<1>3. <<method>> # <<>> /\ <<method>>[1] = method
  OBVIOUS
<1>4. Out(b, d, d) = Apply(method, p, d, d)
  BY <1>2, <1>3 DEF Out
<1> QED
  BY <1>4, AnswerCases DEF b

LEMMA HistoryAnswer ==
    ASSUME NEW d, NEW first \in Nat, first < Word, NEW limit \in Nat, limit <= MaxLimit,
           NEW p, p = [first |-> Num(first), limit |-> Num(limit)]
    PROVE  /\ Answer(Request(0, "get-block-history", p), d, d).result[1]
                = Between(d.blocks, "block", first, limit)
           /\ Answer(Request(0, "get-transaction-history", p), d, d).result[1]
                = Between(d.transactions, "serial", first, limit)
<1>1. DOMAIN p = {"first", "limit"} /\ p["first"] = Num(first) /\ p["limit"] = Num(limit)
  OBVIOUS
<1>2. \A n : Num(n).kind = "number" /\ Num(n).n = n
  BY DEF Num
<1>3. Has(p, "first") /\ Has(p, "limit") /\ Number(p, "first") /\ Number(p, "limit")
      /\ p["first"].n = first /\ p["limit"].n = limit
  BY <1>1, <1>2 DEF Has, Number
<1>4. first % Word = first /\ ~(limit > MaxLimit)
  BY Wrap, JsonRpcAssumption
<1>5. \A then : CheckLimit(p, then) = then
  BY <1>3, <1>4 DEF CheckLimit
<1>6. BlockId(p, "first") = Return(first) /\ TransactionId(p, "first") = Return(first)
  BY <1>3, <1>4 DEF BlockId, TransactionId
<1>7. \A x : Return(x).result # <<>> /\ Return(x).result[1] = x /\ Return(x).raised = None
  BY Outcomes DEF Return
<1>8. GetBlockHistory(p, d) = Return(Between(d.blocks, "block", first, limit))
  BY <1>3, <1>4, <1>5, <1>6, <1>7 DEF GetBlockHistory, With, BlockHistory
<1>9. GetTransactionHistory(p, d) = Return(Between(d.transactions, "serial", first, limit))
  BY <1>3, <1>5, <1>6, <1>7 DEF GetTransactionHistory, With, TransactionHistory
<1>10. /\ Apply("get-block-history", p, d, d) = GetBlockHistory(p, d)
       /\ Apply("get-transaction-history", p, d, d) = GetTransactionHistory(p, d)
  BY DEF Apply, Constants
<1>11. "get-block-history" \in Methods /\ "get-transaction-history" \in Methods
  BY DEF Methods
<1> QED
  BY <1>7, <1>8, <1>9, <1>10, <1>11, RequestFacts

LEMMA BlockAnswer ==
    ASSUME NEW d, NEW id \in Nat, id < Word, NEW p, p = [id |-> Num(id)]
    PROVE  Answer(Request(0, "get-block", p), d, d).result[1] = Get(d.blocks, "block", id)
<1>1. DOMAIN p = {"id"} /\ p["id"] = Num(id)
  OBVIOUS
<1>2. Num(id).kind = "number" /\ Num(id).n = id
  BY DEF Num
<1>3. Has(p, "id") /\ Number(p, "id") /\ p["id"].n = id
  BY <1>1, <1>2 DEF Has, Number
<1>4. id % Word = id
  BY Wrap
<1>5. BlockId(p, "id") = Return(id)
  BY <1>3, <1>4 DEF BlockId
<1>6. \A x : Return(x).result # <<>> /\ Return(x).result[1] = x /\ Return(x).raised = None
  BY Outcomes DEF Return
<1>7. GetBlock(p, d) = Return(Get(d.blocks, "block", id))
  BY <1>5, <1>6 DEF GetBlock, With, BlockById
<1>8. Apply("get-block", p, d, d) = GetBlock(p, d)
  BY DEF Apply, Constants
<1>9. "get-block" \in Methods
  BY DEF Methods
<1> QED
  BY <1>6, <1>7, <1>8, <1>9, RequestFacts

(* A page of one number is an array of the row with that number, if there is one. *)
LEMMA PageOfOne ==
    ASSUME NEW S, NEW rows \in Seq(S), NEW index, NEW first \in Nat, first + 1 < Word,
           \A i \in 1 .. Len(rows) : rows[i][index] \in Nat,
           \A i, j \in 1 .. Len(rows) : i # j => rows[i][index] # rows[j][index]
    PROVE  LET page == Between(rows, index, first, 1)
               one  == Get(rows, index, first)
           IN  IF \E i \in 1 .. Len(rows) : rows[i][index] = first
               THEN page = <<one>> ELSE page = <<>> /\ one = <<>>
<1> DEFINE page == Between(rows, index, first, 1)
           at == {i \in DOMAIN rows : rows[i][index] = first}
<1>1. (first + 1) % Word = first + 1
  BY Wrap
<1>2. DOMAIN rows = 1 .. Len(rows)
  OBVIOUS
<1>3. \A i \in DOMAIN rows : (first <= rows[i][index] /\ rows[i][index] < first + 1) <=> rows[i][index] = first
  BY <1>2
<1>4. {i \in DOMAIN rows : first <= rows[i][index] /\ rows[i][index] < first + 1} = at
  BY <1>3
<1>5. page = RowsAt(rows, at) /\ Find(rows, index, first) = RowsAt(rows, at)
  BY <1>1, <1>4 DEF Between, Find
<1>6. ASSUME NEW k \in 1 .. Len(rows), rows[k][index] = first PROVE page = <<Get(rows, index, first)>>
  <2>1. at = {k}
    BY <1>2, <1>6
  <2>2. at \in SUBSET Int /\ IsFiniteSet(at) /\ Cardinality(at) = 1 /\ \A i \in at : i = k
    <3>1. IsFiniteSet({k}) /\ Cardinality({k}) = 1
      BY FS_Singleton, Zenon
    <3>2. at \in SUBSET Int /\ \A i \in at : i = k
      BY <2>1
    <3> QED
      BY <2>1, <3>1, <3>2
  <2> HIDE DEF at
  <2>3. DOMAIN Ascending(at) = 1 .. 1 /\ Ascending(at)[1] = k
    <3>1. 1 \in 1 .. 1
      OBVIOUS
    <3> QED
      BY <2>2, <3>1, AscendingFacts
  <2>4. \A i \in 1 .. 1 : Ascending(at)[i] = k
    BY <2>3
  <2>5. RowsAt(rows, at) = << rows[k] >>
    <3>1. RowsAt(rows, at) = [i \in 1 .. 1 |-> rows[k]]
      BY <2>3, <2>4 DEF RowsAt
    <3>2. [i \in 1 .. 1 |-> rows[k]] = << rows[k] >>
      OBVIOUS
    <3> QED
      BY <3>1, <3>2
  <2>6. Find(rows, index, first) = << rows[k] >> /\ page = << rows[k] >>
    BY <1>5, <2>5
  <2> HIDE DEF page
  <2>7. Get(rows, index, first) = rows[k]
    BY <2>6 DEF Get
  <2> QED
    BY <2>6, <2>7
<1>7. ASSUME ~\E i \in 1 .. Len(rows) : rows[i][index] = first
      PROVE  page = <<>> /\ Get(rows, index, first) = <<>>
  <2>1. at = {}
    BY <1>2, <1>7
  <2>2. Ascending({}) = <<>>
    <3>1. Cardinality({}) = 0
      BY FS_EmptySet
    <3> QED
      BY <3>1 DEF Ascending
  <2>3. RowsAt(rows, {}) = <<>>
    BY <2>2 DEF RowsAt
  <2> QED
    BY <1>5, <2>1, <2>3 DEF Get
<1> QED
  BY <1>6, <1>7
===============================================================================
