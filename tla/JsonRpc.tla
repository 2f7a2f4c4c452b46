-------------------------------- MODULE JsonRpc --------------------------------
(***************************************************************************)
(* What the backend answers to the body of a POST, as a function of the    *)
(* tables: context::from_string, the router, the methods of backend/api    *)
(* and the queries they make.                                              *)
(*                                                                         *)
(* A body keeps the fields the code looks at.  A value that may be missing *)
(* is a sequence of at most one element.  A parameter is a number, a       *)
(* string or something else; a string keeps its parts between colons, the  *)
(* names first ("A:1:3" is <<"A">>, <<1, 3>>), and is a decimal when it is *)
(* one number.  A method maps the parameters and the tables to an outcome: *)
(* what it leaves in response.result and response.error, or the exception  *)
(* it raises.                                                              *)
(***************************************************************************)
EXTENDS Integers, Sequences, FiniteSets, SequencesExt

CONSTANTS
    Word,       \* 2^64: ids of a history and places of a slice are taken modulo Word
    Short,      \* 2^16: an asset code is taken modulo Short
    Last256,    \* uint256_t(-1), what get_block_id answers for "no id"
    MaxLimit    \* the largest "limit" that check_limit accepts

ASSUME JsonRpcAssumption == {Word, Short, Last256, MaxLimit} \subseteq Nat /\ MaxLimit < Word /\ Short > 1

-------------------------------------------------------------------------------
(* Values and bodies. *)

None == "none"

Num(n)      == [kind |-> "number", n |-> n]
Str(ks, ns) == [kind |-> "string", ks |-> ks, ns |-> ns]
Bool        == [kind |-> "bool"]

Decimal(n)   == Str(<<>>, <<n>>)
IsDecimal(v) == v.ks = <<>> /\ Len(v.ns) = 1

(* Text after text, with a colon between. *)
Colon(v, w) == Str(v.ks \o w.ks, v.ns \o w.ns)

(* What nlohmann::json makes of a parameter, as far as the methods look at it. *)
Value == [kind : {"number"}, n : Nat] \cup [kind : {"string"}, ks : Seq(STRING), ns : Seq(Nat)] \cup {Bool}

Empty   == [text |-> "empty"]
Garbage == [text |-> "garbage"]
Body(version, id, method, params) ==
    [text |-> "json", jsonrpc |-> version, id |-> id, method |-> method, params |-> params]

(* A body with everything it needs. *)
Request(id, method, params) == Body("2.0", <<id>>, <<method>>, <<params>>)

NoParams == [x \in {} |-> None]

(* The parameters a body gives, if it gives any, are values. *)
HasValues(body) ==
    (body.text = "json" /\ body.params # <<>>) => \A x \in DOMAIN body.params[1] : body.params[1][x] \in Value

(* Slip: the id of the response is set before the method is looked at. *)
FromStringEarlyId(body) ==
    LET failed(e) == [id |-> <<>>, method |-> <<>>, params |-> NoParams, error |-> e]
    IN  IF body.text # "json" THEN failed("ParseError")
        ELSE IF body.jsonrpc # "2.0" \/ body.id = <<>> THEN failed("ParseError")
        ELSE [id |-> body.id, method |-> body.method, error |-> None,
              params |-> IF body.params = <<>> THEN NoParams ELSE body.params[1]]

(***************************************************************************)
(* context::from_string.  The method of the request is set before its      *)
(* parameters ("param" or "params") are looked for, the id of the response *)
(* only after both; the tests that follow cannot fail any more.            *)
(***************************************************************************)
FromString(body) ==
    LET failed(e) == [id |-> <<>>, method |-> <<>>, params |-> NoParams, error |-> e]
    IN  IF body.text # "json" THEN failed("ParseError")
        ELSE IF body.jsonrpc # "2.0" \/ body.id = <<>> THEN failed("ParseError")
        ELSE IF body.method = <<>> THEN failed("InvalidRequest")
        ELSE IF body.params = <<>> THEN [failed("ParseError") EXCEPT !.method = body.method]
        ELSE [id |-> body.id, method |-> body.method, params |-> body.params[1], error |-> None]

-------------------------------------------------------------------------------
(* Outcomes of a method, and its parameters. *)

Return(r) == [result |-> <<r>>, error |-> None, raised |-> None]
Refuse    == [result |-> <<>>, error |-> "ParseError", raised |-> None]
Silent    == [result |-> <<>>, error |-> None, raised |-> None]
Raise(x)  == [result |-> <<>>, error |-> None, raised |-> x]

Has(p, name) == name \in DOMAIN p

(* param.get<uint64_t>() and param.get<std::string>() of another type throw. *)
Number(p, name) == p[name].kind = "number"
String(p, name) == p[name].kind = "string"

(* Slip: a limit that is too large is refused without an error. *)
CheckLimitSilent(p, then) ==
    IF ~Has(p, "first") \/ ~Has(p, "limit") THEN Refuse
    ELSE IF ~Number(p, "limit") THEN Raise("json")
    ELSE IF p["limit"].n > MaxLimit THEN Silent
    ELSE then

(* api::params::check_limit, then the rest of the method. *)
CheckLimit(p, then) ==
    IF ~Has(p, "first") \/ ~Has(p, "limit") THEN Refuse
    ELSE IF ~Number(p, "limit") THEN Raise("json")
    ELSE IF p["limit"].n > MaxLimit THEN Refuse
    ELSE then

(***************************************************************************)
(* api::params::get_block_id: a number, a decimal, or Last256 and an       *)
(* error; the decimal of Last256 itself leaves no error.                   *)
(***************************************************************************)
BlockId(p, name) ==
    IF ~Has(p, name) THEN Refuse
    ELSE IF Number(p, name) THEN Return(p[name].n % Word)
    ELSE IF ~String(p, name) THEN Raise("json")
    ELSE IF ~IsDecimal(p[name]) THEN Refuse
    ELSE IF p[name].ns[1] = Last256 THEN Silent
    ELSE Return(p[name].ns[1])

(* uint256_t(-1), given as a decimal: what get_block_id also answers for an error. *)
AsksSentinel(p) == \E x \in DOMAIN p \cap {"id", "first"} : p[x] = Decimal(Last256)

(***************************************************************************)
(* api::params::get_transaction_id.  std::stoull reads the number a text   *)
(* begins with and ignores the rest; what it throws when there is none, or *)
(* a larger one than 64 bits hold, is no json error.                       *)
(***************************************************************************)
BeginsWithNumber(v) == v.ks = <<>> /\ v.ns # <<>>

TransactionId(p, name) ==
    IF Number(p, name) THEN Return(p[name].n % Word)
    ELSE IF ~String(p, name) THEN Raise("json")
    ELSE IF ~BeginsWithNumber(p[name]) \/ p[name].ns[1] >= Word THEN Raise("other")
    ELSE Return(p[name].ns[1])

(* api::params::check, then the rest of the method. *)
Check(p, name, then) == IF Has(p, name) THEN then ELSE Refuse

(* param.get<std::string>() *)
StringOf(p, name) == IF String(p, name) THEN Return(p[name]) ELSE Raise("json")

(* A parameter that was read, then the rest of the method. *)
With(read, then(_)) == IF read.result # <<>> THEN then(read.result[1]) ELSE read

-------------------------------------------------------------------------------
(* Queries. *)

(* The numbers of a finite set in ascending order: number i has i - 1 smaller ones. *)
Ascending(S) ==
    [i \in 1 .. Cardinality(S) |-> CHOOSE x \in S : Cardinality({y \in S : y < x}) = i - 1]

(* The rows at some places of a table, in the order of the table. *)
RowsAt(rows, places) == LET at == Ascending(places) IN [i \in DOMAIN at |-> rows[at[i]]]

(* Slip: the end of the range is included. *)
BetweenClosed(rows, index, first, limit) ==
    SelectSeq(rows, LAMBDA r : first <= r[index] /\ r[index] <= (first + limit) % Word)

(* Slip: the first row is left out. *)
BetweenOpen(rows, index, first, limit) ==
    SelectSeq(rows, LAMBDA r : first < r[index] /\ r[index] < (first + limit) % Word)

(* Cursor::between: the rows from first to before first + limit, on 64 bits. *)
Between(rows, index, first, limit) ==
    LET end == (first + limit) % Word
    IN  RowsAt(rows, {i \in DOMAIN rows : first <= rows[i][index] /\ rows[i][index] < end})

(* Slip: the first place is left out. *)
SliceOpen(seq, first, limit) ==
    SubSeq(seq, first + 2, IF first + limit < Len(seq) THEN first + limit + 1 ELSE Len(seq))

(* Cursor::slice: the places from first to before first + limit. *)
Slice(seq, first, limit) ==
    LET end == (first + limit) % Word
    IN  SubSeq(seq, first + 1, IF end < Len(seq) THEN end ELSE Len(seq))

(* Cursor::get_all(index) and get_data: the rows of a value of an index, an array. *)
Find(rows, index, x) == RowsAt(rows, {i \in DOMAIN rows : rows[i][index] = x})

(* Cursor::get(key) and get_data: the row itself, or an empty array if there is none. *)
Get(rows, id, x) == LET found == Find(rows, id, x) IN IF found = <<>> THEN <<>> ELSE found[1]

(* Cursor::field of the wallet of a key: a list, or an empty array without a wallet. *)
Field(d, key, name) == IF key \in DOMAIN d.wallets THEN d.wallets[key][name] ELSE <<>>

(* Cursor::max(index) and get_data: the newest row, or an empty array. *)
Newest(rows) == IF rows = <<>> THEN <<>> ELSE Last(rows)

(* The nodes of the newest state, or an empty array. *)
Nodes(d) == IF d.node_states = <<>> THEN <<>> ELSE Last(d.node_states)

(* The getters of Db that are one query. *)
BlockById(d, id)                     == Get(d.blocks, "block", id)
BlockHistory(d, first, limit)        == Between(d.blocks, "block", first, limit)
BlockHistoryState(d)                 == Newest(d.blocks)
TransactionById(d, id)               == Get(d.transactions, "id", id)
TransactionByDigest(d, x)            == Find(d.transactions, "digest", x)
TransactionHistory(d, first, limit)  == Between(d.transactions, "serial", first, limit)
WalletTransactions(d, k, first, limit) == Slice(Field(d, k, "transactions"), first, limit)
WalletNode(d, k)                     == Get(d.node_wallets, "id", k)
WalletsTop(d, asset, limit) ==
    SelectSeq(Between(d.wallets_top, "position", 0, limit), LAMBDA r : r.asset = asset)

(* The block ids of a wallet come from its transactions, in ascending order, repeats included. *)
BlockIdAt(rows, i) ==
    CHOOSE b \in {rows[j].block : j \in DOMAIN rows} :
        /\ Cardinality({j \in DOMAIN rows : rows[j].block < b}) < i
        /\ i <= Cardinality({j \in DOMAIN rows : rows[j].block <= b})
BlockIds(rows) == [i \in DOMAIN rows |-> BlockIdAt(rows, i)]
WalletBlocks(d, k, first, limit) == Slice(BlockIds(Field(d, k, "transactions")), first, limit)

-------------------------------------------------------------------------------
(* The methods. *)

GetBlock(p, d) ==
    With(BlockId(p, "id"), LAMBDA id : Return(BlockById(d, id)))

GetBlockHistory(p, d) ==
    CheckLimit(p, With(BlockId(p, "first"),
        LAMBDA id : Return(BlockHistory(d, id % Word, p["limit"].n))))

(* state["block-id"] of an empty array throws. *)
GetBlockHistoryState(p, d) ==
    IF d.blocks = <<>> THEN Raise("json") ELSE Return([count |-> BlockHistoryState(d).block + 1, first |-> 0])

(* get_block_id of get_transaction.cpp: a text, or nothing. *)
BlockPart(p) ==
    IF ~Has(p, "block-id") THEN <<>>
    ELSE IF Number(p, "block-id") THEN <<Decimal(p["block-id"].n % Word)>> ELSE <<p["block-id"]>>

GetTransaction(p, d) ==
    LET find(id)  == Return(TransactionById(d, id))
        part      == BlockPart(p)
        badPart   == part # <<>> /\ part[1].kind # "string"
        prefix(k) == IF part = <<>> THEN k ELSE Colon(k, part[1])
    IN  IF Has(p, "digest")
        THEN With(StringOf(p, "digest"), LAMBDA x : Return(TransactionByDigest(d, x)))
        ELSE Check(p, "id",
          IF Number(p, "id")
          THEN Check(p, "public-key", With(StringOf(p, "public-key"), LAMBDA k :
                 IF part = <<>> THEN Refuse
                 ELSE IF badPart THEN Raise("json")
                 ELSE find(Colon(prefix(k), Decimal(p["id"].n % Word)))))
          ELSE IF Has(p, "public-key")
          THEN With(StringOf(p, "public-key"), LAMBDA k :
                 IF badPart THEN Raise("json")
                 ELSE With(StringOf(p, "id"), LAMBDA id : find(Colon(prefix(k), id))))
          ELSE With(StringOf(p, "id"), find))

GetTransactionHistory(p, d) ==
    CheckLimit(p, With(TransactionId(p, "first"),
        LAMBDA id : Return(TransactionHistory(d, id, p["limit"].n))))

GetTransactionHistoryState(p, d) ==
    IF d.count = <<>> THEN Raise("json") ELSE Return([count |-> d.count[1], first |-> 0])

GetWalletHistoryBlocks(p, d) ==
    Check(p, "public-key", CheckLimit(p, With(StringOf(p, "public-key"), LAMBDA k :
        With(BlockId(p, "first"), LAMBDA id :
            Return(WalletBlocks(d, k, id % Word, p["limit"].n))))))

GetWalletHistoryTransactions(p, d) ==
    Check(p, "public-key", CheckLimit(p, With(StringOf(p, "public-key"), LAMBDA k :
        With(TransactionId(p, "first"), LAMBDA id :
            Return(WalletTransactions(d, k, id, p["limit"].n))))))

(* Slip: the two counts are swapped. *)
WalletHistoryCountsSwapped(key, early, d) ==
    [block       |-> IF key \in DOMAIN early.wallets THEN Len(Field(d, key, "transactions")) ELSE 0,
     transaction |-> IF key \in DOMAIN early.wallets THEN Len(Field(early, key, "blocks")) ELSE 0]

(***************************************************************************)
(* Db::get_wallet_history_state: two queries, the tables may change in     *)
(* between; both counts are 0 unless both queries find a wallet.           *)
(***************************************************************************)
WalletHistoryCounts(key, early, d) ==
    LET both == key \in DOMAIN early.wallets /\ key \in DOMAIN d.wallets
    IN  [block       |-> IF both THEN Len(Field(early, key, "blocks")) ELSE 0,
         transaction |-> IF both THEN Len(Field(d, key, "transactions")) ELSE 0]

GetWalletHistoryState(p, early, d) ==
    Check(p, "public-key", With(StringOf(p, "public-key"),
        LAMBDA k : Return(WalletHistoryCounts(k, early, d))))

GetWalletNode(p, d) ==
    Check(p, "public-key", With(StringOf(p, "public-key"),
        LAMBDA k : Return(WalletNode(d, k))))

GetNodes(p, d) ==
    CheckLimit(p, IF ~Number(p, "first") THEN Raise("json")
                  ELSE Return(Slice(Nodes(d), p["first"].n % Word, p["limit"].n)))

GetNetworkState(p, d) ==
    IF d.node_states = <<>> THEN Raise("json")
    ELSE Return([count |-> Len(Last(d.node_states)), first |-> 0])

GetStatistics(p, d) ==
    Check(p, "name", With(StringOf(p, "name"), LAMBDA name :
        CASE name.ks = <<"turnover-24">>          -> Return(d.turnovers)
          [] name.ks = <<"transaction-turnover">> -> Return(d.transaction_turnover)
          [] name.ks = <<"wallets-top">> ->
                Check(p, "asset-code", Check(p, "limit",
                    IF ~Number(p, "asset-code") \/ ~Number(p, "limit") THEN Raise("json")
                    ELSE IF p["asset-code"].n % Short \notin {0, 1} THEN Refuse
                    ELSE Return(WalletsTop(d, p["asset-code"].n % Short, p["limit"].n))))
          [] OTHER -> Refuse))

-------------------------------------------------------------------------------
(* The router. *)

(* Methods that read no table: their result is a constant. *)
Constants == {"get-statistics-list", "help", "ping"}

Methods == Constants \cup
    {"get-block", "get-block-history", "get-block-history-state", "get-transaction",
     "get-transaction-history", "get-transaction-history-state", "get-wallet-history-blocks",
     "get-wallet-history-transactions", "get-wallet-history-state", "get-wallet-node", "get-nodes",
     "get-network-state", "get-blockchain-info", "get-version", "get-statistics"}

(* The registered method; `early` are the tables as its first query saw them. *)
Apply(method, p, early, d) ==
    CASE method \in Constants                         -> Return(method)
      [] method = "get-block"                         -> GetBlock(p, d)
      [] method = "get-block-history"                 -> GetBlockHistory(p, d)
      [] method = "get-block-history-state"           -> GetBlockHistoryState(p, d)
      [] method = "get-transaction"                   -> GetTransaction(p, d)
      [] method = "get-transaction-history"           -> GetTransactionHistory(p, d)
      [] method = "get-transaction-history-state"     -> GetTransactionHistoryState(p, d)
      [] method = "get-wallet-history-blocks"         -> GetWalletHistoryBlocks(p, d)
      [] method = "get-wallet-history-transactions"   -> GetWalletHistoryTransactions(p, d)
      [] method = "get-wallet-history-state"          -> GetWalletHistoryState(p, early, d)
      [] method = "get-wallet-node"                   -> GetWalletNode(p, d)
      [] method = "get-nodes"                         -> GetNodes(p, d)
      [] method = "get-network-state"                 -> GetNetworkState(p, d)
      [] method = "get-blockchain-info"               -> Return(Newest(d.blockchain_info))
      [] method = "get-version"                       -> Return(d.version)
      [] method = "get-statistics"                    -> GetStatistics(p, d)

(* An error of the method replaces the error of the parser. *)
Later(first, second) == IF second # None THEN second ELSE first

(* message::serialize: a result that is null and an error that is absent are left out. *)
Response(status, id, result, error) ==
    [status |-> status, id |-> id, result |-> result, error |-> error]

(***************************************************************************)
(* The POST branch of request::handle: from_string, RpcBase::apply, and    *)
(* the serialized response.  The method runs even after a parse error, as  *)
(* long as its name was read.                                              *)
(***************************************************************************)
Answer(body, early, d) ==
    LET ctx  == FromString(body)
        out  == IF ctx.method # <<>> /\ ctx.method[1] \in Methods
                THEN Apply(ctx.method[1], ctx.params, early, d) ELSE Raise("unknown method")
        answer(status, result, error) == Response(status, ctx.id, result, error)
    IN  CASE out.raised = None   -> answer(200, out.result, Later(ctx.error, out.error))
          [] out.raised = "json" -> answer(404, <<>>, "ParseError")
          [] out.raised = "other" -> answer(404, <<<<>>>>, Later("MethodNotFound", ctx.error))
          [] OTHER               -> answer(404, <<>>, Later("MethodNotFound", ctx.error))
===============================================================================
