-------------------------------- MODULE Backend --------------------------------
(***************************************************************************)
(* The backend process (src/backend): the HTTP listener, its sessions and  *)
(* the single thread that runs all their handlers, answering JsonRpc       *)
(* requests from tables that the indexer, another process, keeps filling.  *)
(*                                                                         *)
(* A handler runs to its end before another one starts, but each database  *)
(* query sees the tables as they are then.  Only get-wallet-history-state  *)
(* makes two queries, so only it is split in two steps.  The indexer is    *)
(* modelled as far as it shows: blocks arrive in any order, the block of a *)
(* wallet before its transactions, and in the stream a serial may be given *)
(* twice or to no row, and its count go back, as failing calls and crashes *)
(* of the indexer leave them (BlockIndex, TxIndex and Wallets have the     *)
(* details; the flush of the stream by a migration is left out here).      *)
(***************************************************************************)
EXTENDS JsonRpc, FiniteSets, FiniteSetsExt

CONSTANTS
    Clients,        \* connections, one for each client
    Requests,       \* the HTTP requests clients send, besides those for the next page
    Probes,         \* bodies whose answers are examined against every state of the tables
    PageSize,       \* the limit NextPage asks for
    Key,            \* the wallet with a history
    WalletTxs,      \* how many transactions of the wallet each of its blocks has
    MaxAsks,        \* bound on the requests of the clients, together
    MaxBlocks,      \* bound on block ids
    MaxSerials,     \* bound on serials
    MaxTxs,         \* bound on the rows of the transaction stream
    MaxGrowth,      \* bound on what the tables hold once the server has started
    MaxFaults       \* bound on failing queries

ASSUME BackendAssumption ==
    /\ {PageSize, MaxAsks, MaxBlocks, MaxSerials, MaxTxs, MaxGrowth, MaxFaults} \subseteq Nat
    /\ WalletTxs \in Seq(Nat)
    /\ "nobody" \notin Clients
    /\ MaxLimit > 0 /\ \A n \in {MaxBlocks, MaxSerials} : MaxLimit * (n + 1) < Word

VARIABLES
    server,         \* "starting", "created", "serving", "exited"
    running,        \* the session inside a handler that waits for a query, or Nobody
    session,        \* [Clients -> the session of the client's connection]
    asked,          \* requests sent
    got,            \* the pages of the wallet's history received, joined
    blocks,         \* ids in the table blocks
    txs,            \* the rows of the table transactions, in the order of their serials
    count,          \* the row of transactions_state: none or one count
    history,        \* the row of Key in wallets: none or one
    faults          \* failed queries

tables == <<blocks, txs, count, history>>
vars   == <<server, running, session, asked, got, tables, faults>>

-------------------------------------------------------------------------------
Nobody == "nobody"

TransactionRow(serial, n) ==
    [serial |-> serial, id |-> Str(<<"A">>, <<n, 0>>), digest |-> Str(<<"digest">>, <<n>>)]

BlockRows == LET ids == Ascending(blocks) IN [i \in DOMAIN ids |-> [block |-> ids[i]]]

(* What a query sees. *)
Tables ==
    [blocks       |-> BlockRows,
     transactions |-> txs,
     count        |-> count,
     wallets      |-> [k \in IF history = <<>> THEN {} ELSE {Key} |-> history[1]],
     node_states  |-> <<<<"n1", "n2", "n3">>>>,
     node_wallets |-> <<[id |-> Key]>>,
     blockchain_info      |-> <<"info">>,
     version              |-> 2,
     turnovers            |-> <<>>,
     transaction_turnover |-> <<>>,
     wallets_top          |-> <<[position |-> 0, asset |-> 0], [position |-> 0, asset |-> 1]>>]

(* get_data and get_number when the query fails: as if nothing was stored. *)
NoTables ==
    [f \in DOMAIN Tables |-> IF f = "wallets" THEN [k \in {} |-> None]
                             ELSE IF f = "version" THEN 0 ELSE <<>>]

Http(path, verb, version, body) == [path |-> path, verb |-> verb, version |-> version, body |-> body]
Params(key, rest) ==
    [x \in {"public-key"} \cup DOMAIN rest |-> IF x = "public-key" THEN key ELSE rest[x]]
Post(body) == Http("/v1/api", "post", 11, body)

Method(h) == FromString(h.body).method

(* Only NextPage asks for the wallet's history; what is examined are bodies nlohmann::json can give. *)
ASSUME RequestsAssumption ==
    /\ \A h \in Requests : /\ h = Http(h.path, h.verb, h.version, h.body)
                           /\ Method(h) # <<"get-wallet-history-transactions">>
    /\ \A b \in Probes : HasValues(b)

(* A response without a body or without its length ends the connection. *)
Bare(status) == [status |-> status, id |-> <<>>, result |-> <<>>, error |-> None]

(* request::handle.  A trailing slash of the path is dropped. *)
Handle(h, early, d) ==
    CASE h.path \notin {"/v1/api", "/v1/api/"} -> Bare(403)
      [] h.verb = "post"                       -> Answer(h.body, early, d)
      [] h.verb = "options"                    -> Bare(200)
      [] OTHER                                 -> Bare(405)

(* message::need_eof as send_lambda passes it on. *)
NeedEof(h) == h.path \notin {"/v1/api", "/v1/api/"} \/ h.verb # "post" \/ h.version = 10

(* get-wallet-history-state makes two queries; every other method makes one at most. *)
TwoQueries(h) ==
    /\ h.path \in {"/v1/api", "/v1/api/"} /\ h.verb = "post"
    /\ FromString(h.body).method = <<"get-wallet-history-state">>

Session(pc, sent, req, kept, early, res) ==
    [pc |-> pc, sent |-> sent, req |-> req, kept |-> kept, early |-> early, res |-> res]

IdleSession   == Session("none", <<>>, <<>>, Empty, <<>>, <<>>)
ClosedSession == Session("closed", <<>>, <<>>, Empty, <<>>, <<>>)

(* Session::do_read: it waits for the next request; req_ is what it was. *)
Reading(kept) == Session("reading", <<>>, <<>>, kept, <<>>, <<>>)

(***************************************************************************)
(* How much there is in the tables.  The stream, which only Probes ask     *)
(* for, counts twice; the transactions of a wallet's block do not count.   *)
(***************************************************************************)
Growth ==
    Cardinality(blocks) + 2 * (Len(txs) + IF count = <<>> THEN 0 ELSE count[1] + 1)
      + IF history = <<>> THEN 0 ELSE Len(history[1].blocks)

Init ==
    /\ server = "starting"
    /\ running = Nobody
    /\ session = [c \in Clients |-> IdleSession]
    /\ asked = 0
    /\ got = <<>>
    /\ blocks = {} /\ txs = <<>> /\ count = <<>> /\ history = <<>>
    /\ faults = 0

-------------------------------------------------------------------------------
(* The server. *)

(* Server::Create: the router, and a listener with its acceptor open. *)
Create ==
    /\ server = "starting" /\ Growth <= MaxGrowth
    /\ server' = "created"
    /\ UNCHANGED <<running, session, asked, got, tables, faults>>

(* set_router adds the methods, then Server::run starts to accept and runs the io_context. *)
Run ==
    /\ server = "created"
    /\ server' = "serving"
    /\ UNCHANGED <<running, session, asked, got, tables, faults>>

(***************************************************************************)
(* No database, an address that does not parse, an acceptor that does not  *)
(* open, and an accept that fails (after a failed bind or listen too):     *)
(* the process ends, and every connection with it.                         *)
(***************************************************************************)
Exit ==
    /\ server # "exited" /\ Growth <= MaxGrowth /\ running = Nobody /\ faults < MaxFaults
    /\ server' = "exited"
    /\ session' = [c \in Clients |-> ClosedSession]
    /\ faults' = faults + 1
    /\ UNCHANGED <<running, asked, got, tables>>

Idle == server = "serving" /\ running = Nobody

(* Listener::on_accept: a session is made and starts to read. *)
OnAccept(c) ==
    /\ Idle
    /\ session[c].pc = "none"
    /\ session' = [session EXCEPT ![c] = Reading(Empty)]
    /\ UNCHANGED <<server, running, asked, got, tables, faults>>

(***************************************************************************)
(* What async_read leaves in the body of req_.  Session::do_read does not  *)
(* empty req_ first, which Beast leaves undefined: the new text replaces   *)
(* the old one or is appended to it, and two requests in one text do not   *)
(* parse.  (External: the parser of Beast.)                                *)
(***************************************************************************)
Received(kept, body) ==
    {body} \cup IF kept = Empty THEN {} ELSE {IF body = Empty THEN kept ELSE Garbage}

Reply(c, h, res) ==
    [session EXCEPT ![c] = Session("writing", session[c].sent, <<h>>, session[c].kept, <<>>, <<res>>)]

(* The handler of h between its two queries; the first one saw `early`. *)
Hold(c, h, early) ==
    [session EXCEPT ![c] = Session("counting", session[c].sent, <<h>>, session[c].kept, early, <<>>)]

(* Session::on_read and handle, of a method that makes one query at most. *)
OnRead(c) ==
    /\ Idle
    /\ session[c].pc = "reading" /\ session[c].req # <<>>
    /\ \E body \in Received(session[c].kept, session[c].req[1].body) :
         LET h == [session[c].req[1] EXCEPT !.body = body]
         IN  /\ ~TwoQueries(h)
             /\ \/ /\ session' = Reply(c, h, Handle(h, Tables, Tables))
                   /\ UNCHANGED faults
                \/ /\ faults < MaxFaults
                   /\ faults' = faults + 1
                   /\ session' = Reply(c, h, Handle(h, NoTables, NoTables))
    /\ UNCHANGED <<server, running, asked, got, tables>>

(* Slip: the handler waits for the query without keeping the thread. *)
OnReadFirstYields(c) ==
    /\ Idle
    /\ session[c].pc = "reading" /\ session[c].req # <<>>
    /\ TwoQueries(session[c].req[1])
    /\ session' = Hold(c, session[c].req[1], history)
    /\ UNCHANGED <<server, running, asked, got, tables, faults>>

(* The same of get-wallet-history-state, up to its first query. *)
OnReadFirst(c) ==
    /\ Idle
    /\ session[c].pc = "reading" /\ session[c].req # <<>>
    /\ \E body \in Received(session[c].kept, session[c].req[1].body) :
         LET h == [session[c].req[1] EXCEPT !.body = body]
         IN  /\ TwoQueries(h)
             /\ running' = c
             /\ \/ /\ session' = Hold(c, h, history)
                   /\ UNCHANGED faults
                \/ /\ faults < MaxFaults
                   /\ faults' = faults + 1
                   /\ session' = Hold(c, h, <<>>)
    /\ UNCHANGED <<server, asked, got, tables>>

(* Slip: the handler tries again until there is a wallet. *)
OnReadSecondRetries(c) ==
    /\ session[c].pc = "counting" /\ history # <<>>
    /\ running' = Nobody
    /\ session' = Reply(c, session[c].req[1], Handle(session[c].req[1], Tables, Tables))
    /\ UNCHANGED <<server, asked, got, tables, faults>>

(* Its second query and the response. *)
OnReadSecond(c) ==
    /\ session[c].pc = "counting"
    /\ running' = Nobody
    /\ LET early == [Tables EXCEPT !.wallets = [k \in IF session[c].early = <<>> THEN {} ELSE {Key}
                                                   |-> session[c].early[1]]]
           h == session[c].req[1]
       IN  \/ /\ session' = Reply(c, h, Handle(h, early, Tables))
              /\ UNCHANGED faults
           \/ /\ faults < MaxFaults
              /\ faults' = faults + 1
              /\ session' = Reply(c, h, Handle(h, early, NoTables))
    /\ UNCHANGED <<server, asked, got, tables>>

(* Session::on_write: read again, or close.  The client receives the response. *)
OnWrite(c) ==
    /\ Idle
    /\ session[c].pc = "writing"
    /\ LET h == session[c].req[1]
           res == session[c].res[1]
       IN  /\ session' = [session EXCEPT ![c] = IF NeedEof(h) THEN ClosedSession ELSE Reading(h.body)]
           /\ got' = IF Method(session[c].sent[1]) = <<"get-wallet-history-transactions">> /\ res.error = None
                     THEN got \o res.result[1] ELSE got
    /\ UNCHANGED <<server, running, asked, tables, faults>>

(* The client goes away: on_read or on_write gets an error and the session ends. *)
Drop(c) ==
    /\ Idle
    /\ session[c].pc \in {"reading", "writing"} /\ faults < MaxFaults
    /\ session' = [session EXCEPT ![c] = ClosedSession]
    /\ faults' = faults + 1
    /\ UNCHANGED <<server, running, asked, got, tables>>

-------------------------------------------------------------------------------
(* Clients. *)

Send(c, h) ==
    /\ session[c].pc = "reading" /\ session[c].req = <<>> /\ asked < MaxAsks
    /\ asked' = asked + 1
    /\ session' = [session EXCEPT ![c] = Session("reading", <<h>>, <<h>>, session[c].kept, <<>>, <<>>)]
    /\ UNCHANGED <<server, running, got, tables, faults>>

Paging(c) == session[c].sent # <<>> /\ Method(session[c].sent[1]) = <<"get-wallet-history-transactions">>

(* The next page of the wallet's history, when the last one has come. *)
NextPage(c) ==
    /\ \A x \in Clients : ~Paging(x)
    /\ Send(c, Post(Request(0, "get-wallet-history-transactions",
                            Params(Key, [first |-> Num(Len(got)), limit |-> Num(PageSize)]))))

(* A closed connection is given up and another one made. *)
Reconnect(c) ==
    /\ server = "serving"
    /\ session[c].pc = "closed"
    /\ session' = [session EXCEPT ![c] = IdleSession]
    /\ UNCHANGED <<server, running, asked, got, tables, faults>>

-------------------------------------------------------------------------------
(* The indexer, as far as the tables show it. *)

AddBlock(b) ==
    /\ b \notin blocks
    /\ blocks' = blocks \cup {b}
    /\ UNCHANGED <<server, running, session, asked, got, txs, count, history, faults>>

(***************************************************************************)
(* The pass of the stream, as far as the tables show it.  last_count is 0  *)
(* after a read of the count that fails, and goes up by one for each item  *)
(* whether its insert and its update_state are swallowed or not: whatever  *)
(* the tables hold, the next row to come may have any serial, one that is  *)
(* taken included, and the count may become any number, 0 included.        *)
(***************************************************************************)

(* insert.  Rows of one serial are in the order of their ids. *)
AddTransaction(n) ==
    /\ Len(txs) < MaxTxs
    /\ \E k \in 0 .. Len(txs) :
         /\ \A i \in 1 .. k : txs[i].serial <= n
         /\ \A i \in k + 1 .. Len(txs) : n <= txs[i].serial
         /\ txs' = InsertAt(txs, k + 1, TransactionRow(n, Len(txs)))
    /\ UNCHANGED <<server, running, session, asked, got, blocks, count, history, faults>>

(* update_state, after an insert or after the read that failed. *)
UpdateCount(n) ==
    /\ count # <<n>>
    /\ count' = <<n>>
    /\ UNCHANGED <<server, running, session, asked, got, blocks, txs, history, faults>>

(* A block of the wallet, in any order, then its transactions. *)
AddWalletBlock(b) ==
    /\ history # <<>> => b \notin ToSet(history[1].blocks)
    /\ history' = IF history = <<>> THEN <<[blocks |-> <<b>>, transactions |-> <<>>]>>
                  ELSE <<[history[1] EXCEPT !.blocks = Append(@, b)]>>
    /\ UNCHANGED <<server, running, session, asked, got, blocks, txs, count, faults>>

AddWalletTransactions(b) ==
    /\ history # <<>>
    /\ b \in ToSet(history[1].blocks)
    /\ \A r \in ToSet(history[1].transactions) : r.block # b
    /\ history' = <<[history[1] EXCEPT !.transactions =
                       @ \o [i \in 1 .. WalletTxs[b] |-> [block |-> b, id |-> i]]]>>
    /\ UNCHANGED <<server, running, session, asked, got, blocks, txs, count, faults>>

Indexer ==
    /\ \/ \E b \in 0 .. MaxBlocks - 1 : AddBlock(b)
       \/ \E b \in DOMAIN WalletTxs : AddWalletBlock(b) \/ AddWalletTransactions(b)
       \/ \E n \in 0 .. MaxSerials - 1 : AddTransaction(n)
       \/ \E n \in 0 .. MaxSerials : UpdateCount(n)
    /\ server # "starting" => Growth' <= MaxGrowth

Io(c) == OnAccept(c) \/ OnRead(c) \/ OnReadFirst(c) \/ OnReadSecond(c) \/ OnWrite(c)

Next ==
    \/ Create \/ Run \/ Exit
    \/ \E c \in Clients : Io(c) \/ Drop(c) \/ Reconnect(c) \/ NextPage(c) \/ \E h \in Requests : Send(c, h)
    \/ Indexer

Spec == Init /\ [][Next]_vars

(* The thread in io_context::run takes every handler that is ready. *)
FairSpec == Spec /\ WF_vars(Create \/ Run) /\ \A c \in Clients : WF_vars(Io(c))
-------------------------------------------------------------------------------
(* Properties. *)

(* Types; and the thread is inside a handler exactly while one session waits for its second query. *)
TypeOK ==
    /\ server \in {"starting", "created", "serving", "exited"}
    /\ running \in Clients \cup {Nobody}
    /\ \A c \in Clients :
         /\ session[c].pc \in {"none", "reading", "counting", "writing", "closed"}
         /\ \A x \in {"sent", "req", "early", "res"} : Len(session[c][x]) <= 1
         /\ (session[c].pc = "counting") <=> (running = c)
         /\ session[c].pc = "writing" => session[c].res # <<>>
    /\ blocks \subseteq 0 .. MaxBlocks - 1
    /\ Len(txs) <= MaxTxs /\ \A i \in 1 .. Len(txs) : txs[i].serial < MaxSerials
    /\ asked \in 0 .. MaxAsks /\ faults \in 0 .. MaxFaults

WellFormed(body) ==
    /\ body.text = "json"
    /\ body.jsonrpc = "2.0" /\ body.id # <<>> /\ body.method # <<>> /\ body.params # <<>>

(***************************************************************************)
(* An answer without an error belongs to the request it follows: the       *)
(* client sent a complete request and the answer has its id, although      *)
(* req_ still holds the previous request of the connection when the next   *)
(* one is read.  A POST without a body is the exception, on which the      *)
(* previous request may be answered once more.                             *)
(***************************************************************************)
SuccessIsGenuine ==
    \A c \in Clients :
      (/\ session[c].pc = "writing"
       /\ session[c].req[1].verb = "post" /\ session[c].res[1].status = 200
       /\ session[c].res[1].error = None /\ session[c].sent[1].body # Empty)
        => /\ WellFormed(session[c].sent[1].body)
           /\ session[c].res[1].id = session[c].sent[1].body.id

(***************************************************************************)
(* The answers to the bodies in Probes depend on the tables only, and the  *)
(* tables go through all their states whether the server runs or not: they *)
(* are examined while it has not started.                                  *)
(***************************************************************************)
Probing == server = "starting"

(***************************************************************************)
(* Whatever the tables hold, and when the query fails, a request is        *)
(* answered with a result or an error: no method of backend/api gives up   *)
(* without saying so.  Only the decimal of uint256_t(-1), taken for an     *)
(* error already reported, gets neither.                                   *)
(***************************************************************************)
NeverSilent ==
    Probing => \A b \in Probes, d \in {Tables, NoTables} :
      LET a == Answer(b, d, d)
      IN  (a.result = <<>> /\ a.error = None) => AsksSentinel(FromString(b).params)

Paged == {"get-block-history", "get-transaction-history", "get-wallet-history-blocks",
          "get-wallet-history-transactions", "get-nodes"}

(* The rows of a page; after a crash several transactions may have one serial, which counts once. *)
PageLength(method, page) ==
    IF method = "get-transaction-history" THEN Cardinality({page[i].serial : i \in DOMAIN page}) ELSE Len(page)

(***************************************************************************)
(* No page is longer than the limit the request asks for, and no limit is  *)
(* larger than the one check_limit accepts, malformed requests included,   *)
(* and although a range of ids or serials may wrap.  A page of the stream  *)
(* is bounded in serials only: the rows that a crash of the indexer gave   *)
(* one serial are all in it.                                               *)
(***************************************************************************)
PageBounded ==
    Probing => \A b \in Probes :
      LET ctx == FromString(b)
          a   == Answer(b, Tables, Tables)
      IN  (ctx.method # <<>> /\ ctx.method[1] \in Paged /\ a.result # <<>> /\ a.result[1] # <<>>)
            => /\ PageLength(ctx.method[1], a.result[1]) <= ctx.params["limit"].n
               /\ ctx.params["limit"].n <= MaxLimit

(***************************************************************************)
(* Pages of any accepted size, asked one after another, are the whole      *)
(* table, each row once and in order, holes in the ids and rows of one     *)
(* serial included; and a page of one block is an array of what get-block  *)
(* answers (Readme.md:152), which is an empty array if there is none.      *)
(***************************************************************************)
PagesJoin ==
    LET page(method, first, limit) ==
            Answer(Post(Request(0, method, [first |-> Num(first), limit |-> Num(limit)])).body,
                   Tables, Tables).result[1]
        pages(method, limit, n) == FlattenSeq([i \in 1 .. n |-> page(method, limit * (i - 1), limit)])
    IN  Probing =>
        /\ \A limit \in 1 .. MaxLimit :
             /\ pages("get-block-history", limit, MaxBlocks) = Tables.blocks
             /\ pages("get-transaction-history", limit, MaxSerials) = Tables.transactions
        /\ \A id \in 0 .. MaxBlocks :
             LET found == page("get-block-history", id, 1)
                 one   == Answer(Request(0, "get-block", [id |-> Num(id)]), Tables, Tables).result[1]
             IN  IF id \in blocks THEN found = <<one>> ELSE found = <<>> /\ one = <<>>

(***************************************************************************)
(* A client that pages through a wallet's history while the indexer        *)
(* appends to it, on one connection or several and with queries that fail, *)
(* has always collected a prefix of the history: nothing skipped, nothing  *)
(* twice.                                                                  *)
(***************************************************************************)
PagesComplete ==
    got # <<>> => /\ Len(got) <= Len(history[1].transactions)
                  /\ got = SubSeq(history[1].transactions, 1, Len(got))

(***************************************************************************)
(* A count on its way to a client is true however far the indexer gets     *)
(* meanwhile, and between the two queries of get-wallet-history-state too: *)
(* the last block and the wallet's transactions it counts are there to be  *)
(* asked for.  The count of the stream is left out, as it promises less:   *)
(* an insert that was swallowed is counted, and a reset forgets rows.      *)
(***************************************************************************)
CountedRowsExist ==
    \A c \in Clients :
      (session[c].pc = "writing" /\ session[c].res[1].result # <<>>) =>
        LET r == session[c].res[1].result[1]
            m == Method(session[c].req[1])
        IN  /\ m = <<"get-block-history-state">> => r.count - 1 \in blocks
            /\ (m = <<"get-wallet-history-state">> /\ r.transaction > 0)
                 => r.transaction <= Len(history[1].transactions)

(***************************************************************************)
(* Every request that reached its session is answered, or its connection   *)
(* or the server ends: no handler keeps the only thread.                   *)
(***************************************************************************)
EveryRequestAnswered ==
    \A c \in Clients :
      session[c].sent # <<>> ~> session[c].sent = <<>>
===============================================================================
