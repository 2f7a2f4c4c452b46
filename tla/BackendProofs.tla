----------------------------- MODULE BackendProofs -----------------------------
(***************************************************************************)
(* What holds of the backend for any clients, requests and limits: its     *)
(* sessions, the pages a client joins, the counts it is told.              *)
(***************************************************************************)
EXTENDS Backend, JsonRpcProofs

-------------------------------------------------------------------------------
(* The sessions. *)

IsSession(s) == s = Session(s.pc, s.sent, s.req, s.kept, s.early, s.res)

IsHttp(h) == h = Http(h.path, h.verb, h.version, h.body)

(* One HTTP request. *)
OneHttp(x) == x = <<x[1]>> /\ IsHttp(x[1])

(* What the client sent, and what req_ makes of it. *)
Passed(sent, req) ==
    /\ req.path = sent.path /\ req.verb = sent.verb /\ req.version = sent.version
    /\ sent.body # Empty => req.body \in {sent.body, Garbage}

Holding(s) == OneHttp(s.sent) /\ OneHttp(s.req) /\ Passed(s.sent[1], s.req[1])

(* SuccessIsGenuine, of one session. *)
Genuine(s) ==
    (/\ s.req[1].verb = "post" /\ s.res[1].status = 200
     /\ s.res[1].error = None /\ s.sent[1].body # Empty)
      => WellFormed(s.sent[1].body) /\ s.res[1].id = s.sent[1].body.id

Waiting(s) ==
    /\ s.pc = "reading" /\ s.early = <<>> /\ s.res = <<>> /\ s.req = s.sent
    /\ s.sent = <<>> \/ OneHttp(s.sent)

Counting(s) ==
    s.pc = "counting" /\ (s.early = <<>> \/ s.early = <<s.early[1]>>) /\ s.res = <<>> /\ Holding(s)

Writing(s) ==
    s.pc = "writing" /\ s.early = <<>> /\ s.res = <<s.res[1]>> /\ Holding(s) /\ Genuine(s)

SessionOK(s) ==
    IsSession(s) /\ (s = IdleSession \/ s = ClosedSession \/ Waiting(s) \/ Counting(s) \/ Writing(s))

Sessions == session = [c \in Clients |-> session[c]] /\ \A c \in Clients : SessionOK(session[c])

(* Only the session inside a handler waits for a second query. *)
Thread ==
    /\ running \in Clients \cup {Nobody}
    /\ \A c \in Clients : (session[c].pc = "counting") <=> (running = c)

(* The session of one client becomes s. *)
Becomes(c, s) == session'[c] = s /\ \A x \in Clients \ {c} : session'[x] = session[x]

LEMMA UpdateFacts ==
    ASSUME Sessions, NEW c \in Clients, NEW s, session' = [session EXCEPT ![c] = s]
    PROVE  Becomes(c, s) /\ session' = [x \in Clients |-> session'[x]]
BY DEF Sessions, Becomes

LEMMA BecomesOK ==
    ASSUME Sessions, NEW c \in Clients, NEW s, session' = [session EXCEPT ![c] = s], SessionOK(s)
    PROVE  Sessions'
<1>1. Becomes(c, s) /\ session' = [x \in Clients |-> session'[x]]
  BY UpdateFacts
<1>2. \A x \in Clients : SessionOK(session'[x])
  BY <1>1 DEF Becomes, Sessions
<1> QED
  BY <1>1, <1>2 DEF Sessions

(* The sessions before and after each handler. *)
LEMMA OnAcceptEffect ==
    ASSUME Sessions, NEW c \in Clients, OnAccept(c)
    PROVE  session' = [session EXCEPT ![c] = Reading(Empty)]
BY DEF OnAccept

LEMMA SendEffect ==
    ASSUME Sessions, NEW c \in Clients, NEW h, Send(c, h)
    PROVE  session' = [session EXCEPT ![c] = Session("reading", <<h>>, <<h>>, session[c].kept, <<>>, <<>>)]
BY DEF Send

LEMMA OnWriteEffect ==
    ASSUME Sessions, NEW c \in Clients, OnWrite(c)
    PROVE  /\ Writing(session[c])
           /\ \/ session' = [session EXCEPT ![c] = ClosedSession]
              \/ session' = [session EXCEPT ![c] = Reading(session[c].req[1].body)]
<1>1. Writing(session[c])
  BY DEF Sessions, SessionOK, OnWrite, ClosedSession, IdleSession, Session, Counting, Waiting
<1> QED
  BY <1>1 DEF OnWrite

(* The request that a handler sees. *)
LEMMA HandledRequest ==
    ASSUME Sessions, NEW c \in Clients, session[c].pc = "reading", session[c].req # <<>>,
           NEW body \in Received(session[c].kept, session[c].req[1].body)
    PROVE  LET h == [session[c].req[1] EXCEPT !.body = body]
           IN  IsHttp(h) /\ Passed(session[c].sent[1], h) /\ OneHttp(session[c].sent)
<1> DEFINE g == session[c].req[1]
<1>1. Waiting(session[c])
  BY DEF Sessions, SessionOK, ClosedSession, IdleSession, Session, Counting, Writing
<1>2. OneHttp(session[c].sent) /\ session[c].sent[1] = g /\ IsHttp(g)
  BY <1>1 DEF Waiting, OneHttp
<1>3. g.body # Empty => body \in {g.body, Garbage}
  BY DEF Received
<1> HIDE DEF g
<1>4. [g EXCEPT !.body = body] = Http(g.path, g.verb, g.version, body)
  BY <1>2 DEF IsHttp, Http
<1> QED
  BY <1>2, <1>3, <1>4 DEF Passed, IsHttp, Http, g

LEMMA OnReadEffect ==
    ASSUME Sessions, NEW c \in Clients, OnRead(c)
    PROVE  \E h, d :
             /\ d \in {Tables, NoTables} /\ ~TwoQueries(h)
             /\ IsHttp(h) /\ Passed(session[c].sent[1], h) /\ OneHttp(session[c].sent)
             /\ session' = Reply(c, h, Handle(h, d, d))
<1>1. PICK body \in Received(session[c].kept, session[c].req[1].body) :
        LET h == [session[c].req[1] EXCEPT !.body = body]
        IN  ~TwoQueries(h) /\ \E d \in {Tables, NoTables} : session' = Reply(c, h, Handle(h, d, d))
  BY DEF OnRead
<1> DEFINE h == [session[c].req[1] EXCEPT !.body = body]
<1>2. PICK d \in {Tables, NoTables} : session' = Reply(c, h, Handle(h, d, d))
  BY <1>1
<1>3. IsHttp(h) /\ Passed(session[c].sent[1], h) /\ OneHttp(session[c].sent)
  BY HandledRequest DEF OnRead
<1>4. ~TwoQueries(h)
  BY <1>1
<1> HIDE DEF h
<1> QED
  BY <1>2, <1>3, <1>4

LEMMA OnReadFirstEffect ==
    ASSUME Sessions, NEW c \in Clients, OnReadFirst(c)
    PROVE  \E h, early :
             /\ early \in {history, <<>>} /\ running' = c
             /\ IsHttp(h) /\ Passed(session[c].sent[1], h) /\ OneHttp(session[c].sent)
             /\ session' = Hold(c, h, early)
<1>1. PICK body \in Received(session[c].kept, session[c].req[1].body) :
        LET h == [session[c].req[1] EXCEPT !.body = body]
        IN  running' = c /\ \E early \in {history, <<>>} : session' = Hold(c, h, early)
  BY DEF OnReadFirst
<1> DEFINE h == [session[c].req[1] EXCEPT !.body = body]
<1>2. PICK early \in {history, <<>>} : session' = Hold(c, h, early)
  BY <1>1
<1>3. IsHttp(h) /\ Passed(session[c].sent[1], h) /\ OneHttp(session[c].sent)
  BY HandledRequest DEF OnReadFirst
<1> HIDE DEF h
<1> QED
  BY <1>1, <1>2, <1>3

LEMMA OnReadSecondEffect ==
    ASSUME Sessions, NEW c \in Clients, OnReadSecond(c)
    PROVE  /\ Counting(session[c])
           /\ \E early, d :
                d \in {Tables, NoTables} /\ session' = Reply(c, session[c].req[1], Handle(session[c].req[1], early, d))
<1>1. Counting(session[c])
  BY DEF Sessions, SessionOK, OnReadSecond, ClosedSession, IdleSession, Session, Waiting, Writing
<1> DEFINE early == [Tables EXCEPT !.wallets = [k \in IF session[c].early = <<>> THEN {} ELSE {Key}
                                                   |-> session[c].early[1]]]
<1>2. \E d \in {Tables, NoTables} : session' = Reply(c, session[c].req[1], Handle(session[c].req[1], early, d))
  BY DEF OnReadSecond
<1> HIDE DEF early
<1> QED
  BY <1>1, <1>2

-------------------------------------------------------------------------------
(* An answer is genuine, whatever the tables hold. *)
LEMMA ReplyIsGenuine ==
    ASSUME NEW s, s.req = <<s.req[1]>>, NEW early, NEW d, s.res = <<Handle(s.req[1], early, d)>>,
           Passed(s.sent[1], s.req[1])
    PROVE  Genuine(s)
<1> DEFINE h == s.req[1]
           a == Answer(h.body, early, d)
<1> SUFFICES ASSUME h.verb = "post", s.res[1].status = 200, s.res[1].error = None, s.sent[1].body # Empty
             PROVE  WellFormed(s.sent[1].body) /\ s.res[1].id = s.sent[1].body.id
  BY DEF Genuine
<1>1. s.res[1] = Handle(h, early, d)
  OBVIOUS
<1> HIDE DEF h
<1>2. Handle(h, early, d) = Bare(403) \/ Handle(h, early, d) = a
  BY DEF Handle
<1>3. Bare(403).status = 403
  BY DEF Bare
<1>4. s.res[1] = a
  BY <1>1, <1>2, <1>3
<1>5. WellFormed(h.body) /\ a.id = h.body.id
  BY <1>4, SuccessIsComplete DEF WellFormed
<1>6. ~WellFormed(Garbage)
  BY DEF WellFormed, Garbage
<1>7. h.body = s.sent[1].body
  BY <1>5, <1>6 DEF Passed, h
<1> QED
  BY <1>4, <1>5, <1>7

-------------------------------------------------------------------------------
(* The tables. *)

WalletRow == [block : DOMAIN WalletTxs, id : Nat]

Wallet == [blocks : Seq(DOMAIN WalletTxs), transactions : Seq(WalletRow)]

(* What is given an id and a digest by its number. *)
TxIds     == {Str(<<"A">>, <<n, 0>>) : n \in Nat}
TxDigests == {Str(<<"digest">>, <<n>>) : n \in Nat}
TxRow     == [serial : 0 .. MaxSerials - 1, id : TxIds, digest : TxDigests]

(* The rows of the stream, in the order of their serials. *)
StreamOK(rows) ==
    /\ rows \in Seq(TxRow) /\ Len(rows) <= MaxTxs
    /\ \A i, j \in 1 .. Len(rows) : i < j => rows[i].serial <= rows[j].serial

TablesOK ==
    /\ blocks \subseteq 0 .. MaxBlocks - 1
    /\ StreamOK(txs)
    /\ history = <<>> \/ (history = <<history[1]>> /\ history[1] \in Wallet)

(* A wallet with a list replaced. *)
LEMMA WalletUpdate ==
    ASSUME NEW w \in Wallet, NEW b \in DOMAIN WalletTxs, NEW new \in Seq(WalletRow)
    PROVE  /\ [w EXCEPT !.blocks = Append(@, b)] \in Wallet
           /\ [w EXCEPT !.blocks = Append(@, b)].transactions = w.transactions
           /\ [w EXCEPT !.transactions = @ \o new] \in Wallet
           /\ [w EXCEPT !.transactions = @ \o new].transactions = w.transactions \o new
<1>1. w.blocks \in Seq(DOMAIN WalletTxs) /\ w.transactions \in Seq(WalletRow)
  BY DEF Wallet
<1>2. Append(w.blocks, b) \in Seq(DOMAIN WalletTxs)
  BY <1>1
<1>3. w.transactions \o new \in Seq(WalletRow)
  BY <1>1
<1> QED
  BY <1>2, <1>3 DEF Wallet

(* What the counts are about only grows: no block goes, and the wallet's list is appended to. *)
Grown ==
    /\ blocks \subseteq blocks'
    /\ history # <<>> => /\ history' # <<>>
                         /\ Len(history[1].transactions) <= Len(history'[1].transactions)
                         /\ \A i \in 1 .. Len(history[1].transactions) :
                              history'[1].transactions[i] = history[1].transactions[i]

LEMMA NewRow ==
    ASSUME NEW serial \in 0 .. MaxSerials - 1, NEW n \in Nat
    PROVE  TransactionRow(serial, n) \in TxRow /\ TransactionRow(serial, n).serial = serial
<1>1. Str(<<"A">>, <<n, 0>>) \in TxIds /\ Str(<<"digest">>, <<n>>) \in TxDigests
  BY DEF TxIds, TxDigests
<1> QED
  BY <1>1 DEF TransactionRow, TxRow

(* A row has come to its place after the first k. *)
Inserted(new, old, k, x) ==
    /\ Len(new) = Len(old) + 1
    /\ \A i \in 1 .. k : new[i] = old[i]
    /\ new[k + 1] = x
    /\ \A i \in k + 2 .. Len(old) + 1 : new[i] = old[i - 1]

LEMMA InsertFacts ==
    ASSUME NEW S, NEW rows \in Seq(S), NEW k \in 0 .. Len(rows), NEW x \in S
    PROVE  InsertAt(rows, k + 1, x) \in Seq(S) /\ Inserted(InsertAt(rows, k + 1, x), rows, k, x)
<1> DEFINE n == Len(rows)
           a == SubSeq(rows, 1, k)
           b == SubSeq(rows, k + 1, n)
<1>1. n \in Nat /\ k \in Nat /\ k <= n /\ \A i \in 1 .. n : rows[i] \in S
  OBVIOUS
<1>2. a \in Seq(S) /\ Len(a) = k /\ \A i \in 1 .. k : a[i] = rows[i]
  BY <1>1
<1>3. b \in Seq(S) /\ Len(b) = n - k /\ \A i \in 1 .. n - k : b[i] = rows[k + i]
  BY <1>1
<1> DEFINE c == a \o << x >>
<1>4. InsertAt(rows, k + 1, x) = c \o b
  <2>1. (k + 1) - 1 = k
    BY <1>1
  <2>2. InsertAt(rows, k + 1, x) = (SubSeq(rows, 1, (k + 1) - 1) \o << x >>) \o SubSeq(rows, k + 1, Len(rows))
    BY Zenon DEF InsertAt
  <2> QED
    BY <2>1, <2>2, Zenon
<1> HIDE DEF a, b, n
<1>5. c \in Seq(S) /\ Len(c) = k + 1 /\ (\A i \in 1 .. k : c[i] = rows[i]) /\ c[k + 1] = x
  BY <1>1, <1>2
<1> HIDE DEF c
<1>6. /\ c \o b \in Seq(S) /\ Len(c \o b) = n + 1
      /\ \A i \in 1 .. k + 1 : (c \o b)[i] = c[i]
      /\ \A i \in k + 2 .. n + 1 : (c \o b)[i] = b[i - (k + 1)]
  <2>1. c \o b \in Seq(S) /\ Len(c \o b) = n + 1
    <3>1. c \o b \in Seq(S) /\ Len(c \o b) = Len(c) + Len(b)
      BY <1>3, <1>5, ConcatProperties
    <3> QED
      BY <1>1, <1>3, <1>5, <3>1
  <2>2. \A i \in 1 .. n + 1 : (c \o b)[i] = IF i <= k + 1 THEN c[i] ELSE b[i - (k + 1)]
    BY <1>1, <1>3, <1>5
  <2> QED
    BY <1>1, <2>1, <2>2
<1>7. \A i \in k + 2 .. n + 1 : b[i - (k + 1)] = rows[i - 1]
  <2> SUFFICES ASSUME NEW i \in k + 2 .. n + 1 PROVE b[i - (k + 1)] = rows[i - 1]
    OBVIOUS
  <2>1. i - (k + 1) \in 1 .. n - k /\ k + (i - (k + 1)) = i - 1
    BY <1>1
  <2> QED
    BY <1>3, <2>1
<1> QED
  <2> DEFINE new == c \o b
  <2>1. new \in Seq(S) /\ Len(new) = n + 1
    BY <1>6
  <2>2. \A i \in 1 .. k : new[i] = rows[i]
    BY <1>1, <1>5, <1>6
  <2>3. new[k + 1] = x
    BY <1>1, <1>5, <1>6
  <2>4. \A i \in k + 2 .. n + 1 : new[i] = rows[i - 1]
    BY <1>6, <1>7
  <2> HIDE DEF new
  <2>5. Inserted(new, rows, k, x)
    BY <2>1, <2>2, <2>3, <2>4 DEF Inserted, n
  <2> QED
    BY <1>4, <2>1, <2>5 DEF new

LEMMA StreamStep ==
    ASSUME StreamOK(txs), NEW n \in 0 .. MaxSerials - 1, AddTransaction(n) PROVE StreamOK(txs')
<1> DEFINE m == Len(txs)
           x == TransactionRow(n, Len(txs))
<1>1. PICK k \in 0 .. Len(txs) :
        /\ \A i \in 1 .. k : txs[i].serial <= n
        /\ \A i \in k + 1 .. Len(txs) : n <= txs[i].serial
        /\ txs' = InsertAt(txs, k + 1, x)
  BY DEF AddTransaction
<1>2. m \in Nat /\ k \in Nat /\ k <= m /\ m < MaxTxs /\ MaxTxs \in Nat /\ txs \in Seq(TxRow) /\ n \in Nat
  BY BackendAssumption DEF AddTransaction, StreamOK
<1>3. x \in TxRow /\ x.serial = n
  BY <1>2, NewRow
<1> HIDE DEF x
<1> DEFINE new == InsertAt(txs, k + 1, x)
<1>4. new \in Seq(TxRow) /\ Inserted(new, txs, k, x)
  BY <1>2, <1>3, InsertFacts
<1>5. txs' = new
  BY <1>1
<1> HIDE DEF new
<1>6. /\ txs' \in Seq(TxRow) /\ Len(txs') = m + 1 /\ (\A i \in 1 .. k : txs'[i] = txs[i])
      /\ txs'[k + 1] = x /\ \A i \in k + 2 .. m + 1 : txs'[i] = txs[i - 1]
  BY <1>4, <1>5 DEF Inserted
<1> HIDE DEF m
<1>7. \A i \in 1 .. m : txs[i].serial \in Nat
  <2>1. \A r \in TxRow : r.serial \in Nat
    BY DEF TxRow
  <2> QED
    BY <1>2, <2>1 DEF m
<1>8. \A i, j \in 1 .. m : i < j => txs[i].serial <= txs[j].serial
  BY DEF StreamOK, m
<1>9. ASSUME NEW i \in 1 .. m + 1, NEW j \in 1 .. m + 1, i < j PROVE txs'[i].serial <= txs'[j].serial
  <2>1. CASE j <= k
    BY <1>2, <1>6, <1>8, <1>9, <2>1
  <2>2. CASE j = k + 1
    BY <1>1, <1>2, <1>3, <1>6, <1>9, <2>2
  <2>3. CASE j > k + 1
    <3>1. j \in k + 2 .. m + 1 /\ j - 1 \in k + 1 .. m /\ txs'[j] = txs[j - 1]
      BY <1>2, <1>6, <2>3
    <3>2. CASE i <= k
      <4>1. i \in 1 .. k /\ i < j - 1 /\ txs'[i] = txs[i]
        BY <1>2, <1>6, <2>3, <3>2
      <4> QED
        BY <1>2, <1>8, <3>1, <4>1
    <3>3. CASE i = k + 1
      BY <1>1, <1>3, <1>6, <3>1, <3>3 DEF m
    <3>4. CASE i > k + 1
      <4>1. i \in k + 2 .. m + 1 /\ i - 1 \in 1 .. m /\ i - 1 < j - 1 /\ txs'[i] = txs[i - 1]
        BY <1>2, <1>6, <1>9, <3>4
      <4> QED
        BY <1>2, <1>8, <3>1, <4>1
    <3> QED
      BY <1>2, <3>2, <3>3, <3>4
  <2> QED
    BY <1>2, <2>1, <2>2, <2>3
<1> QED
  BY <1>2, <1>6, <1>9 DEF StreamOK

LEMMA TablesStep ==
    ASSUME TablesOK, Indexer PROVE TablesOK' /\ Grown
<1> USE DEF TablesOK
<1>0. /\ MaxBlocks \in Nat /\ WalletTxs \in Seq(Nat)
      /\ history # <<>> => history[1].transactions \in Seq(WalletRow)
  BY BackendAssumption DEF Wallet
<1>1. ASSUME NEW b \in 0 .. MaxBlocks - 1, AddBlock(b) PROVE TablesOK' /\ Grown
  BY <1>0, <1>1 DEF AddBlock, Grown
<1>2. ASSUME NEW n \in 0 .. MaxSerials - 1, AddTransaction(n) PROVE TablesOK' /\ Grown
  <2>1. UNCHANGED <<blocks, history>>
    BY <1>2 DEF AddTransaction
  <2>2. StreamOK(txs')
    BY <1>2, StreamStep
  <2> QED
    BY <1>0, <2>1, <2>2 DEF Grown
<1>3. ASSUME NEW n \in 0 .. MaxSerials, UpdateCount(n) PROVE TablesOK' /\ Grown
  BY <1>0, <1>3 DEF UpdateCount, Grown
<1>4. ASSUME NEW b \in DOMAIN WalletTxs, AddWalletBlock(b) PROVE TablesOK' /\ Grown
  <2>1. UNCHANGED <<blocks, txs>>
    BY <1>4 DEF AddWalletBlock
  <2>2. CASE history = <<>>
    <3>1. history' = <<[blocks |-> <<b>>, transactions |-> <<>>]>>
      BY <1>4, <2>2 DEF AddWalletBlock
    <3>2. [blocks |-> <<b>>, transactions |-> <<>>] \in Wallet
      BY DEF Wallet
    <3> QED
      BY <1>0, <2>1, <2>2, <3>1, <3>2 DEF Grown
  <2>3. CASE history # <<>>
    <3> DEFINE w == [history[1] EXCEPT !.blocks = Append(@, b)]
    <3>1. history' = <<w>>
      BY <1>4, <2>3 DEF AddWalletBlock
    <3>2. history[1] \in Wallet
      BY <2>3
    <3>3. w \in Wallet /\ w.transactions = history[1].transactions
      <4>1. <<>> \in Seq(WalletRow)
        OBVIOUS
      <4> QED
        BY <3>2, <4>1, WalletUpdate
    <3> HIDE DEF w
    <3>4. history' # <<>> /\ history'[1] = w
      BY <3>1
    <3>5. TablesOK'
      BY <2>1, <3>1, <3>3, <3>4
    <3>6. Len(w.transactions) \in Nat
      BY <1>0, <2>3, <3>3
    <3>7. Grown
      BY <1>0, <2>1, <2>3, <3>3, <3>4, <3>6 DEF Grown
    <3> QED
      BY <3>5, <3>7
  <2> QED
    BY <2>2, <2>3
<1>5. ASSUME NEW b \in DOMAIN WalletTxs, AddWalletTransactions(b) PROVE TablesOK' /\ Grown
  <2>1. UNCHANGED <<blocks, txs>> /\ history # <<>>
    BY <1>5 DEF AddWalletTransactions
  <2> DEFINE new == [i \in 1 .. WalletTxs[b] |-> [block |-> b, id |-> i]]
             old == history[1].transactions
             w   == [history[1] EXCEPT !.transactions = @ \o new]
  <2>2. history' = <<w>>
    BY <1>5 DEF AddWalletTransactions
  <2>3. history[1] \in Wallet /\ old \in Seq(WalletRow)
    BY <1>0, <2>1
  <2>4. WalletTxs[b] \in Nat
    BY <1>0
  <2>5. new \in Seq(WalletRow)
    <3>1. new \in [1 .. WalletTxs[b] -> WalletRow]
      BY <2>4 DEF WalletRow
    <3> HIDE DEF new
    <3> QED
      BY <2>4, <3>1
  <2> HIDE DEF new
  <2>6. w \in Wallet /\ w.transactions = old \o new
    BY <2>3, <2>5, WalletUpdate
  <2> HIDE DEF w
  <2>7. history' # <<>> /\ history'[1] = w
    BY <2>2
  <2> HIDE DEF old
  <2>8. Len(old) <= Len(old \o new) /\ \A i \in 1 .. Len(old) : (old \o new)[i] = old[i]
    BY <2>3, <2>5
  <2>9. TablesOK'
    BY <2>1, <2>2, <2>6, <2>7
  <2>10. Grown
    BY <1>0, <2>1, <2>6, <2>7, <2>8 DEF Grown, old
  <2> QED
    BY <2>9, <2>10
<1> QED
  BY <1>1, <1>2, <1>3, <1>4, <1>5 DEF Indexer

LEMMA TablesRest ==
    ASSUME TablesOK, UNCHANGED tables PROVE TablesOK' /\ Grown
<1>1. history # <<>> => Len(history[1].transactions) \in Nat
  BY DEF TablesOK, Wallet
<1> QED
  BY <1>1 DEF TablesOK, Grown, tables

-------------------------------------------------------------------------------
(* The sessions keep their shape. *)

LEMMA RestingOK ==
    SessionOK(IdleSession) /\ SessionOK(ClosedSession) /\ \A k : SessionOK(Reading(k))
BY DEF SessionOK, IsSession, IdleSession, ClosedSession, Reading, Session, Waiting

LEMMA SentOK ==
    ASSUME NEW h, IsHttp(h), NEW k PROVE SessionOK(Session("reading", <<h>>, <<h>>, k, <<>>, <<>>))
BY DEF SessionOK, IsSession, Session, Waiting, OneHttp

LEMMA HoldOK ==
    ASSUME NEW sent, OneHttp(sent), NEW h, IsHttp(h), Passed(sent[1], h), NEW k,
           NEW early, early = <<>> \/ early = <<early[1]>>
    PROVE  SessionOK(Session("counting", sent, <<h>>, k, early, <<>>))
<1> DEFINE s == Session("counting", sent, <<h>>, k, early, <<>>)
<1>1. /\ s.pc = "counting" /\ s.sent = sent /\ s.req = <<h>> /\ s.kept = k /\ s.early = early /\ s.res = <<>>
      /\ IsSession(s)
  BY DEF Session, IsSession
<1> HIDE DEF s
<1>2. Counting(s)
  BY <1>1 DEF Counting, Holding, OneHttp
<1> QED
  BY <1>1, <1>2 DEF SessionOK, s

LEMMA ReplyOK ==
    ASSUME NEW sent, OneHttp(sent), NEW h, IsHttp(h), Passed(sent[1], h), NEW k, NEW early, NEW d
    PROVE  SessionOK(Session("writing", sent, <<h>>, k, <<>>, <<Handle(h, early, d)>>))
<1> DEFINE a == Handle(h, early, d)
           s == Session("writing", sent, <<h>>, k, <<>>, <<a>>)
<1>1. /\ s.pc = "writing" /\ s.sent = sent /\ s.req = <<h>> /\ s.kept = k /\ s.early = <<>> /\ s.res = <<a>>
      /\ IsSession(s)
  BY DEF Session, IsSession
<1> HIDE DEF s
<1>2. s.req[1] = h /\ s.req = <<s.req[1]>> /\ s.res = <<s.res[1]>>
  BY <1>1
<1>3. Genuine(s)
  BY <1>1, <1>2, ReplyIsGenuine
<1>4. Writing(s)
  BY <1>1, <1>2, <1>3 DEF Writing, Holding, OneHttp
<1> QED
  BY <1>1, <1>4 DEF SessionOK, s

SessionInv == Sessions /\ Thread /\ TablesOK

LEMMA SessionInitially ==
    ASSUME Init PROVE SessionInv
<1>1. Sessions
  BY RestingOK DEF Init, Sessions
<1>2. Thread
  BY BackendAssumption DEF Init, Thread, Nobody, IdleSession, Session
<1>3. TablesOK
  BY BackendAssumption DEF Init, TablesOK, StreamOK
<1> QED
  BY <1>1, <1>2, <1>3 DEF SessionInv

(* Between its two queries one handler holds the thread, and the others wait. *)
LEMMA ThreadStep ==
    ASSUME Thread, Sessions, NEW c \in Clients, NEW s, session' = [session EXCEPT ![c] = s],
           running = Nobody \/ session[c].pc = "counting",
           \/ s.pc = "counting" /\ running' = c
           \/ s.pc # "counting" /\ running' = Nobody
    PROVE  Thread'
<1>1. Becomes(c, s)
  BY UpdateFacts
<1>2. Nobody \notin Clients
  BY BackendAssumption DEF Nobody
<1>3. \A x \in Clients \ {c} : session[x].pc # "counting"
  BY <1>2 DEF Thread
<1> QED
  BY <1>1, <1>2, <1>3 DEF Thread, Becomes

(* The step of one client's session. *)
LEMMA SessionStep ==
    ASSUME SessionInv, NEW c \in Clients,
           \/ Io(c) \/ Drop(c) \/ Reconnect(c) \/ NextPage(c)
           \/ \E h \in Requests : Send(c, h)
    PROVE  Sessions' /\ Thread'
<1> USE DEF SessionInv
<1>0. \A pc, sent, req, kept, early, res : Session(pc, sent, req, kept, early, res).pc = pc
  BY DEF Session
<1>1. CASE OnAccept(c)
  <2>1. session' = [session EXCEPT ![c] = Reading(Empty)] /\ running = Nobody /\ running' = Nobody
    BY <1>1 DEF OnAccept, Idle
  <2>2. Reading(Empty).pc # "counting"
    BY <1>0 DEF Reading
  <2> QED
    BY <2>1, <2>2, RestingOK, BecomesOK, ThreadStep
<1>2. CASE OnRead(c)
  <2>1. PICK h, d :
          /\ IsHttp(h) /\ Passed(session[c].sent[1], h) /\ OneHttp(session[c].sent)
          /\ session' = Reply(c, h, Handle(h, d, d))
    BY <1>2, OnReadEffect
  <2> DEFINE s == Session("writing", session[c].sent, <<h>>, session[c].kept, <<>>, <<Handle(h, d, d)>>)
  <2>2. SessionOK(s) /\ s.pc # "counting"
    BY <1>0, <2>1, ReplyOK
  <2>3. session' = [session EXCEPT ![c] = s] /\ running = Nobody /\ running' = Nobody
    BY <1>2, <2>1 DEF Reply, OnRead, Idle
  <2> HIDE DEF s
  <2> QED
    BY <2>2, <2>3, BecomesOK, ThreadStep
<1>3. CASE OnReadFirst(c)
  <2>1. PICK h, early :
          /\ early \in {history, <<>>} /\ running' = c
          /\ IsHttp(h) /\ Passed(session[c].sent[1], h) /\ OneHttp(session[c].sent)
          /\ session' = Hold(c, h, early)
    BY <1>3, OnReadFirstEffect
  <2> DEFINE s == Session("counting", session[c].sent, <<h>>, session[c].kept, early, <<>>)
  <2>2. early = <<>> \/ early = <<early[1]>>
    BY <2>1 DEF TablesOK
  <2>3. SessionOK(s) /\ s.pc = "counting"
    BY <1>0, <2>1, <2>2, HoldOK
  <2>4. session' = [session EXCEPT ![c] = s] /\ running = Nobody
    BY <1>3, <2>1 DEF Hold, OnReadFirst, Idle
  <2> HIDE DEF s
  <2> QED
    BY <2>1, <2>3, <2>4, BecomesOK, ThreadStep
<1>4. CASE OnReadSecond(c)
  <2>1. PICK early, d : session' = Reply(c, session[c].req[1], Handle(session[c].req[1], early, d))
    BY <1>4, OnReadSecondEffect
  <2> DEFINE h == session[c].req[1]
             s == Session("writing", session[c].sent, <<h>>, session[c].kept, <<>>, <<Handle(h, early, d)>>)
  <2>2. OneHttp(session[c].sent) /\ IsHttp(h) /\ Passed(session[c].sent[1], h)
    BY <1>4, OnReadSecondEffect DEF Counting, Holding, OneHttp
  <2>3. session' = [session EXCEPT ![c] = s] /\ session[c].pc = "counting" /\ running' = Nobody
    BY <1>4, <2>1 DEF Reply, OnReadSecond
  <2> HIDE DEF h
  <2>4. SessionOK(s) /\ s.pc # "counting"
    BY <1>0, <2>2, ReplyOK
  <2> HIDE DEF s
  <2> QED
    BY <2>3, <2>4, BecomesOK, ThreadStep
<1>5. CASE OnWrite(c)
  <2>1. PICK s \in {ClosedSession, Reading(session[c].req[1].body)} : session' = [session EXCEPT ![c] = s]
    BY <1>5, OnWriteEffect
  <2>2. SessionOK(s) /\ s.pc # "counting"
    BY <1>0, <2>1, RestingOK DEF Reading, ClosedSession
  <2>3. running = Nobody /\ running' = Nobody
    BY <1>5 DEF OnWrite, Idle
  <2> QED
    BY <2>1, <2>2, <2>3, BecomesOK, ThreadStep
<1>6. CASE Drop(c)
  <2>1. session' = [session EXCEPT ![c] = ClosedSession] /\ running = Nobody /\ running' = Nobody
    BY <1>6 DEF Drop, Idle
  <2>2. ClosedSession.pc # "counting"
    BY <1>0 DEF ClosedSession
  <2> QED
    BY <2>1, <2>2, RestingOK, BecomesOK, ThreadStep
<1>7. CASE Reconnect(c)
  <2>1. session' = [session EXCEPT ![c] = IdleSession] /\ session[c].pc = "closed" /\ running' = running
    BY <1>7 DEF Reconnect
  <2>2. IdleSession.pc # "counting"
    BY <1>0 DEF IdleSession
  <2>3. Becomes(c, IdleSession) /\ Sessions'
    BY <2>1, UpdateFacts, RestingOK, BecomesOK
  <2> QED
    BY <2>1, <2>2, <2>3 DEF Thread, Becomes
<1>8. ASSUME NEW h, IsHttp(h), Send(c, h) PROVE Sessions' /\ Thread'
  <2> DEFINE s == Session("reading", <<h>>, <<h>>, session[c].kept, <<>>, <<>>)
  <2>1. session' = [session EXCEPT ![c] = s] /\ session[c].pc = "reading" /\ running' = running
    BY <1>8 DEF Send
  <2>2. SessionOK(s) /\ s.pc # "counting"
    BY <1>0, <1>8, SentOK
  <2> HIDE DEF s
  <2>3. Becomes(c, s) /\ Sessions'
    BY <2>1, <2>2, UpdateFacts, BecomesOK
  <2> QED
    BY <2>1, <2>2, <2>3 DEF Thread, Becomes
<1>9. CASE NextPage(c)
  <2>1. \A body : IsHttp(Post(body))
    BY DEF IsHttp, Post, Http
  <2> QED
    BY <1>8, <1>9, <2>1 DEF NextPage
<1>10. CASE \E h \in Requests : Send(c, h)
  BY <1>8, <1>10, RequestsAssumption DEF IsHttp
<1> QED
  BY <1>1, <1>2, <1>3, <1>4, <1>5, <1>6, <1>7, <1>9, <1>10 DEF Io

LEMMA SessionNext ==
    ASSUME SessionInv, [Next]_vars PROVE SessionInv' /\ Grown
<1> USE DEF SessionInv
<1>1. CASE Create \/ Run
  <2>1. UNCHANGED <<session, running, tables>>
    BY <1>1 DEF Create, Run
  <2> QED
    BY <2>1, TablesRest DEF Sessions, Thread
<1>2. CASE Exit
  <2>1. session' = [c \in Clients |-> ClosedSession] /\ running = Nobody /\ running' = Nobody /\ UNCHANGED tables
    BY <1>2 DEF Exit
  <2>2. Sessions'
    BY <2>1, RestingOK DEF Sessions
  <2>3. Thread'
    BY <2>1, BackendAssumption DEF Thread, Nobody, ClosedSession, Session
  <2> QED
    BY <2>1, <2>2, <2>3, TablesRest
<1>3. ASSUME NEW c \in Clients,
             Io(c) \/ Drop(c) \/ Reconnect(c) \/ NextPage(c) \/ \E h \in Requests : Send(c, h)
      PROVE  SessionInv' /\ Grown
  <2>1. UNCHANGED tables
    BY <1>3 DEF Io, OnAccept, OnRead, OnReadFirst, OnReadSecond, OnWrite, Drop, Reconnect, NextPage, Send
  <2> QED
    BY <1>3, <2>1, SessionStep, TablesRest
<1>4. CASE Indexer
  <2>1. UNCHANGED <<session, running>>
    BY <1>4 DEF Indexer, AddBlock, AddTransaction, UpdateCount, AddWalletBlock, AddWalletTransactions
  <2> QED
    BY <1>4, <2>1, TablesStep DEF Sessions, Thread
<1>5. CASE UNCHANGED vars
  BY <1>5, TablesRest DEF vars, Sessions, Thread
<1> QED
  BY <1>1, <1>2, <1>3, <1>4, <1>5 DEF Next

(***************************************************************************)
(* http::Session: every session is idle, closed, waiting, between the two  *)
(* queries of its handler or writing, with what it has in hand in each;    *)
(* the one thread is in at most one handler; the tables have their types.  *)
(***************************************************************************)
THEOREM SessionsKept == Spec => []SessionInv
<1>1. Init => SessionInv
  BY SessionInitially
<1>2. SessionInv /\ [Next]_vars => SessionInv'
  BY SessionNext
<1> QED
  BY <1>1, <1>2, PTL DEF Spec

(* The bounds of the model. *)
Counters ==
    /\ server \in {"starting", "created", "serving", "exited"}
    /\ asked \in 0 .. MaxAsks /\ faults \in 0 .. MaxFaults

LEMMA CountersNext ==
    ASSUME Counters, [Next]_vars PROVE Counters'
<1>0. MaxAsks \in Nat /\ MaxFaults \in Nat
  BY BackendAssumption
<1> USE DEF Counters
<1>1. ASSUME NEW c \in Clients,
             Io(c) \/ Drop(c) \/ Reconnect(c) \/ NextPage(c) \/ \E h \in Requests : Send(c, h)
      PROVE  Counters'
  <2>1. \/ UNCHANGED <<server, asked, faults>>
        \/ faults < MaxFaults /\ faults' = faults + 1 /\ UNCHANGED <<server, asked>>
        \/ asked < MaxAsks /\ asked' = asked + 1 /\ UNCHANGED <<server, faults>>
    BY <1>1 DEF Io, OnAccept, OnRead, OnReadFirst, OnReadSecond, OnWrite, Drop, Reconnect, NextPage, Send
  <2> QED
    BY <1>0, <2>1
<1>2. CASE Create \/ Run \/ Exit
  BY <1>0, <1>2 DEF Create, Run, Exit
<1>3. CASE Indexer
  BY <1>3 DEF Indexer, AddBlock, AddTransaction, UpdateCount, AddWalletBlock, AddWalletTransactions
<1>4. CASE UNCHANGED vars
  BY <1>4 DEF vars
<1> QED
  BY <1>1, <1>2, <1>3, <1>4 DEF Next

LEMMA ShortSequences ==
    Len(<<>>) <= 1 /\ \A x : Len(<<x>>) <= 1 /\ <<x>> # <<>>
OBVIOUS

(***************************************************************************)
(* The session of every connection is in one of its five states, with at   *)
(* most one request and one response at a time, and the thread is inside a *)
(* handler exactly while a session waits for the second query of           *)
(* get_wallet_history_state.                                               *)
(***************************************************************************)
THEOREM TypeCorrect == Spec => []TypeOK
<1>1. Init => Counters
  BY BackendAssumption DEF Init, Counters
<1>2. Counters /\ [Next]_vars => Counters'
  BY CountersNext
<1>3. SessionInv /\ Counters => TypeOK
  <2> SUFFICES ASSUME SessionInv, Counters PROVE TypeOK
    OBVIOUS
  <2>1. ASSUME NEW c \in Clients
        PROVE  /\ session[c].pc \in {"none", "reading", "counting", "writing", "closed"}
               /\ \A x \in {"sent", "req", "early", "res"} : Len(session[c][x]) <= 1
               /\ session[c].pc = "writing" => session[c].res # <<>>
    <3> DEFINE s == session[c]
    <3>1. SessionOK(s)
      BY DEF SessionInv, Sessions
    <3> HIDE DEF s
    <3>2. CASE s = IdleSession \/ s = ClosedSession
      BY <3>2, ShortSequences DEF IdleSession, ClosedSession, Session, s
    <3>3. CASE Waiting(s)
      BY <3>3, ShortSequences DEF Waiting, OneHttp, s
    <3>4. CASE Counting(s)
      BY <3>4, ShortSequences DEF Counting, Holding, OneHttp, s
    <3>5. CASE Writing(s)
      BY <3>5, ShortSequences DEF Writing, Holding, OneHttp, s
    <3> QED
      BY <3>1, <3>2, <3>3, <3>4, <3>5 DEF SessionOK
  <2>2. Len(txs) <= MaxTxs /\ \A i \in 1 .. Len(txs) : txs[i].serial < MaxSerials
    <3>1. txs \in Seq(TxRow) /\ Len(txs) <= MaxTxs
      BY DEF SessionInv, TablesOK, StreamOK
    <3>2. \A x \in TxRow : x.serial < MaxSerials
      BY BackendAssumption DEF TxRow
    <3> QED
      BY <3>1, <3>2
  <2> QED
    BY <2>1, <2>2 DEF TypeOK, SessionInv, Thread, TablesOK, Counters
<1> QED
  BY <1>1, <1>2, <1>3, SessionsKept, PTL DEF Spec

(***************************************************************************)
(* An answer without an error belongs to the request it follows, although  *)
(* Session::do_read leaves the previous request in req_ and the next one   *)
(* may be appended to it.                                                  *)
(***************************************************************************)
THEOREM AlwaysGenuine == Spec => []SuccessIsGenuine
<1>1. SessionInv => SuccessIsGenuine
  <2> SUFFICES ASSUME SessionInv, NEW c \in Clients, session[c].pc = "writing" PROVE Genuine(session[c])
    BY DEF SuccessIsGenuine, Genuine
  <2> QED
    BY DEF SessionInv, Sessions, SessionOK, IdleSession, ClosedSession, Session, Waiting, Counting, Writing
<1> QED
  BY <1>1, SessionsKept, PTL

-------------------------------------------------------------------------------
(* The answers to the bodies of Probes. *)

(***************************************************************************)
(* Whatever the tables hold, and when the query fails, each of the bodies  *)
(* is answered with a result or an error, the decimal of uint256_t(-1)     *)
(* apart.                                                                  *)
(***************************************************************************)
THEOREM AlwaysLoud == Spec => []NeverSilent
<1>1. NeverSilent
  BY NoSilence, RequestsAssumption DEF NeverSilent
<1> QED
  BY <1>1, PTL

-------------------------------------------------------------------------------
(* The counts. *)

LEMMA TableFields ==
    /\ Tables.blocks = BlockRows /\ Tables.transactions = txs
    /\ Tables.count = count /\ Tables.wallets = [k \in IF history = <<>> THEN {} ELSE {Key} |-> history[1]]
    /\ Tables.node_states = <<<<"n1", "n2", "n3">>>>
    /\ NoTables.blocks = <<>> /\ NoTables.transactions = <<>> /\ NoTables.count = <<>>
    /\ NoTables.wallets = [k \in {} |-> None] /\ NoTables.node_states = <<>>
<1>1. DOMAIN Tables = {"blocks", "transactions", "count", "wallets", "node_states", "node_wallets",
                       "blockchain_info", "version", "turnovers", "transaction_turnover", "wallets_top"}
  BY DEF Tables
<1>2. /\ NoTables.blocks = <<>> /\ NoTables.transactions = <<>> /\ NoTables.count = <<>>
      /\ NoTables.wallets = [k \in {} |-> None] /\ NoTables.node_states = <<>>
  BY <1>1 DEF NoTables
<1> QED
  BY <1>2 DEF Tables

(* The wallet that a query finds. *)
LEMMA WalletFound ==
    ASSUME NEW d \in {Tables, NoTables}, NEW k
    PROVE  \/ k \notin DOMAIN d.wallets /\ Field(d, k, "transactions") = <<>>
           \/ /\ k \in DOMAIN d.wallets /\ d = Tables /\ k = Key /\ history # <<>>
              /\ d.wallets[k] = history[1] /\ Field(d, k, "transactions") = history[1].transactions
<1>1. CASE d = NoTables
  BY <1>1, TableFields DEF Field
<1>2. CASE d = Tables
  BY <1>2, TableFields DEF Field
<1> QED
  BY <1>1, <1>2

(* The rows of blocks that a query sees: each id once, in ascending order. *)
LEMMA BlockRowsFacts ==
    ASSUME TablesOK
    PROVE  /\ Cardinality(blocks) \in Nat /\ DOMAIN BlockRows = 1 .. Cardinality(blocks)
           /\ Len(BlockRows) = Cardinality(blocks)
           /\ \A i \in 1 .. Cardinality(blocks) : BlockRows[i].block \in blocks
           /\ \A i, j \in 1 .. Cardinality(blocks) : i # j => BlockRows[i].block # BlockRows[j].block
           /\ \A b \in blocks : \E i \in 1 .. Cardinality(blocks) : BlockRows[i].block = b
<1>1. IsFiniteSet(0 .. MaxBlocks - 1)
  BY BackendAssumption, FS_Interval
<1>2. IsFiniteSet(blocks) /\ blocks \in SUBSET Int
  <2>1. blocks \in SUBSET (0 .. MaxBlocks - 1)
    BY DEF TablesOK
  <2>2. IsFiniteSet(blocks)
    BY <1>1, <2>1, FS_Subset
  <2> QED
    BY <2>1, <2>2
<1> DEFINE n == Cardinality(blocks)
           ids == Ascending(blocks)
<1>3. /\ n \in Nat /\ DOMAIN ids = 1 .. n
      /\ \A i \in 1 .. n : ids[i] \in blocks
      /\ \A i, j \in 1 .. n : i # j => ids[i] # ids[j]
      /\ \A b \in blocks : \E i \in 1 .. n : ids[i] = b
  BY <1>2, AscendingFacts, AscendingHasAll
<1>4. BlockRows = [i \in DOMAIN ids |-> [block |-> ids[i]]]
  BY DEF BlockRows
<1> HIDE DEF n, ids
<1>5. BlockRows = [i \in 1 .. n |-> [block |-> ids[i]]]
  BY <1>3, <1>4
<1>6. Len(BlockRows) = n
  BY <1>3, <1>5
<1>7. \A i \in 1 .. n : BlockRows[i].block = ids[i]
  BY <1>5
<1> QED
  BY <1>3, <1>5, <1>6, <1>7 DEF n

(* The response is the answer to the body, or has no result. *)
LEMMA HandleCases ==
    ASSUME NEW h, NEW early, NEW d
    PROVE  Handle(h, early, d).result = <<>> \/ Handle(h, early, d) = Answer(h.body, early, d)
BY DEF Handle, Bare

(* A count, for the tables as they are. *)
Counted(h, a, bs, hist) ==
    a.result # <<>> =>
      LET r == a.result[1]
          m == Method(h)
      IN  /\ m = <<"get-block-history-state">> => r.count - 1 \in bs
          /\ m = <<"get-wallet-history-state">> =>
               /\ r.transaction \in Nat
               /\ r.transaction > 0 => hist # <<>> /\ r.transaction <= Len(hist[1].transactions)

LEMMA OneMethod ==
    ASSUME NEW body, NEW method \in Methods, FromString(body).method = <<method>>, NEW early, NEW d
    PROVE  Out(body, early, d) = Apply(method, FromString(body).params, early, d)
<1>1. <<method>> # <<>> /\ <<method>>[1] = method
  OBVIOUS
<1> QED
  BY <1>1 DEF Out

LEMMA AnswerCounts ==
    ASSUME TablesOK, NEW h, NEW early, NEW d \in {Tables, NoTables}
    PROVE  Counted(h, Handle(h, early, d), blocks, history)
<1> DEFINE a == Answer(h.body, early, d)
           out == Out(h.body, early, d)
           p == FromString(h.body).params
           r == a.result[1]
<1> SUFFICES ASSUME a.result # <<>>
             PROVE  /\ Method(h) = <<"get-block-history-state">> => r.count - 1 \in blocks
                    /\ Method(h) = <<"get-wallet-history-state">> =>
                         /\ r.transaction \in Nat
                         /\ r.transaction > 0 => history # <<>> /\ r.transaction <= Len(history[1].transactions)
  BY HandleCases DEF Counted
<1>1. out.raised \in {None, "other"} /\ (out.raised = None => a.result = out.result)
  BY AnswerCases
<1>2. ASSUME Method(h) = <<"get-block-history-state">> PROVE r.count - 1 \in blocks
  <2>1. out = GetBlockHistoryState(p, d)
    BY <1>2, OneMethod DEF Method, Apply, Methods, Constants
  <2> HIDE DEF out, a, p
  <2>2. d.blocks # <<>> /\ r = [count |-> Newest(d.blocks).block + 1, first |-> 0]
    BY <1>1, <2>1, Outcomes DEF GetBlockHistoryState, BlockHistoryState, None
  <2>3. d = Tables /\ BlockRows # <<>> /\ Newest(d.blocks) = Last(BlockRows)
    BY <2>2, TableFields DEF Newest
  <2>4. Cardinality(blocks) \in 1 .. Cardinality(blocks)
    <3>1. Cardinality(blocks) # 0
      BY <2>3, BlockRowsFacts
    <3> QED
      BY <3>1, BlockRowsFacts
  <2>5. Last(BlockRows).block \in blocks
    BY <2>4, BlockRowsFacts DEF Last
  <2>6. Last(BlockRows).block \in Int
    BY <2>5 DEF TablesOK
  <2>7. r.count = Last(BlockRows).block + 1
    BY <2>2, <2>3
  <2> QED
    BY <2>5, <2>6, <2>7
<1>3. ASSUME Method(h) = <<"get-wallet-history-state">>
      PROVE  /\ r.transaction \in Nat
             /\ r.transaction > 0 => history # <<>> /\ r.transaction <= Len(history[1].transactions)
  <2>1. out = GetWalletHistoryState(p, early, d)
    BY <1>3, OneMethod DEF Method, Apply, Methods, Constants
  <2> HIDE DEF out, a, p
  <2>2. r = WalletHistoryCounts(p["public-key"], early, d)
    <3> DEFINE k == p["public-key"]
    <3>1. out \in {Refuse, Raise("json"), Return(WalletHistoryCounts(k, early, d))}
      BY <2>1, Outcomes DEF GetWalletHistoryState, Check, With, StringOf
    <3> HIDE DEF k
    <3>2. out # Refuse
      BY <1>1, Outcomes
    <3>3. out # Raise("json")
      <4>1. Raise("json").raised = "json"
        BY DEF Raise
      <4> QED
        BY <1>1, <4>1 DEF None
    <3>4. out = Return(WalletHistoryCounts(k, early, d))
      BY <3>1, <3>2, <3>3
    <3> QED
      BY <1>1, <3>4, Outcomes DEF k
  <2>3. r.transaction = IF p["public-key"] \in DOMAIN early.wallets /\ p["public-key"] \in DOMAIN d.wallets
                        THEN Len(Field(d, p["public-key"], "transactions")) ELSE 0
    BY <2>2 DEF WalletHistoryCounts
  <2>4. history # <<>> => Len(history[1].transactions) \in Nat
    BY DEF TablesOK, Wallet
  <2> QED
    BY <2>3, <2>4, WalletFound
<1> QED
  BY <1>2, <1>3

LEMMA CountsGrow ==
    ASSUME Grown, TablesOK, TablesOK', NEW h, NEW a, Counted(h, a, blocks, history)
    PROVE  Counted(h, a, blocks', history')
<1>1. blocks \subseteq blocks'
  BY DEF Grown
<1>2. history # <<>> => Len(history[1].transactions) \in Nat
  BY DEF TablesOK, Wallet
<1>3. history # <<>> => history' # <<>> /\ Len(history[1].transactions) <= Len(history'[1].transactions)
  BY DEF Grown
<1>4. history' # <<>> => Len(history'[1].transactions) \in Nat
  BY DEF TablesOK, Wallet
<1> QED
  BY <1>1, <1>2, <1>3, <1>4 DEF Counted

(* Every count on its way to a client. *)
CountInv ==
    \A c \in Clients :
      session[c].pc = "writing" => Counted(session[c].req[1], session[c].res[1], blocks, history)

LEMMA CountReply ==
    ASSUME SessionInv, CountInv, UNCHANGED tables, NEW c \in Clients, NEW h, NEW early, NEW d \in {Tables, NoTables},
           session' = Reply(c, h, Handle(h, early, d))
    PROVE  CountInv'
<1> DEFINE a == Handle(h, early, d)
           s == Session("writing", session[c].sent, <<h>>, session[c].kept, <<>>, <<a>>)
<1>1. Becomes(c, s)
  BY UpdateFacts DEF Reply, SessionInv
<1>2. s.req = <<h>> /\ s.res = <<a>>
  BY DEF Session
<1>3. Counted(h, a, blocks, history)
  BY AnswerCounts DEF SessionInv
<1> HIDE DEF s, a
<1>4. s.req[1] = h /\ s.res[1] = a
  BY <1>2
<1> QED
  BY <1>1, <1>3, <1>4 DEF CountInv, Becomes, tables

LEMMA CountNext ==
    ASSUME SessionInv, CountInv, [Next]_vars PROVE CountInv'
<1>0. SessionInv' /\ Grown
  BY SessionNext
<1>1. ASSUME \A c \in Clients : session'[c].pc = "writing" => session'[c] = session[c] PROVE CountInv'
  BY <1>0, <1>1, CountsGrow DEF CountInv, SessionInv
<1>2. ASSUME NEW c \in Clients, NEW s, s.pc # "writing", session' = [session EXCEPT ![c] = s] PROVE CountInv'
  <2>1. Becomes(c, s)
    BY <1>2, UpdateFacts DEF SessionInv
  <2> QED
    BY <1>1, <1>2, <2>1 DEF Becomes
<1>3. /\ \A k : Reading(k).pc # "writing"
      /\ \A h, k : Session("reading", <<h>>, <<h>>, k, <<>>, <<>>).pc # "writing"
      /\ \A sent, h, k, early : Session("counting", sent, <<h>>, k, early, <<>>).pc # "writing"
      /\ IdleSession.pc # "writing" /\ ClosedSession.pc # "writing"
  BY DEF Reading, Session, IdleSession, ClosedSession
<1>4. ASSUME NEW c \in Clients, OnAccept(c) \/ OnReadFirst(c) \/ OnWrite(c) \/ Drop(c) \/ Reconnect(c)
      PROVE  CountInv'
  <2>1. CASE OnAccept(c)
    BY <1>2, <1>3, <2>1 DEF OnAccept
  <2>2. CASE OnReadFirst(c)
    BY <1>2, <1>3, <2>2, OnReadFirstEffect DEF SessionInv, Hold
  <2>3. CASE OnWrite(c)
    BY <1>2, <1>3, <2>3, OnWriteEffect DEF SessionInv
  <2>4. CASE Drop(c) \/ Reconnect(c)
    BY <1>2, <1>3, <2>4 DEF Drop, Reconnect
  <2> QED
    BY <1>4, <2>1, <2>2, <2>3, <2>4
<1>5. ASSUME NEW c \in Clients, NEW h, Send(c, h) PROVE CountInv'
  BY <1>2, <1>3, <1>5 DEF Send
<1>6. ASSUME NEW c \in Clients, OnRead(c) PROVE CountInv'
  BY <1>6, OnReadEffect, CountReply DEF OnRead, SessionInv
<1>7. ASSUME NEW c \in Clients, OnReadSecond(c) PROVE CountInv'
  BY <1>7, OnReadSecondEffect, CountReply DEF OnReadSecond, SessionInv
<1>8. CASE Create \/ Run \/ UNCHANGED vars
  BY <1>1, <1>8 DEF Create, Run, vars
<1>9. CASE Exit
  BY <1>1, <1>3, <1>9 DEF Exit
<1>10. CASE Indexer
  BY <1>1, <1>10 DEF Indexer, AddBlock, AddTransaction, UpdateCount, AddWalletBlock, AddWalletTransactions
<1> QED
  BY <1>4, <1>5, <1>6, <1>7, <1>8, <1>9, <1>10 DEF Next, Io, NextPage

(***************************************************************************)
(* The counts of blocks and of a wallet's transactions are true when the   *)
(* client gets them, however far the indexer got since the queries, and    *)
(* between the two of get-wallet-history-state too.                        *)
(***************************************************************************)
THEOREM AlwaysCounted == Spec => []CountedRowsExist
<1>1. Init => CountInv
  BY DEF Init, CountInv, IdleSession, Session
<1>2. SessionInv /\ CountInv /\ [Next]_vars => CountInv'
  BY CountNext
<1>3. CountInv => CountedRowsExist
  BY DEF CountInv, Counted, CountedRowsExist
<1> QED
  BY <1>1, <1>2, <1>3, SessionsKept, PTL DEF Spec

-------------------------------------------------------------------------------
(* The pages. *)

(* What the queries of the paged methods see are lists. *)
LEMMA ListFacts ==
    ASSUME TablesOK
    PROVE  /\ \A k : Field(Tables, k, "transactions") \in Seq(WalletRow)
           /\ Tables.transactions = txs /\ txs \in Seq(TxRow)
           /\ \A i \in 1 .. Len(txs) : txs[i].serial \in Nat /\ txs[i].serial < MaxSerials
           /\ Nodes(Tables) = <<"n1", "n2", "n3">>
<1>1. \A k : Field(Tables, k, "transactions") \in Seq(WalletRow)
  <2>1. history # <<>> => history[1].transactions \in Seq(WalletRow)
    BY DEF TablesOK, Wallet
  <2>2. <<>> \in Seq(WalletRow)
    OBVIOUS
  <2> QED
    BY <2>1, <2>2, WalletFound
<1>2. Tables.transactions = txs /\ txs \in Seq(TxRow)
  BY TableFields DEF TablesOK, StreamOK
<1>3. \A x \in TxRow : x.serial \in Nat /\ x.serial < MaxSerials
  BY BackendAssumption DEF TxRow
<1>4. \A i \in 1 .. Len(txs) : txs[i].serial \in Nat /\ txs[i].serial < MaxSerials
  BY <1>2, <1>3
<1>5. Nodes(Tables) = <<"n1", "n2", "n3">>
  <2>1. Tables.node_states = <<<<"n1", "n2", "n3">>>>
    BY TableFields
  <2> QED
    BY <2>1 DEF Nodes, Last
<1> QED
  BY <1>1, <1>2, <1>4, <1>5

LEMMA PagesBounded ==
    ASSUME TablesOK, NEW method \in Paged, NEW p, \A x \in DOMAIN p : p[x] \in Value,
           Apply(method, p, Tables, Tables).result # <<>>
    PROVE  /\ PageLength(method, Apply(method, p, Tables, Tables).result[1]) <= p["limit"].n
           /\ p["limit"].n <= MaxLimit
<1> DEFINE d == Tables
<1>1. CASE method = "get-block-history"
  <2>1. d.blocks = BlockRows
    BY TableFields
  <2>2. Apply(method, p, d, d) = GetBlockHistory(p, d)
    BY <1>1 DEF Apply, Constants
  <2>3. /\ Cardinality(blocks) \in Nat /\ DOMAIN d.blocks = 1 .. Cardinality(blocks)
        /\ \A i \in 1 .. Cardinality(blocks) : d.blocks[i].block \in Nat
        /\ \A i, j \in 1 .. Cardinality(blocks) : i # j => d.blocks[i].block # d.blocks[j].block
    BY <2>1, BlockRowsFacts DEF TablesOK
  <2> HIDE DEF d
  <2> QED
    BY <1>1, <2>2, <2>3, BlockPageBounded DEF d, PageLength
<1>2. CASE method = "get-transaction-history"
  <2>1. Apply(method, p, d, d) = GetTransactionHistory(p, d)
    BY <1>2 DEF Apply, Constants
  <2>2. /\ Len(txs) \in Nat /\ DOMAIN d.transactions = 1 .. Len(txs)
        /\ \A i \in 1 .. Len(txs) : d.transactions[i].serial \in Nat
    BY ListFacts
  <2> HIDE DEF d
  <2> QED
    BY <1>2, <2>1, <2>2, TransactionPageBounded DEF d, PageLength, Numbers
<1>3. CASE method \in {"get-wallet-history-blocks", "get-wallet-history-transactions"}
  <2> DEFINE rows == Field(d, p["public-key"], "transactions")
  <2>1. \/ Apply(method, p, d, d) = GetWalletHistoryBlocks(p, d)
        \/ Apply(method, p, d, d) = GetWalletHistoryTransactions(p, d)
    BY <1>3 DEF Apply, Constants
  <2>2. rows \in Seq(WalletRow)
    BY ListFacts
  <2> HIDE DEF rows
  <2>3. Len(rows) \in Nat /\ rows = [i \in 1 .. Len(rows) |-> rows[i]]
    BY <2>2
  <2> HIDE DEF d
  <2> QED
    BY <1>3, <2>1, <2>3, WalletPageBounded DEF d, rows, PageLength
<1>4. CASE method = "get-nodes"
  <2>1. Apply(method, p, d, d) = GetNodes(p, d)
    BY <1>4 DEF Apply, Constants
  <2>2. Nodes(d) = [i \in 1 .. 3 |-> Nodes(d)[i]]
    <3>1. Nodes(d) = <<"n1", "n2", "n3">>
      BY ListFacts
    <3> HIDE DEF d
    <3>2. <<"n1", "n2", "n3">> = [i \in 1 .. 3 |-> <<"n1", "n2", "n3">>[i]]
      OBVIOUS
    <3> QED
      BY <3>1, <3>2, Zenon
  <2> HIDE DEF d
  <2> QED
    BY <1>4, <2>1, <2>2, NodePageBounded DEF d, PageLength
<1> QED
  BY <1>1, <1>2, <1>3, <1>4 DEF Paged

(***************************************************************************)
(* No answer of a paged method is longer than the limit it is asked with,  *)
(* nor that limit larger than check_limit accepts, for any state of the    *)
(* tables, any size of a word that exceeds the limit and any parameters.   *)
(* Rows that a crash of the indexer left with one serial count once.       *)
(***************************************************************************)
THEOREM AlwaysBounded == Spec => []PageBounded
<1>1. TablesOK => PageBounded
  <2> SUFFICES ASSUME TablesOK, NEW b \in Probes, FromString(b).method # <<>>, FromString(b).method[1] \in Paged,
                      Answer(b, Tables, Tables).result # <<>>, Answer(b, Tables, Tables).result[1] # <<>>
               PROVE  /\ PageLength(FromString(b).method[1], Answer(b, Tables, Tables).result[1])
                            <= FromString(b).params["limit"].n
                      /\ FromString(b).params["limit"].n <= MaxLimit
    BY DEF PageBounded
  <2> DEFINE method == FromString(b).method[1]
             p == FromString(b).params
             out == Apply(method, p, Tables, Tables)
  <2>1. Out(b, Tables, Tables) = out
    BY DEF Out, Paged, Methods
  <2>2. \A x \in DOMAIN p : p[x] \in Value
    BY ParamsAreValues, RequestsAssumption
  <2>3. out.raised = None
    <3>1. out.raised # None => Answer(b, Tables, Tables).result \in {<<>>, <<<<>>>>}
      BY <2>1, AnswerCases
    <3>2. <<<<>>>>[1] = <<>>
      OBVIOUS
    <3> HIDE DEF out
    <3> QED
      BY <3>1, <3>2
  <2>4. Answer(b, Tables, Tables).result = out.result
    BY <2>1, <2>3, AnswerCases
  <2> HIDE DEF method, p
  <2> QED
    BY <2>2, <2>4, PagesBounded DEF method, p
<1> QED
  BY <1>1, SessionsKept, PTL DEF SessionInv

-------------------------------------------------------------------------------
(* The tables that are joined from their pages. *)

(* Both tables are in the order of what they are paged by, which is below their bounds. *)
LEMMA TablesOrdered ==
    ASSUME TablesOK
    PROVE  /\ \E S : BlockRows \in Seq(S)
           /\ Ordered(BlockRows, "block") /\ NumbersBelow(BlockRows, "block", MaxBlocks)
           /\ \E S : Tables.transactions \in Seq(S)
           /\ Ordered(Tables.transactions, "serial") /\ NumbersBelow(Tables.transactions, "serial", MaxSerials)
<1> DEFINE n == Cardinality(blocks)
           ids == Ascending(blocks)
           T == Tables.transactions
<1>1. blocks \in SUBSET Int /\ IsFiniteSet(blocks) /\ \A b \in blocks : b \in Nat /\ b < MaxBlocks
  <2>1. blocks \in SUBSET (0 .. MaxBlocks - 1) /\ MaxBlocks \in Nat
    BY BackendAssumption DEF TablesOK
  <2>2. IsFiniteSet(0 .. MaxBlocks - 1)
    BY <2>1, FS_Interval
  <2>3. IsFiniteSet(blocks)
    BY <2>1, <2>2, FS_Subset
  <2> QED
    BY <2>1, <2>3
<1>2. n \in Nat /\ DOMAIN ids = 1 .. n /\ \A i \in 1 .. n : ids[i] \in blocks
  BY <1>1, AscendingFacts
<1>3. \A i, j \in 1 .. n : i < j => ids[i] < ids[j]
  BY <1>1, AscendingIncreases
<1>4. BlockRows = [i \in DOMAIN ids |-> [block |-> ids[i]]]
  BY DEF BlockRows
<1> HIDE DEF n, ids
<1>5. BlockRows = [i \in 1 .. n |-> [block |-> ids[i]]]
  BY <1>2, <1>4
<1>6. BlockRows \in Seq([block : blocks]) /\ Len(BlockRows) = n
  BY <1>2, <1>5
<1>7. \A i \in 1 .. n : BlockRows[i].block = ids[i]
  BY <1>5
<1>8. Ordered(BlockRows, "block") /\ NumbersBelow(BlockRows, "block", MaxBlocks)
  <2>1. \A i \in 1 .. n : ids[i] \in Nat /\ ids[i] < MaxBlocks
    BY <1>1, <1>2
  <2>2. \A i, j \in 1 .. n : i < j => ids[i] <= ids[j]
    BY <1>3, <2>1
  <2> QED
    BY <1>6, <1>7, <2>1, <2>2 DEF Ordered, NumbersBelow
<1>9. T = txs /\ txs \in Seq(TxRow) /\ \A i \in 1 .. Len(txs) : txs[i].serial \in Nat /\ txs[i].serial < MaxSerials
  BY ListFacts
<1>10. \A i, j \in 1 .. Len(txs) : i < j => txs[i].serial <= txs[j].serial
  BY DEF TablesOK, StreamOK
<1> HIDE DEF T
<1>11. Ordered(T, "serial") /\ NumbersBelow(T, "serial", MaxSerials)
  BY <1>9, <1>10 DEF Ordered, NumbersBelow
<1> QED
  BY <1>6, <1>8, <1>9, <1>11 DEF T

(* No page of a table that is asked for goes beyond a word. *)
LEMMA PagesFit ==
    ASSUME NEW n \in {MaxBlocks, MaxSerials}, NEW limit \in 1 .. MaxLimit
    PROVE  /\ n \in Nat /\ limit \in Nat /\ limit <= MaxLimit
           /\ limit * n < Word /\ n <= limit * n /\ n + 1 < Word
           /\ \A i \in 1 .. n : limit * (i - 1) \in Nat /\ limit * (i - 1) < Word
<1>1. n \in Nat /\ MaxLimit \in Nat /\ Word \in Nat /\ MaxLimit * (n + 1) < Word
  BY BackendAssumption, JsonRpcAssumption
<1>2. limit * n \in Nat /\ limit * n <= MaxLimit * n /\ MaxLimit * (n + 1) = MaxLimit * n + MaxLimit /\ n <= limit * n
  BY <1>1
<1>3. MaxLimit * n \in Nat /\ n + 1 <= MaxLimit * n + MaxLimit
  BY <1>1, <1>2
<1>4. limit * n < Word /\ n + 1 < Word
  BY <1>1, <1>2, <1>3
<1>5. \A i \in 1 .. n : limit * (i - 1) \in Nat /\ limit * (i - 1) <= limit * n
  BY <1>1
<1> QED
  BY <1>1, <1>2, <1>4, <1>5

LEMMA PagesJoined ==
    ASSUME NEW S, NEW rows \in Seq(S), NEW index, Ordered(rows, index),
           NEW n \in {MaxBlocks, MaxSerials}, NumbersBelow(rows, index, n),
           NEW limit \in 1 .. MaxLimit, NEW pages, ArePages(pages, rows, index, limit, n)
    PROVE  FlattenSeq(pages) = rows
<1> DEFINE end == limit * n
<1>1. n \in Nat /\ limit \in Nat /\ end < Word /\ end \in Nat /\ n <= end
  BY PagesFit
<1>2. NumbersBelow(rows, index, end)
  <2> HIDE DEF end
  <2> QED
    BY <1>1 DEF NumbersBelow, Ordered
<1> QED
  BY <1>1, <1>2, PagesAreTable

(***************************************************************************)
(* get_block_history and get_transaction_history: the pages of any size    *)
(* that check_limit accepts, one after another, are the whole table, each  *)
(* row once and in order, whatever ids are missing and however many rows   *)
(* have one serial; a page of one block is an array of what get_block      *)
(* answers.  For tables whose last page ends below 2^64.                   *)
(***************************************************************************)
THEOREM AlwaysJoins == Spec => []PagesJoin
<1> DEFINE page(method, first, limit) ==
              Answer(Post(Request(0, method, [first |-> Num(first), limit |-> Num(limit)])).body,
                     Tables, Tables).result[1]
<1>1. ASSUME NEW first \in Nat, first < Word, NEW limit \in 1 .. MaxLimit
      PROVE  /\ page("get-block-history", first, limit) = Between(Tables.blocks, "block", first, limit)
             /\ page("get-transaction-history", first, limit) = Between(Tables.transactions, "serial", first, limit)
  <2>1. \A b : Post(b).body = b
    BY DEF Post, Http
  <2>2. limit \in Nat /\ limit <= MaxLimit
    BY JsonRpcAssumption
  <2> QED
    BY <1>1, <2>1, <2>2, HistoryAnswer
<1> HIDE DEF page
<1>2. ASSUME TablesOK, NEW limit \in 1 .. MaxLimit
      PROVE  /\ FlattenSeq([i \in 1 .. MaxBlocks |-> page("get-block-history", limit * (i - 1), limit)])
                  = Tables.blocks
             /\ FlattenSeq([i \in 1 .. MaxSerials |-> page("get-transaction-history", limit * (i - 1), limit)])
                  = Tables.transactions
  <2> DEFINE B == Tables.blocks
             T == Tables.transactions
             bs == [i \in 1 .. MaxBlocks |-> page("get-block-history", limit * (i - 1), limit)]
             ts == [i \in 1 .. MaxSerials |-> page("get-transaction-history", limit * (i - 1), limit)]
  <2>1. /\ (\E S : B \in Seq(S)) /\ Ordered(B, "block") /\ NumbersBelow(B, "block", MaxBlocks)
        /\ (\E S : T \in Seq(S)) /\ Ordered(T, "serial") /\ NumbersBelow(T, "serial", MaxSerials)
    BY <1>2, TablesOrdered, TableFields
  <2>2. ArePages(bs, B, "block", limit, MaxBlocks) /\ ArePages(ts, T, "serial", limit, MaxSerials)
    BY <1>1, PagesFit DEF ArePages
  <2> HIDE DEF B, T, bs, ts
  <2>3. FlattenSeq(bs) = B
    <3>1. PICK S : B \in Seq(S)
      BY <2>1
    <3> QED
      BY <2>1, <2>2, <3>1, PagesJoined
  <2>4. FlattenSeq(ts) = T
    <3>1. PICK S : T \in Seq(S)
      BY <2>1
    <3> QED
      BY <2>1, <2>2, <3>1, PagesJoined
  <2> QED
    BY <2>3, <2>4 DEF B, T, bs, ts
<1>3. ASSUME TablesOK, NEW id \in 0 .. MaxBlocks
      PROVE  LET found == page("get-block-history", id, 1)
                 one   == Answer(Request(0, "get-block", [id |-> Num(id)]), Tables, Tables).result[1]
             IN  IF id \in blocks THEN found = <<one>> ELSE found = <<>> /\ one = <<>>
  <2>1. 1 \in 1 .. MaxLimit /\ id \in Nat /\ id < Word /\ id + 1 < Word
    <3>1. 1 \in 1 .. MaxLimit
      BY BackendAssumption, JsonRpcAssumption
    <3>2. MaxBlocks \in Nat /\ MaxBlocks + 1 < Word /\ Word \in Nat
      BY <3>1, PagesFit, JsonRpcAssumption
    <3> QED
      BY <3>1, <3>2
  <2> DEFINE B == Tables.blocks
             found == Between(B, "block", id, 1)
             one == Get(B, "block", id)
  <2>2. /\ page("get-block-history", id, 1) = found
        /\ Answer(Request(0, "get-block", [id |-> Num(id)]), Tables, Tables).result[1] = one
    BY <1>1, <2>1, BlockAnswer
  <2>3. B = BlockRows
    BY TableFields
  <2>4. PICK S : B \in Seq(S)
    BY <1>3, <2>3, TablesOrdered
  <2>5. /\ \A i \in 1 .. Len(B) : B[i]["block"] \in Nat /\ B[i]["block"] \in blocks
        /\ \A i, j \in 1 .. Len(B) : i # j => B[i]["block"] # B[j]["block"]
    BY <1>3, <2>3, BlockRowsFacts DEF TablesOK
  <2>6. id \in blocks => \E i \in 1 .. Len(B) : B[i]["block"] = id
    BY <1>3, <2>3, BlockRowsFacts
  <2> HIDE DEF B
  <2>7. IF \E i \in 1 .. Len(B) : B[i]["block"] = id THEN found = <<one>> ELSE found = <<>> /\ one = <<>>
    BY <2>1, <2>4, <2>5, PageOfOne
  <2> HIDE DEF found, one
  <2> QED
    BY <2>2, <2>5, <2>6, <2>7
<1>4. TablesOK => PagesJoin
  BY <1>2, <1>3 DEF PagesJoin, page
<1> QED
  BY <1>4, SessionsKept, PTL DEF SessionInv

-------------------------------------------------------------------------------
(* The history that a client joins. *)

PageRequest(n) ==
    Post(Request(0, "get-wallet-history-transactions",
                 Params(Key, [first |-> Num(n), limit |-> Num(PageSize)])))

(* g is a prefix of the wallet's history, whose length fits in a word. *)
Gathered(g, hist) ==
    /\ g \in Seq(WalletRow) /\ Len(g) < Word
    /\ g # <<>> => /\ hist # <<>> /\ Len(g) <= Len(hist[1].transactions)
                   /\ \A i \in 1 .. Len(g) : g[i] = hist[1].transactions[i]

LEMMA GatheredGrows ==
    ASSUME Grown, TablesOK, TablesOK', NEW g, Gathered(g, history) PROVE Gathered(g, history')
<1>1. g = <<>> \/ (history # <<>> /\ history' # <<>>)
  BY DEF Gathered, Grown
<1>2. history # <<>> => Len(history[1].transactions) \in Nat
  BY DEF TablesOK, Wallet
<1>3. history' # <<>> => Len(history'[1].transactions) \in Nat
  BY DEF TablesOK, Wallet
<1>4. g \in Seq(WalletRow) /\ Len(g) \in Nat
  BY DEF Gathered
<1> QED
  BY <1>1, <1>2, <1>3, <1>4 DEF Gathered, Grown

(* The parameters of a request for a page. *)
LEMMA PageParams ==
    ASSUME NEW n
    PROVE  LET p == Params(Key, [first |-> Num(n), limit |-> Num(PageSize)])
               b == PageRequest(n).body
           IN  /\ PageRequest(n).path = "/v1/api" /\ PageRequest(n).verb = "post" /\ IsHttp(PageRequest(n))
               /\ b # Empty /\ FromString(b).method = <<"get-wallet-history-transactions">>
               /\ FromString(b).params = p /\ FromString(b).error = None
               /\ Has(p, "public-key") /\ Has(p, "first") /\ Has(p, "limit")
               /\ p["public-key"] = Key /\ p["first"] = Num(n) /\ p["limit"] = Num(PageSize)
<1> DEFINE rest == [first |-> Num(n), limit |-> Num(PageSize)]
           p == Params(Key, rest)
           b == PageRequest(n).body
<1>1. DOMAIN rest = {"first", "limit"} /\ rest["first"] = Num(n) /\ rest["limit"] = Num(PageSize)
  OBVIOUS
<1>2. DOMAIN p = {"public-key", "first", "limit"}
  BY <1>1 DEF Params
<1>3. p["public-key"] = Key /\ p["first"] = Num(n) /\ p["limit"] = Num(PageSize)
  BY <1>1, <1>2 DEF Params
<1> HIDE DEF rest
<1>4. /\ b.text = "json" /\ b.jsonrpc = "2.0" /\ b.id = <<0>> /\ b.params = <<p>>
      /\ b.method = <<"get-wallet-history-transactions">>
  BY DEF PageRequest, Post, Http, Request, Body, rest
<1>5. PageRequest(n).path = "/v1/api" /\ PageRequest(n).verb = "post" /\ IsHttp(PageRequest(n))
  BY DEF PageRequest, Post, Http, IsHttp
<1> HIDE DEF b, p
<1>6. b # Empty
  BY <1>4 DEF Empty
<1>7. /\ FromString(b).method = <<"get-wallet-history-transactions">>
      /\ FromString(b).params = p /\ FromString(b).error = None
  BY <1>4 DEF FromString, None
<1> QED
  BY <1>2, <1>3, <1>5, <1>6, <1>7 DEF Has, b, p, rest

(* The answer to a request for a page, unless it is an error. *)
LEMMA PageAnswer ==
    ASSUME NEW n \in Nat, n < Word, NEW h, IsHttp(h), Passed(PageRequest(n), h),
           NEW early, NEW d, Handle(h, early, d).error = None
    PROVE  /\ PageSize <= MaxLimit
           /\ Handle(h, early, d).result[1] = Slice(Field(d, Key, "transactions"), n, PageSize)
<1> DEFINE b == PageRequest(n).body
           a == Answer(h.body, early, d)
           p == Params(Key, [first |-> Num(n), limit |-> Num(PageSize)])
           page == Slice(Field(d, Key, "transactions"), n, PageSize)
<1>1. Handle(h, early, d) = a /\ h.body \in {b, Garbage}
  BY PageParams DEF Passed, Handle
<1>2. \A e : Later("MethodNotFound", e) # None
  BY DEF Later, None
<1>3. h.body = b
  <2>1. Out(Garbage, early, d).raised \notin {None, "json", "other"}
    BY GarbageHasNoMethod, Outcomes DEF Out, None
  <2>2. Answer(Garbage, early, d).error # None
    BY <1>2, <2>1, AnswerCases
  <2> QED
    BY <1>1, <2>2
<1> DEFINE out == Out(b, early, d)
<1>4. out = GetWalletHistoryTransactions(p, d)
  <2>1. FromString(b).method = <<"get-wallet-history-transactions">> /\ FromString(b).params = p
    BY PageParams
  <2> HIDE DEF b, p
  <2> QED
    BY <2>1, OneMethod DEF Apply, Methods, Constants
<1>5. /\ Has(p, "public-key") /\ Has(p, "first") /\ Has(p, "limit")
      /\ p["public-key"] = Key /\ p["first"] = Num(n) /\ p["limit"] = Num(PageSize)
  BY PageParams
<1>6. out.raised = None /\ out.error = None /\ a.result = out.result
  <2>1. a = Answer(b, early, d)
    BY <1>3
  <2>2. a.error = None
    BY <1>1
  <2> HIDE DEF a, b, out
  <2>3. out.raised = None /\ a.result = out.result /\ a.error = Later(FromString(b).error, out.error)
    BY <1>2, <2>1, <2>2, AnswerCases DEF out, None
  <2> QED
    BY <2>2, <2>3 DEF Later
<1> HIDE DEF out, p, a, b
<1>7. n % Word = n /\ Num(n).kind = "number" /\ Num(n).n = n /\ Num(PageSize).kind = "number" /\ Num(PageSize).n = PageSize
  BY Wrap DEF Num
<1>8. out # Refuse /\ \A x \in {"json", "other"} : out # Raise(x)
  BY <1>6, Outcomes DEF None
<1>9. TransactionId(p, "first") = Return(n)
  BY <1>5, <1>7 DEF TransactionId, Number
<1>10. ~(PageSize > MaxLimit) /\ String(p, "public-key") /\ out = Return(page)
  <2> DEFINE then == With(StringOf(p, "public-key"), LAMBDA k :
                       With(TransactionId(p, "first"), LAMBDA id : Return(WalletTransactions(d, k, id, p["limit"].n))))
  <2>1. then = IF String(p, "public-key") THEN Return(page) ELSE Raise("json")
    BY <1>5, <1>7, <1>9, Outcomes DEF With, StringOf, WalletTransactions
  <2>2. out = CheckLimit(p, then)
    BY <1>4, <1>5 DEF GetWalletHistoryTransactions, Check
  <2> HIDE DEF then, page
  <2>3. out = IF PageSize > MaxLimit THEN Refuse ELSE then
    BY <1>5, <1>7, <2>2 DEF CheckLimit, Number
  <2> QED
    BY <1>8, <2>1, <2>3
<1>11. out.result[1] = page
  BY <1>10, Outcomes
<1>12. PageSize \in Nat /\ MaxLimit \in Nat
  BY BackendAssumption, JsonRpcAssumption
<1> QED
  BY <1>1, <1>6, <1>10, <1>11, <1>12

(* The page that is asked for continues the prefix. *)
LEMMA PageContinues ==
    ASSUME TablesOK, NEW g, Gathered(g, history), NEW h, IsHttp(h), Passed(PageRequest(Len(g)), h),
           NEW early, NEW d \in {Tables, NoTables}, Handle(h, early, d).error = None
    PROVE  Gathered(g \o Handle(h, early, d).result[1], history)
<1> DEFINE n == Len(g)
           rows == Field(d, Key, "transactions")
           page == Slice(rows, n, PageSize)
<1>1. g \in Seq(WalletRow) /\ n \in Nat /\ n < Word
  BY DEF Gathered
<1>2. PageSize \in Nat /\ PageSize <= MaxLimit /\ Handle(h, early, d).result[1] = page
  BY <1>1, PageAnswer, BackendAssumption
<1>3. CASE rows = <<>>
  <2>1. page = <<>>
    BY <1>1, <1>2, <1>3, SliceOfNothing
  <2>2. g \o <<>> = g
    BY <1>1
  <2> QED
    BY <1>2, <2>1, <2>2
<1>4. CASE rows # <<>>
  <2>1. history # <<>> /\ rows = history[1].transactions
    BY <1>4, WalletFound
  <2>2. rows \in Seq(WalletRow) /\ Len(rows) \in Nat
    BY <2>1 DEF TablesOK, Wallet
  <2>3. n <= Len(rows) /\ \A i \in 1 .. n : g[i] = rows[i]
    BY <1>1, <2>1, <2>2 DEF Gathered
  <2> HIDE DEF rows
  <2>4. /\ page \in Seq(WalletRow) /\ n + Len(page) <= Len(rows)
        /\ n + Len(page) < Word \/ page = <<>>
        /\ \A i \in 1 .. Len(page) : page[i] = rows[n + i]
    BY <1>1, <1>2, <2>2, <2>3, SliceFacts
  <2> HIDE DEF page
  <2>5. n + Len(page) < Word
    BY <1>1, <2>4
  <2>6. /\ g \o page \in Seq(WalletRow) /\ Len(g \o page) = n + Len(page)
        /\ \A i \in 1 .. n + Len(page) : (g \o page)[i] = IF i <= n THEN g[i] ELSE page[i - n]
    BY <1>1, <2>4
  <2>7. \A i \in 1 .. n + Len(page) : (g \o page)[i] = rows[i]
    <3> SUFFICES ASSUME NEW i \in 1 .. n + Len(page) PROVE (g \o page)[i] = rows[i]
      OBVIOUS
    <3>1. CASE i <= n
      BY <1>1, <2>3, <2>6, <3>1
    <3>2. CASE i > n
      <4>1. i - n \in 1 .. Len(page) /\ n + (i - n) = i
        BY <1>1, <2>4, <3>2
      <4> QED
        BY <1>1, <2>4, <2>6, <3>2, <4>1
    <3> QED
      BY <1>1, <3>1, <3>2
  <2> QED
    BY <1>2, <2>1, <2>4, <2>5, <2>6, <2>7 DEF Gathered
<1> QED
  BY <1>3, <1>4

(* The session waits for a page. *)
ForPage(s) == s.sent # <<>> /\ Method(s.sent[1]) = <<"get-wallet-history-transactions">>

PageOK(s, g, hist) ==
    ForPage(s) =>
      /\ s.sent[1] = PageRequest(Len(g))
      /\ (s.pc = "writing" /\ s.res[1].error = None) => Gathered(g \o s.res[1].result[1], hist)

(* One page is asked for at a time, and it is the one that continues what was collected. *)
PageInv ==
    /\ Gathered(got, history)
    /\ \A c, x \in Clients : ForPage(session[c]) /\ ForPage(session[x]) => c = x
    /\ \A c \in Clients : PageOK(session[c], got, history)

(* A session that asks for no other page than before. *)
LEMMA PageKept ==
    ASSUME PageInv, NEW c \in Clients, NEW s, Becomes(c, s), got' = got, history' = history,
           ForPage(s) => ForPage(session[c]), PageOK(s, got, history)
    PROVE  PageInv'
<1>1. \A x \in Clients : ForPage(session'[x]) => ForPage(session[x])
  BY DEF Becomes
<1>2. \A x \in Clients : PageOK(session'[x], got, history)
  BY DEF Becomes, PageInv
<1> QED
  BY <1>1, <1>2 DEF PageInv

LEMMA PageReply ==
    ASSUME SessionInv, PageInv, NEW c \in Clients, NEW h, IsHttp(h), Passed(session[c].sent[1], h),
           NEW early, NEW d \in {Tables, NoTables}, session' = Reply(c, h, Handle(h, early, d)),
           got' = got, history' = history
    PROVE  PageInv'
<1> DEFINE a == Handle(h, early, d)
           s == Session("writing", session[c].sent, <<h>>, session[c].kept, <<>>, <<a>>)
<1>1. Becomes(c, s)
  BY UpdateFacts DEF Reply, SessionInv
<1>2. s.sent = session[c].sent /\ s.res = <<a>> /\ s.res[1] = a
  BY DEF Session
<1> HIDE DEF s
<1>3. ForPage(s) => ForPage(session[c]) /\ session[c].sent[1] = PageRequest(Len(got))
  BY <1>2 DEF ForPage, PageInv, PageOK
<1>4. Gathered(got, history) /\ TablesOK
  BY DEF PageInv, SessionInv
<1>5. ForPage(s) /\ a.error = None => Gathered(got \o a.result[1], history)
  BY <1>3, <1>4, PageContinues
<1> HIDE DEF a
<1>6. PageOK(s, got, history)
  BY <1>2, <1>3, <1>5 DEF PageOK
<1> QED
  BY <1>1, <1>3, <1>6, PageKept

LEMMA PageNext ==
    ASSUME SessionInv, PageInv, [Next]_vars PROVE PageInv'
<1>0. SessionInv' /\ Grown /\ Sessions /\ TablesOK /\ TablesOK'
  BY SessionNext DEF SessionInv
<1>1. ASSUME NEW c \in Clients, NEW s, session' = [session EXCEPT ![c] = s], s.sent = <<>>, got' = got, history' = history
      PROVE  PageInv'
  <2>1. ~ForPage(s)
    BY <1>1 DEF ForPage
  <2>2. Becomes(c, s)
    BY <1>0, <1>1, UpdateFacts
  <2> QED
    BY <1>1, <2>1, <2>2, PageKept DEF PageOK
<1>2. /\ \A k : Reading(k).sent = <<>>
      /\ IdleSession.sent = <<>> /\ ClosedSession.sent = <<>>
  BY DEF Reading, Session, IdleSession, ClosedSession
<1>3. ASSUME NEW c \in Clients, OnAccept(c) \/ Drop(c) \/ Reconnect(c) PROVE PageInv'
  BY <1>1, <1>2, <1>3 DEF OnAccept, Drop, Reconnect, tables
<1>4. ASSUME NEW c \in Clients, OnRead(c) PROVE PageInv'
  <2>1. got' = got /\ history' = history
    BY <1>4 DEF OnRead, tables
  <2> QED
    BY <1>0, <1>4, <2>1, OnReadEffect, PageReply
<1>5. ASSUME NEW c \in Clients, OnReadFirst(c) PROVE PageInv'
  <2>1. PICK h, early : session' = Hold(c, h, early)
    BY <1>0, <1>5, OnReadFirstEffect
  <2> DEFINE s == Session("counting", session[c].sent, <<h>>, session[c].kept, early, <<>>)
  <2>2. Becomes(c, s) /\ got' = got /\ history' = history
    BY <1>0, <1>5, <2>1, UpdateFacts DEF Hold, OnReadFirst, tables
  <2>3. s.sent = session[c].sent /\ s.pc = "counting"
    BY DEF Session
  <2> HIDE DEF s
  <2>4. PageOK(s, got, history) /\ (ForPage(s) => ForPage(session[c]))
    BY <2>3 DEF PageInv, PageOK, ForPage
  <2> QED
    BY <2>2, <2>4, PageKept
<1>6. ASSUME NEW c \in Clients, OnReadSecond(c) PROVE PageInv'
  <2>1. got' = got /\ history' = history
    BY <1>6 DEF OnReadSecond, tables
  <2>2. IsHttp(session[c].req[1]) /\ Passed(session[c].sent[1], session[c].req[1])
    BY <1>0, <1>6, OnReadSecondEffect DEF Counting, Holding, OneHttp
  <2> QED
    BY <1>0, <1>6, <2>1, <2>2, OnReadSecondEffect, PageReply
<1>7. ASSUME NEW c \in Clients, OnWrite(c) PROVE PageInv'
  <2>1. PICK s \in {ClosedSession, Reading(session[c].req[1].body)} : session' = [session EXCEPT ![c] = s]
    BY <1>0, <1>7, OnWriteEffect
  <2>2. Becomes(c, s) /\ s.sent = <<>> /\ history' = history
    BY <1>0, <1>2, <1>7, <2>1, UpdateFacts DEF OnWrite, tables
  <2>3. session[c].sent # <<>> /\ session[c].pc = "writing"
    <3>1. Writing(session[c])
      BY <1>0, <1>7, OnWriteEffect
    <3> QED
      BY <3>1 DEF Writing, Holding, OneHttp
  <2>4. got' = IF ForPage(session[c]) /\ session[c].res[1].error = None
               THEN got \o session[c].res[1].result[1] ELSE got
    BY <1>7, <2>3 DEF OnWrite, ForPage
  <2>5. CASE got' = got
    BY <1>1, <2>1, <2>2, <2>5
  <2>6. CASE got' # got
    <3>1. ForPage(session[c]) /\ Gathered(got', history)
      BY <2>3, <2>4, <2>6 DEF PageInv, PageOK
    <3>2. \A x \in Clients : ~ForPage(session'[x])
      BY <2>2, <3>1 DEF PageInv, Becomes, ForPage
    <3> QED
      BY <2>2, <3>1, <3>2 DEF PageInv, PageOK
  <2> QED
    BY <2>5, <2>6
<1>8. ASSUME NEW c \in Clients, NEW h \in Requests, Send(c, h) PROVE PageInv'
  <2> DEFINE s == Session("reading", <<h>>, <<h>>, session[c].kept, <<>>, <<>>)
  <2>1. Becomes(c, s) /\ got' = got /\ history' = history
    BY <1>0, <1>8, UpdateFacts DEF Send, tables
  <2>2. s.sent = <<h>> /\ s.sent[1] = h
    BY DEF Session
  <2> HIDE DEF s
  <2>3. ~ForPage(s)
    BY <2>2, RequestsAssumption DEF ForPage
  <2> QED
    BY <2>1, <2>3, PageKept DEF PageOK
<1>9. ASSUME NEW c \in Clients, NextPage(c) PROVE PageInv'
  <2> DEFINE h == PageRequest(Len(got))
             s == Session("reading", <<h>>, <<h>>, session[c].kept, <<>>, <<>>)
  <2>1. \A x \in Clients : ~ForPage(session[x])
    BY <1>9 DEF NextPage, Paging, ForPage
  <2>2. Send(c, h)
    BY <1>9 DEF NextPage, PageRequest
  <2> HIDE DEF h
  <2>3. Becomes(c, s) /\ got' = got /\ history' = history
    BY <1>0, <2>2, UpdateFacts DEF Send, tables
  <2>4. s.sent = <<h>> /\ s.sent[1] = h /\ s.pc = "reading"
    BY DEF Session
  <2> HIDE DEF s
  <2>5. PageOK(s, got, history)
    BY <2>4 DEF PageOK, h
  <2>6. \A x \in Clients : ForPage(session'[x]) => x = c
    BY <2>1, <2>3 DEF Becomes
  <2>7. \A x \in Clients : PageOK(session'[x], got, history)
    BY <2>3, <2>5 DEF Becomes, PageInv
  <2> QED
    BY <2>3, <2>6, <2>7 DEF PageInv
<1>10. CASE Exit
  <2>1. \A x \in Clients : ~ForPage(session'[x])
    BY <1>2, <1>10 DEF Exit, ForPage
  <2> QED
    BY <1>10, <2>1 DEF PageInv, PageOK, Exit, tables
<1>11. CASE Create \/ Run \/ Indexer \/ UNCHANGED vars
  <2>1. session' = session /\ got' = got
    BY <1>11 DEF Create, Run, Indexer, AddBlock, AddTransaction, UpdateCount, AddWalletBlock,
                 AddWalletTransactions, vars
  <2>2. \A x \in Clients : PageOK(session[x], got, history')
    BY <1>0, GatheredGrows DEF PageInv, PageOK
  <2> QED
    BY <1>0, <2>1, <2>2, GatheredGrows DEF PageInv
<1> QED
  BY <1>3, <1>4, <1>5, <1>6, <1>7, <1>8, <1>9, <1>10, <1>11 DEF Next, Io

(***************************************************************************)
(* A client that joins the pages of a wallet's history has a prefix of it, *)
(* for any page size and any number of connections, while the indexer      *)
(* appends and queries fail: no transaction is skipped or there twice.     *)
(***************************************************************************)
THEOREM AlwaysPrefix == Spec => []PagesComplete
<1>1. Init => PageInv
  <2> SUFFICES ASSUME Init PROVE PageInv
    OBVIOUS
  <2>1. got = <<>> /\ \A c \in Clients : ~ForPage(session[c])
    BY DEF Init, ForPage, IdleSession, Session
  <2>2. Gathered(<<>>, history)
    BY JsonRpcAssumption DEF Gathered
  <2> QED
    BY <2>1, <2>2 DEF PageInv, PageOK
<1>2. SessionInv /\ PageInv /\ [Next]_vars => PageInv'
  BY PageNext
<1>3. SessionInv /\ PageInv => PagesComplete
  <2> SUFFICES ASSUME SessionInv, PageInv, got # <<>>
               PROVE  /\ Len(got) <= Len(history[1].transactions)
                      /\ got = SubSeq(history[1].transactions, 1, Len(got))
    BY DEF PagesComplete
  <2> DEFINE rows == history[1].transactions
  <2>1. /\ got \in Seq(WalletRow) /\ history # <<>> /\ Len(got) <= Len(rows)
        /\ \A i \in 1 .. Len(got) : got[i] = rows[i]
    BY DEF PageInv, Gathered
  <2>2. rows \in Seq(WalletRow)
    BY <2>1 DEF SessionInv, TablesOK, Wallet
  <2> HIDE DEF rows
  <2>3. got = SubSeq(rows, 1, Len(got))
    <3> DEFINE n == Len(got)
    <3>0. n \in Nat /\ Len(rows) \in Nat /\ n <= Len(rows)
      BY <2>1, <2>2
    <3>1. /\ SubSeq(rows, 1, n) \in Seq(WalletRow) /\ Len(SubSeq(rows, 1, n)) = n
          /\ \A i \in 1 .. n : SubSeq(rows, 1, n)[i] = rows[i]
      BY <2>2, <3>0
    <3> QED
      BY <2>1, <3>0, <3>1, SeqEqual
  <2> QED
    BY <2>1, <2>3 DEF rows
<1> QED
  BY <1>1, <1>2, <1>3, SessionsKept, PTL DEF Spec
===============================================================================
