------------------------------ MODULE MC_Backend ------------------------------
EXTENDS Backend

MCKey == Str(<<"A">>, <<>>)

MCWalletTxs == <<2, 1>>

Other == Str(<<"B">>, <<>>)

MCProbes ==
    LET ids    == {Num(0), Num(3), Decimal(0), Decimal(Last256), Str(<<"x">>, <<>>), Str(<<>>, <<1, 0>>), Bool}
        limits == {Num(0), Num(1), Num(MaxLimit), Num(MaxLimit + 1), Decimal(1)}
        keys   == {MCKey, Other, Num(1)}
        some(ps) == {NoParams} \cup ps
        ranges == {[first |-> f, limit |-> l] : f \in ids, l \in limits} \cup {[first |-> Num(0)]}
        reqs(ms, ps) == {Request(0, m, p) : m \in ms, p \in some(ps)}
    IN  reqs(Methods, {})
        \cup reqs({"get-block-history", "get-transaction-history", "get-nodes"}, ranges)
        \cup reqs({"get-wallet-history-blocks", "get-wallet-history-transactions"},
                  {Params(MCKey, r) : r \in ranges}
                  \cup {Params(k, [first |-> Num(0), limit |-> Num(1)]) : k \in keys})
        \cup reqs({"get-wallet-history-state", "get-wallet-node"}, {Params(k, NoParams) : k \in keys})
        \cup reqs({"get-block"}, {[id |-> i] : i \in ids})
        \cup reqs({"get-transaction"},
                  {[digest |-> x] : x \in {Str(<<"digest">>, <<0>>), Num(0)}}
                  \cup {[id |-> i] : i \in ids \cup {Str(<<"A">>, <<0, 0>>)}}
                  \cup {Params(k, [id |-> i]) : i \in ids, k \in keys}
                  \cup {Params(k, ("block-id" :> x) @@ [id |-> i]) :
                          i \in {Num(0), Decimal(0), Bool}, k \in keys, x \in {Num(0), Decimal(0), Bool}})
        \cup reqs({"get-statistics"},
                  {[name |-> Str(<<n>>, <<>>)] : n \in {"turnover-24", "transaction-turnover", "wallets-top", "x"}}
                  \cup {[name |-> Num(0)]}
                  \cup {("asset-code" :> a) @@ [name |-> Str(<<"wallets-top">>, <<>>), limit |-> l] :
                          a \in {Num(0), Num(7), Num(Short), Bool}, l \in {Num(0), Num(9), Bool}})
        \cup {Empty, Garbage, Body("1.0", <<0>>, <<"ping">>, <<NoParams>>),
              Body("2.0", <<>>, <<"ping">>, <<NoParams>>), Body("2.0", <<0>>, <<>>, <<NoParams>>),
              Body("2.0", <<0>>, <<"ping">>, <<>>), Body("2.0", <<0>>, <<"x">>, <<>>), Request(0, "x", NoParams)}

MCRequests ==
    {Post(b) : b \in {Empty,
                      Request(1, "get-block-history-state", NoParams),
                      Request(3, "get-wallet-history-state", Params(MCKey, NoParams)),
                      Body("2.0", <<4>>, <<"ping">>, <<>>)}}
    \cup {Http("/v1/api/", "post", 10, Request(5, "ping", NoParams)),
          Http("/v1/api", "options", 11, Empty),
          Http("/x", "post", 11, Request(6, "ping", NoParams))}
===============================================================================
