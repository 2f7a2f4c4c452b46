------------------------------ MODULE MC_Wallets -------------------------------
(* Small chains for Wallets: a genesis that opens wallet "A", and blocks with *)
(* transfers between "A", "B" and "C".                                        *)
EXTENDS Wallets, TLC

(* "A" pays "B"; in the next block "B" pays "A" and "A" registers a node,     *)
(* which has no receiver and two names for the same key.                      *)
ChainBlocks == {0, 1, 2}
ChainUpdates ==
    0 :> UpdatesOf(<<"A">>, <<>>, "g") @@
    1 :> UpdatesOf(<<"A">>, <<"B">>, "t1") @@
    2 :> UpdatesOf(<<"B">>, <<"A">>, "t2") \o UpdatesOf(<<"A">>, <<>>, "t3")

(* "B" pays "C" in the genesis; in the next block "A" pays "B", and "C",      *)
(* which no node knows, registers a node.                                     *)
StateBlocks == {0, 1}
StateUpdates ==
    0 :> UpdatesOf(<<"B">>, <<"C">>, "g") @@
    1 :> UpdatesOf(<<"A">>, <<"B">>, "t1") \o UpdatesOf(<<"C">>, <<>>, "t2")
StateKnown == {"A", "B"}
StateUnknown == {"C"}

None == {}

===============================================================================
