----------------------------- MODULE MC_Statistics -----------------------------
EXTENDS Statistics

(* A day is 2: the first block is on the border of two intervals and on the start of the last day. *)
MCChain == <<[time |-> 20, moved |-> <<<<0, 3>>, <<1, 1>>>>],
             [time |-> 22, moved |-> <<<<0, 2>>>>]>>

MCNames == <<"meta", "blocks", "transactions", "wallets_state", "turnovers", "transaction_turnover">>

MCIndices == <<<<"blocks", "block-id">>, <<"blocks", "timestamp">>, <<"transactions", "timestamp">>>>
===============================================================================
