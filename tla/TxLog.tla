-------------------------------- MODULE TxLog --------------------------------
(***************************************************************************)
(* What the transaction stream promises its readers: every transaction row *)
(* gets the next serial number once, and keeps it.  get-transaction-history *)
(* pages through the serials from 0 to the "count" of the state.           *)
(***************************************************************************)
EXTENDS Naturals

CONSTANT Rows           \* the transaction rows of the chain

VARIABLES log,          \* the rows in the stream
          serial,       \* the serial number of each of them
          count         \* the next serial number

Init == /\ log = {}
        /\ serial = [r \in Rows |-> 0]
        /\ count = 0

(* A new row takes the next number. *)
Append == \E r \in Rows \ log : /\ log' = log \cup {r}
                                /\ serial' = [serial EXCEPT ![r] = count]
                                /\ count' = count + 1

Spec == Init /\ [][Append]_<<log, serial, count>>
===============================================================================
