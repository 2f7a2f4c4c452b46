---------------------------- MODULE MC_NetworkState ----------------------------
(* A network whose second node joins at the second block and whose first node *)
(* leaves at the fourth; no nodes are listed at the third.                    *)
EXTENDS NetworkState

SomeRoster == [b \in MinHeight..MaxHeight |->
                 IF b = MinHeight THEN {"n1"}
                 ELSE IF b = MinHeight + 1 THEN {"n1", "n2"}
                 ELSE IF b = MinHeight + 2 THEN {}
                 ELSE {"n2", "n3"}]
===============================================================================
