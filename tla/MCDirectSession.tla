-------------------------- MODULE MCDirectSession --------------------------
(* Small instances of DirectSession for TLC.                               *)
EXTENDS DirectSession, TLC
CONSTANTS r1, r2, closer, resetter, none

(* Two calls whose signatures differ in the order of the names.            *)
TwoKeys == {"ab", "ba"}
TwoOrders == (r1 :> "ab") @@ (r2 :> "ba")
SmallClients == {{r1, r2, closer}, {r1, closer, resetter}}
Sorted == [k \in TwoKeys |-> "ab"]
=============================================================================
