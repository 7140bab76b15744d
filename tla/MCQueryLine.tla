---------------------------- MODULE MCQueryLine ----------------------------
(* QueryLine for TLC.  Three calls are the fewest for one to hold the      *)
(* lock, one to wait behind it, which is as many as the bound admits, and  *)
(* one to arrive between the release and the moment the woken waiter runs. *)
EXTENDS QueryLine, TLC

CallSymmetry == Permutations(Calls)
=============================================================================
