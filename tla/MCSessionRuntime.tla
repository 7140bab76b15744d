-------------------------- MODULE MCSessionRuntime --------------------------
(* SessionRuntime for TLC: a transport session and a handle on two         *)
(* databases, with as many runtimes and managers as calls.                 *)
EXTENDS SessionRuntime, TLC

MCSessions == 1..MaxSessions

MCSymmetry == Permutations(Calls) \cup Permutations(Databases)
=============================================================================
