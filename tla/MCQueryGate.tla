---------------------------- MODULE MCQueryGate ----------------------------
(* One call at a time of a session that connects three times, to a         *)
(* database another session holds and to one of its own.                   *)
EXTENDS QueryGate

(* Bound: no further than the first answer of a database.  No step reads   *)
(* what was answered, and a call begins alike whatever came of the last.   *)
UntilAnAnswer == ran = Nothing
=============================================================================
