------------------------- MODULE MCOntologyWorkflow -------------------------
(* Two sessions on a database, two background generations of the schema,   *)
(* and one file of a family kept, the newest.  Sessions and tasks are      *)
(* interchangeable, and only invariants are checked.                       *)
EXTENDS OntologyWorkflow, TLC

Interchangeable == Permutations(Sessions) \union Permutations(Tasks)
=============================================================================
