------------------------- MODULE MCWorkspaceCleanup -------------------------
(***************************************************************************)
(* TLC instances of WorkspaceCleanup: two sessions, two databases.         *)
(***************************************************************************)
EXTENDS WorkspaceCleanup, TLC

MCSymmetry ==
    Permutations(Sessions) \cup Permutations(Managers) \cup Permutations(Databases)
        \cup Permutations(Connects)
=============================================================================
