-------------------------- MODULE SerialConnection --------------------------
(***************************************************************************)
(* What one database connection promises the calls that use it: they run   *)
(* one at a time, each of them at most once, and the engine is closed only *)
(* between two calls, never under one.  Who waits, in which order, who is  *)
(* refused and who gives up is left to the implementation (QueryLine).     *)
(***************************************************************************)

CONSTANTS
    Calls,     (* the calls made on the connection                          *)
    Nobody     (* not a call: the connection is idle                        *)

VARIABLES
    user,      (* the call inside the database, or Nobody                   *)
    served,    (* the calls whose database work has ended                   *)
    open       (* whether the engine has not been closed                    *)

vars == <<user, served, open>>

Init ==
    /\ user = Nobody
    /\ served = {}
    /\ open = TRUE

(* A call enters the idle connection.  A closed engine still lets it in:   *)
(* the call then fails inside, which is the driver's business.             *)
Enter(c) ==
    /\ user = Nobody
    /\ c \notin served
    /\ user' = c
    /\ UNCHANGED <<served, open>>

Leave(c) ==
    /\ user = c
    /\ user' = Nobody
    /\ served' = served \cup {c}
    /\ open' = open

Close ==
    /\ user = Nobody
    /\ open' = FALSE
    /\ UNCHANGED <<user, served>>

Next ==
    \/ \E c \in Calls : Enter(c) \/ Leave(c)
    \/ Close

Spec == Init /\ [][Next]_vars
=============================================================================
