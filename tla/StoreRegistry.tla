---------------------------- MODULE StoreRegistry ----------------------------
(***************************************************************************)
(* The registry of shared Oxigraph stores in ServerState: which store      *)
(* manager is open on a directory, how many holds it counts, which         *)
(* directories may not be opened because they are being removed, and which *)
(* manager each session refers to.                                         *)
(*                                                                         *)
(* Every operation is a synchronous function of the event loop, so each is *)
(* one step.  WorkspaceCleanup adds the calls that perform them.           *)
(***************************************************************************)
EXTENDS Integers, FiniteSets

CONSTANTS
    Sessions,     (* SessionData objects                                    *)
    Managers,     (* OxigraphStoreManager objects                           *)
    Dirs,         (* store directories                                      *)
    None          (* Python's None                                          *)

ASSUME StoreAssumption ==
    /\ IsFiniteSet(Sessions)
    /\ None \notin Managers
    /\ None \notin Dirs

VARIABLES
    live,         (* the sessions in ServerState._sessions                  *)
    storeOf,      (* SessionData.oxigraph_store                             *)
    handleOf,     (* ServerState._stores: the manager registered for a path *)
    refs,         (* _StoreHandle.refcount; 0: no handle                    *)
    removing,     (* ServerState._removing_stores                           *)
    dirOf,        (* OxigraphStoreManager.store_path; None: not made yet    *)
    closed        (* the managers that were closed                          *)

storeVars == <<live, storeOf, handleOf, refs, removing, dirOf, closed>>

StoreInit ==
    /\ live = Sessions
    /\ storeOf = [s \in Sessions |-> None]
    /\ handleOf = [d \in Dirs |-> None]
    /\ refs = [d \in Dirs |-> 0]
    /\ removing = [d \in Dirs |-> 0]
    /\ dirOf = [m \in Managers |-> None]
    /\ closed = {}

-----------------------------------------------------------------------------
(* acquire_oxigraph_store for a session without a store: the manager open  *)
(* on d is shared, or a new one is opened; a directory that is being       *)
(* removed is refused.                                                     *)
Opens(s, d) ==
    /\ storeOf[s] = None
    /\ \E m \in Managers :
        /\ IF handleOf[d] = None THEN dirOf[m] = None ELSE m = handleOf[d]
        /\ storeOf' = [storeOf EXCEPT ![s] = m]
        /\ handleOf' = [handleOf EXCEPT ![d] = m]
        /\ dirOf' = [dirOf EXCEPT ![m] = d]
    /\ refs' = [refs EXCEPT ![d] = @ + 1]
    /\ UNCHANGED <<removing, closed>>

(* Mutant: a directory that is being removed is opened all the same.       *)
AcquireAnyway(s, d) == Opens(s, d)

Acquire(s, d) == removing[d] = 0 /\ Opens(s, d)

Registered(m) == {d \in Dirs : handleOf[d] = m}

(* The directories whose last hold goes when m is released.                *)
LastHeld(m) == {d \in Registered(m) : refs[d] - 1 <= 0}

(* release_oxigraph_store: one hold less; the last one closes the store. A *)
(* manager the registry does not know is closed outright.                  *)
ReleaseManager(m) ==
    /\ refs' = [d \in Dirs |-> IF d \in Registered(m) THEN refs[d] - 1 ELSE refs[d]]
    /\ handleOf' = [d \in Dirs |-> IF d \in LastHeld(m) THEN None ELSE handleOf[d]]
    /\ closed' = IF Registered(m) = {} \/ LastHeld(m) # {} THEN closed \cup {m}
                 ELSE closed
    /\ UNCHANGED <<removing, dirOf>>

(* What leaving a connection does with the session's store, if it has one. *)
LetGo(s) ==
    IF storeOf[s] = None
    THEN UNCHANGED <<handleOf, refs, removing, dirOf, closed>>
    ELSE ReleaseManager(storeOf[s])

(* A session that lives on forgets the store it let go of; one that is     *)
(* dropped keeps the reference.                                            *)
LeaveStore(s) ==
    /\ LetGo(s)
    /\ storeOf' = [storeOf EXCEPT ![s] = None]
    /\ live' = live

DropSession(s) ==
    /\ s \in live
    /\ LetGo(s)
    /\ live' = live \ {s}
    /\ storeOf' = storeOf

(* Mutants: the store is taken off the registry but stays open; only one   *)
(* of the sessions that share it is told.                                  *)
StartRemovingOpen(d) ==
    /\ storeOf' = [s \in Sessions |->
                    IF s \in live /\ storeOf[s] = handleOf[d] THEN None ELSE storeOf[s]]
    /\ handleOf' = [handleOf EXCEPT ![d] = None]
    /\ refs' = [refs EXCEPT ![d] = 0]
    /\ removing' = [removing EXCEPT ![d] = @ + 1]
    /\ UNCHANGED <<live, dirOf, closed>>

StartRemovingUntold(d) ==
    /\ closed' = IF handleOf[d] = None THEN closed ELSE closed \cup {handleOf[d]}
    /\ handleOf' = [handleOf EXCEPT ![d] = None]
    /\ refs' = [refs EXCEPT ![d] = 0]
    /\ removing' = [removing EXCEPT ![d] = @ + 1]
    /\ UNCHANGED <<live, storeOf, dirOf>>

(* removing_oxigraph_store, entered: the store is discarded -- closed and  *)
(* taken from every live session -- and its directory refused from now on. *)
StartRemoving(d) ==
    /\ closed' = IF handleOf[d] = None THEN closed ELSE closed \cup {handleOf[d]}
    /\ storeOf' = [s \in Sessions |->
                    IF s \in live /\ storeOf[s] = handleOf[d] THEN None ELSE storeOf[s]]
    /\ handleOf' = [handleOf EXCEPT ![d] = None]
    /\ refs' = [refs EXCEPT ![d] = 0]
    /\ removing' = [removing EXCEPT ![d] = @ + 1]
    /\ UNCHANGED <<live, dirOf>>

(* The block is left: the directory can be opened after its last removal.  *)
EndRemoving(d) ==
    /\ removing[d] > 0
    /\ removing' = [removing EXCEPT ![d] = @ - 1]
    /\ UNCHANGED <<live, storeOf, handleOf, refs, dirOf, closed>>

(* cleanup_workspace drops the session's reference without releasing it.   *)
ForgetStore(s) ==
    /\ storeOf' = [storeOf EXCEPT ![s] = None]
    /\ UNCHANGED <<live, handleOf, refs, removing, dirOf, closed>>

StoreNext ==
    \/ \E s \in Sessions :
        \/ \E d \in Dirs : Acquire(s, d) /\ live' = live
        \/ LeaveStore(s)
        \/ DropSession(s)
        \/ ForgetStore(s)
    \/ \E d \in Dirs : StartRemoving(d) \/ EndRemoving(d)

StoreSpec == StoreInit /\ [][StoreNext]_storeVars

-----------------------------------------------------------------------------
(* Properties.                                                             *)

StoreTypeOK ==
    /\ live \in SUBSET Sessions
    /\ storeOf \in [Sessions -> Managers \cup {None}]
    /\ handleOf \in [Dirs -> Managers \cup {None}]
    /\ refs \in [Dirs -> Nat]
    /\ removing \in [Dirs -> Nat]
    /\ dirOf \in [Managers -> Dirs \cup {None}]
    /\ closed \in SUBSET Managers

(* "RocksDB allows exactly one open handle per directory -- even inside    *)
(* one process" (the docstring of ServerState): whoever opens, leaves, is  *)
(* dropped or cleans up, the manager registered for a directory is the one *)
(* that is open on it, and no other is.                                    *)
OneOpenHandle ==
    \A d \in Dirs, m \in Managers :
        (dirOf[m] = d /\ m \notin closed) <=> handleOf[d] = m

(* While any removal of a directory is under way, however many overlap,    *)
(* nothing is open on it and nothing it holds can be written.              *)
ClosedWhileRemoved ==
    \A d \in Dirs, m \in Managers :
        (removing[d] > 0 /\ dirOf[m] = d) => m \in closed

(* Of the two, at any moment: one open handle, and none under a removal.   *)
HandlesExclusive == OneOpenHandle /\ ClosedWhileRemoved

(* A count of holds is kept exactly for the stores that are registered.    *)
CountedIffOpen == \A d \in Dirs : refs[d] > 0 <=> handleOf[d] # None

(* No live session refers to a store that was closed.                      *)
NoneClosed == \A s \in live : storeOf[s] # None => storeOf[s] \notin closed
=============================================================================
