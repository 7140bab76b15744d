-------------------------- MODULE WorkspaceCleanup --------------------------
(***************************************************************************)
(* cleanup_workspace among the calls it races: the question to the user,   *)
(* the wait for the session's binding lock and the connection's writer     *)
(* lock, the removal task that outlives a cancelled request, and, in the   *)
(* meantime, sessions that open the shared RDF store, connect elsewhere    *)
(* and are evicted.                                                        *)
(*                                                                         *)
(* What the cleanup does to the schema cache, the ontologies and GraphRAG  *)
(* is left out: the state here is the RDF store and the directory.  The    *)
(* writer lock is a wait of any length; who else is inside it is the       *)
(* subject of SessionRuntime.  A session nobody has used stands for one    *)
(* that is made later.                                                     *)
(***************************************************************************)
EXTENDS StoreRegistry

CONSTANTS
    Databases,    (* connection fingerprints                                *)
    Legacy,       (* the store directory of a session that is on no database*)
    Connects,     (* calls of connect_database                              *)
    Cleanups,     (* calls of cleanup_workspace                             *)
    Capable       (* those whose client can be asked to confirm             *)

Calls == Connects \cup Cleanups

ASSUME CleanupAssumption ==
    /\ IsFiniteSet(Cleanups)
    /\ Dirs = Databases \cup {Legacy}
    /\ Legacy \notin Databases
    /\ Connects \cap Cleanups = {}
    /\ Capable \subseteq Cleanups
    /\ None \notin Sessions \cup Calls

VARIABLES
    connection,   (* SessionData.connection_id                              *)
    binding,      (* the call that holds SessionData.binding_lock           *)
    pc,           (* where each call is                                     *)
    at,           (* the session a call works on                            *)
    goal,         (* connect: the database to connect to; cleanup: the      *)
                  (* connection the call was approved for, if any           *)
    said,         (* the connection the user agreed to clean up             *)
    removal,      (* the removal task of a cleanup                          *)
    target,       (* the connection it deletes                              *)
    closing,      (* the session whose background tasks the evictor awaits  *)
    overtaken     (* a session was evicted with a call of its in flight     *)

callVars == <<pc, at, goal, said>>
removalVars == <<removal, target>>
evictVars == <<closing, overtaken>>

vars == <<storeVars, connection, binding, callVars, removalVars, evictVars>>

Points == {"new", "binding", "connecting", "clearing", "bound",
           "asking", "queued", "locked", "deleting", "done"}

InFlight(c) == pc[c] \notin {"new", "done"}

Init ==
    /\ StoreInit
    /\ connection = [s \in Sessions |-> None]
    /\ binding = [s \in Sessions |-> None]
    /\ pc = [c \in Calls |-> "new"]
    /\ at = [c \in Calls |-> None]
    /\ goal = [c \in Calls |-> None]
    /\ said = [c \in Calls |-> None]
    /\ removal = [c \in Calls |-> "none"]
    /\ target = [c \in Calls |-> None]
    /\ closing = None
    /\ overtaken = FALSE

-----------------------------------------------------------------------------
(* get_oxigraph_store, in whatever tool reads or writes RDF.               *)
StoreDir(s) == IF connection[s] = None THEN Legacy ELSE connection[s]

OpenStore(s) ==
    /\ s \in live
    /\ Acquire(s, StoreDir(s))
    /\ UNCHANGED <<live, connection, binding, callVars, removalVars, evictVars>>

-----------------------------------------------------------------------------
(* What calls have in common.                                              *)

Unused(s) ==
    /\ s \in live
    /\ connection[s] = None
    /\ storeOf[s] = None
    /\ binding[s] = None
    /\ \A e \in Calls : at[e] # s

(* A call resolves its session by name again: one that was evicted is made *)
(* anew, or, if it was named by a handle, refused (Refused below).         *)
Settles(c, s) == IF at[c] \in live THEN s = at[c] ELSE Unused(s)

Answer(c) ==
    /\ pc' = [pc EXCEPT ![c] = "done"]
    /\ at' = [at EXCEPT ![c] = None]
    /\ goal' = [goal EXCEPT ![c] = None]
    /\ binding' = [s \in Sessions |-> IF binding[s] = c THEN None ELSE binding[s]]

Refused(c) ==
    /\ pc[c] \in {"connecting", "asking", "locked"}
    /\ at[c] \notin live
    /\ Answer(c)
    /\ UNCHANGED <<storeVars, connection, said, removalVars, evictVars>>

TakeBinding(c, point) ==
    /\ binding[at[c]] = None
    /\ binding' = [binding EXCEPT ![at[c]] = c]
    /\ pc' = [pc EXCEPT ![c] = point]
    /\ UNCHANGED <<storeVars, connection, at, goal, said, removalVars, evictVars>>

-----------------------------------------------------------------------------
(* connect_database.                                                       *)

StartConnect(c, s, d) ==
    /\ pc[c] = "new"
    /\ s \in live
    /\ pc' = [pc EXCEPT ![c] = "binding"]
    /\ at' = [at EXCEPT ![c] = s]
    /\ goal' = [goal EXCEPT ![c] = d]
    /\ UNCHANGED <<storeVars, connection, binding, said, removalVars, evictVars>>

ConnectBegins(c) == pc[c] = "binding" /\ TakeBinding(c, "connecting")

ConnectFails(c) ==
    /\ pc[c] = "connecting"
    /\ Answer(c)
    /\ UNCHANGED <<storeVars, connection, said, removalVars, evictVars>>

Moves(s, d) == connection[s] # None /\ connection[s] # d

(* The session leaves its old connection, if it must, and is bound.        *)
BindTo(c, s, clear) ==
    /\ IF clear THEN LeaveStore(s) ELSE UNCHANGED storeVars
    /\ connection' = [connection EXCEPT ![s] = goal[c]]
    /\ pc' = [pc EXCEPT ![c] = "bound"]
    /\ UNCHANGED <<binding, goal, said, removalVars, evictVars>>

(* A session that moves waits for its background tasks, if it has any.     *)
ConnectSucceeds(c) ==
    /\ pc[c] = "connecting"
    /\ \E s \in Sessions :
        /\ Settles(c, s)
        /\ at' = [at EXCEPT ![c] = s]
        /\ \/ BindTo(c, s, Moves(s, goal[c]))
           \/ /\ Moves(s, goal[c])
              /\ pc' = [pc EXCEPT ![c] = "clearing"]
              /\ UNCHANGED <<storeVars, connection, binding, goal, said, removalVars,
                             evictVars>>

ClearedThenBound(c) ==
    /\ pc[c] = "clearing"
    /\ BindTo(c, at[c], TRUE)
    /\ at' = at

(* The workspace is restored, which may open the store (OpenStore).        *)
ConnectEnds(c) ==
    /\ pc[c] = "bound"
    /\ Answer(c)
    /\ UNCHANGED <<storeVars, connection, said, removalVars, evictVars>>

-----------------------------------------------------------------------------
(* cleanup_workspace.                                                      *)

(* confirm_cleanup: a session that is on no database is asked nothing, and *)
(* neither is a client that cannot answer.                                 *)
Confirm(c, s) ==
    /\ pc[c] = "new"
    /\ s \in live
    /\ at' = [at EXCEPT ![c] = s]
    /\ goal' = [goal EXCEPT ![c] = connection[s]]
    /\ pc' = [pc EXCEPT ![c] =
                IF connection[s] # None /\ c \in Capable THEN "asking" ELSE "queued"]
    /\ UNCHANGED <<storeVars, connection, binding, said, removalVars, evictVars>>

(* The user agrees, while the session is where the question found it.      *)
Agreed(c) ==
    /\ pc[c] = "asking"
    /\ at[c] \in live
    /\ connection[at[c]] = goal[c]
    /\ said' = [said EXCEPT ![c] = goal[c]]
    /\ pc' = [pc EXCEPT ![c] = "queued"]
    /\ UNCHANGED <<storeVars, connection, binding, at, goal, removalVars, evictVars>>

(* The user declines, or the session has moved.                            *)
Declined(c) ==
    /\ pc[c] = "asking"
    /\ Answer(c)
    /\ UNCHANGED <<storeVars, connection, said, removalVars, evictVars>>

(* The answer arrives as a second request, on a session made anew: there   *)
(* is nothing to ask about.                                                *)
AskedAgain(c, s) ==
    /\ pc[c] = "asking"
    /\ at[c] \notin live
    /\ Unused(s)
    /\ at' = [at EXCEPT ![c] = s]
    /\ goal' = [goal EXCEPT ![c] = None]
    /\ pc' = [pc EXCEPT ![c] = "queued"]
    /\ UNCHANGED <<storeVars, connection, binding, said, removalVars, evictVars>>

CleanupBegins(c) == pc[c] = "queued" /\ TakeBinding(c, "locked")

(* approval_still_valid and the checks of cleanup_workspace.               *)
StillValid(c) ==
    /\ at[c] \in live
    /\ connection[at[c]] # None
    /\ goal[c] # None => connection[at[c]] = goal[c]

NothingDeleted(c) ==
    /\ pc[c] = "locked"
    /\ ~StillValid(c)
    /\ Answer(c)
    /\ UNCHANGED <<storeVars, connection, said, removalVars, evictVars>>

(* Mutant: the approval is not checked again behind the lock.              *)
StartRemovalUnchecked(c) ==
    /\ pc[c] = "locked"
    /\ at[c] \in live
    /\ connection[at[c]] # None
    /\ removal' = [removal EXCEPT ![c] = "created"]
    /\ target' = [target EXCEPT ![c] = connection[at[c]]]
    /\ pc' = [pc EXCEPT ![c] = "deleting"]
    /\ UNCHANGED <<storeVars, connection, binding, at, goal, said, evictVars>>

StartRemoval(c) ==
    /\ pc[c] = "locked"
    /\ StillValid(c)
    /\ removal' = [removal EXCEPT ![c] = "created"]
    /\ target' = [target EXCEPT ![c] = connection[at[c]]]
    /\ pc' = [pc EXCEPT ![c] = "deleting"]
    /\ UNCHANGED <<storeVars, connection, binding, at, goal, said, evictVars>>

(* Mutant: the store is discarded, but its directory is not refused.       *)
RemovalUnguarded(c) ==
    /\ removal[c] = "created"
    /\ LET m == handleOf[target[c]]
       IN  /\ closed' = IF m = None THEN closed ELSE closed \cup {m}
           /\ storeOf' = [s \in Sessions |->
                            IF s \in live /\ storeOf[s] = m THEN None ELSE storeOf[s]]
           /\ handleOf' = [handleOf EXCEPT ![target[c]] = None]
           /\ refs' = [refs EXCEPT ![target[c]] = 0]
    /\ removal' = [removal EXCEPT ![c] = "running"]
    /\ UNCHANGED <<live, removing, dirOf, connection, binding, callVars, target,
                   evictVars>>

(* The removal task's first step.                                          *)
RemovalBegins(c) ==
    /\ removal[c] = "created"
    /\ StartRemoving(target[c])
    /\ removal' = [removal EXCEPT ![c] = "running"]
    /\ UNCHANGED <<connection, binding, callVars, target, evictVars>>

(* The last worker has deleted its directory.                              *)
RemovalEnds(c) ==
    /\ removal[c] = "running"
    /\ EndRemoving(target[c])
    /\ removal' = [removal EXCEPT ![c] = "ended"]
    /\ UNCHANGED <<connection, binding, callVars, target, evictVars>>

(* The handler clears the session, if it is still on that connection.      *)
CleanupEnds(c) ==
    /\ pc[c] = "deleting"
    /\ removal[c] = "ended"
    /\ IF connection[at[c]] = target[c] THEN ForgetStore(at[c])
       ELSE UNCHANGED storeVars
    /\ Answer(c)
    /\ UNCHANGED <<connection, said, removalVars, evictVars>>

(* Mutant: the cancelled request takes its removal task along.             *)
CancelRemoval(c) ==
    /\ pc[c] = "deleting"
    /\ Answer(c)
    /\ removal' = [removal EXCEPT ![c] = "ended"]
    /\ UNCHANGED <<storeVars, connection, said, target, evictVars>>

(* The request is cancelled: the shielded removal goes on.                 *)
CancelCleanup(c) ==
    /\ pc[c] = "deleting"
    /\ Answer(c)
    /\ UNCHANGED <<storeVars, connection, said, removalVars, evictVars>>

-----------------------------------------------------------------------------
(* Eviction.                                                               *)

Dropped(s) ==
    /\ DropSession(s)
    /\ overtaken' = (overtaken \/ \E c \in Calls : InFlight(c) /\ at[c] = s)
    /\ UNCHANGED <<connection, binding, callVars, removalVars>>

EvictNow(s) == closing = None /\ Dropped(s) /\ closing' = closing

EvictWaits(s) ==
    /\ closing = None
    /\ s \in live
    /\ closing' = s
    /\ UNCHANGED <<storeVars, connection, binding, callVars, removalVars, overtaken>>

EvictEnds ==
    /\ closing # None
    /\ Dropped(closing)
    /\ closing' = None

-----------------------------------------------------------------------------
ConnectNext(c) ==
    \/ \E s \in Sessions, d \in Databases : StartConnect(c, s, d)
    \/ ConnectBegins(c)
    \/ ConnectFails(c)
    \/ ConnectSucceeds(c)
    \/ ClearedThenBound(c)
    \/ ConnectEnds(c)
    \/ Refused(c)

CleanupNext(c) ==
    \/ \E s \in Sessions : Confirm(c, s) \/ AskedAgain(c, s)
    \/ Agreed(c)
    \/ Declined(c)
    \/ CleanupBegins(c)
    \/ NothingDeleted(c)
    \/ StartRemoval(c)
    \/ RemovalBegins(c)
    \/ RemovalEnds(c)
    \/ CleanupEnds(c)
    \/ CancelCleanup(c)
    \/ Refused(c)

EvictorNext == EvictEnds \/ \E s \in Sessions : EvictNow(s) \/ EvictWaits(s)

AllAnswered ==
    /\ \A c \in Calls : ~InFlight(c) /\ removal[c] \in {"none", "ended"}
    /\ UNCHANGED vars

Next ==
    \/ \E s \in Sessions : OpenStore(s)
    \/ \E c \in Connects : ConnectNext(c)
    \/ \E c \in Cleanups : CleanupNext(c)
    \/ EvictorNext
    \/ AllAnswered

Spec == Init /\ [][Next]_vars

-----------------------------------------------------------------------------
(* Properties.                                                             *)

TypeOK ==
    /\ StoreTypeOK
    /\ connection \in [Sessions -> Databases \cup {None}]
    /\ binding \in [Sessions -> Calls \cup {None}]
    /\ pc \in [Calls -> Points]
    /\ at \in [Calls -> Sessions \cup {None}]
    /\ goal \in [Calls -> Databases \cup {None}]
    /\ said \in [Calls -> Databases \cup {None}]
    /\ removal \in [Calls -> {"none", "created", "running", "ended"}]
    /\ target \in [Calls -> Databases \cup {None}]
    /\ closing \in Sessions \cup {None}
    /\ overtaken \in BOOLEAN

(* A directory is refused exactly as long as somebody removes it: requests *)
(* that are cancelled, and cleanups that begin meanwhile, neither open it  *)
(* under a worker that still deletes it nor leave it refused for good.     *)
GuardsOwned ==
    \A d \in Dirs :
        removing[d] = Cardinality({c \in Cleanups : removal[c] = "running" /\ target[c] = d})

(* A session never finds the store it refers to closed under it: it closes *)
(* with its last holder, or is taken from all of them first.  (Unless the  *)
(* evictor drops a session with a call in flight: that call may release    *)
(* the session's hold a second time.)                                      *)
SharersKeepStore == ~overtaken => NoneClosed

(* A yes is spent on the connection the question named, or on none,        *)
(* wherever the session connects while the question is on the screen or    *)
(* the call waits for its locks.                                           *)
YesSpentWhereGiven ==
    \A c \in Cleanups : (removal[c] # "none" /\ said[c] # None) => target[c] = said[c]

(* "A client that supports elicitation is asked to confirm first; if the   *)
(* user declines, nothing is deleted" (the docstring of                    *)
(* cleanup_workspace).                                                     *)
DeletesOnlyConfirmed ==
    \A c \in Capable : removal[c] # "none" => said[c] = target[c]

(* "Get the connection-scoped Oxigraph store for the session"              *)
(* (get_oxigraph_store): a connected session uses its connection's store.  *)
StoreOfItsConnection ==
    \A s \in live :
        (connection[s] # None /\ storeOf[s] # None)
            => dirOf[storeOf[s]] = connection[s]

(* "Number of sessions currently sharing the store"                        *)
(* (oxigraph_store_refcount).                                              *)
RefsAreSessions ==
    \A d \in Dirs :
        refs[d] = Cardinality({s \in live : storeOf[s] # None /\ storeOf[s] = handleOf[d]})

(* No session at all finds its store closed: the same without the proviso. *)
StoresStayOpen == NoneClosed

(* Whatever the calls and the evictor do in between, a step performs one   *)
(* operation of the store registry, or leaves it alone.                    *)
StoresKept == StoreSpec
=============================================================================
