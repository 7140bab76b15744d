--------------------------- MODULE RuntimeRegistry ---------------------------
(***************************************************************************)
(* The registry of shared connection runtimes in ServerState: which        *)
(* session is bound to which ConnectionRuntime, how many sessions hold     *)
(* each runtime, and which runtime the server knows for a database.        *)
(*                                                                         *)
(* Binding and leaving are synchronous functions of the event loop, so     *)
(* each of them is one step here.  SessionRuntime adds the tool calls,     *)
(* locks, background tasks and evictions that interleave around them.      *)
(***************************************************************************)
EXTENDS Integers, FiniteSets

CONSTANTS
    Sessions,     (* SessionData objects                                    *)
    Runtimes,     (* ConnectionRuntime objects                              *)
    Databases,    (* connection fingerprints                                *)
    None          (* Python's None                                          *)

ASSUME RegistryAssumption ==
    /\ IsFiniteSet(Sessions)
    /\ None \notin Runtimes
    /\ None \notin Databases

VARIABLES
    runtimeOf,    (* SessionData.runtime                                    *)
    holders,      (* ConnectionRuntime.holders                              *)
    database,     (* ConnectionRuntime.connection_id; None: not made yet    *)
    registry      (* ServerState._runtimes                                  *)

registryVars == <<runtimeOf, holders, database, registry>>

Tables == [runtimeOf : [Sessions -> Runtimes \cup {None}],
           holders : [Runtimes -> Nat],
           database : [Runtimes -> Databases \cup {None}],
           registry : [Databases -> Runtimes \cup {None}]]

Now == [runtimeOf |-> runtimeOf, holders |-> holders,
        database |-> database, registry |-> registry]

Become(t) ==
    /\ runtimeOf' = t.runtimeOf
    /\ holders' = t.holders
    /\ database' = t.database
    /\ registry' = t.registry

RegistryInit ==
    /\ runtimeOf = [s \in Sessions |-> None]
    /\ holders = [r \in Runtimes |-> 0]
    /\ database = [r \in Runtimes |-> None]
    /\ registry = [d \in Databases |-> None]

-----------------------------------------------------------------------------
LastHolder(t, s) == t.runtimeOf[s] # None /\ t.holders[t.runtimeOf[s]] - 1 <= 0

(* Mutant: the registry keeps a runtime its last holder has left.          *)
DetachedKept(t, s) ==
    IF t.runtimeOf[s] = None
    THEN t
    ELSE [t EXCEPT !.runtimeOf[s] = None,
                   !.holders[t.runtimeOf[s]] = @ - 1]

(* unbind_session: the runtime is dropped with its last holder.            *)
Detached(t, s) ==
    IF t.runtimeOf[s] = None
    THEN t
    ELSE LET r == t.runtimeOf[s]
         IN  [runtimeOf |-> [t.runtimeOf EXCEPT ![s] = None],
              holders |-> [t.holders EXCEPT ![r] = @ - 1],
              database |-> t.database,
              registry |-> IF LastHolder(t, s)
                           THEN [t.registry EXCEPT ![t.database[r]] = None]
                           ELSE t.registry]

OnDatabase(t, s, d) == t.runtimeOf[s] # None /\ t.database[t.runtimeOf[s]] = d

(* Whether r is the runtime bind_session gives a newcomer to d: the one it *)
(* knows for d, or a new one.                                              *)
RuntimeFor(t, d, r) ==
    IF t.registry[d] = None THEN t.database[r] = None ELSE r = t.registry[d]

Joined(t, s, d, r) ==
    [runtimeOf |-> [t.runtimeOf EXCEPT ![s] = r],
     holders |-> [t.holders EXCEPT ![r] = @ + 1],
     database |-> [t.database EXCEPT ![r] = d],
     registry |-> [t.registry EXCEPT ![d] = r]]

(* Mutant: a session that reconnects to its database is counted again.     *)
BoundAgain(t, s, d, r) ==
    IF OnDatabase(t, s, d) THEN Joined(t, s, d, r) ELSE Joined(Detached(t, s), s, d, r)

(* bind_session: a session already on the database stays in its runtime.   *)
Bound(t, s, d, r) ==
    IF OnDatabase(t, s, d) THEN t ELSE Joined(Detached(t, s), s, d, r)

Bind(s, d) ==
    \E r \in Runtimes :
        /\ OnDatabase(Now, s, d) \/ RuntimeFor(Detached(Now, s), d, r)
        /\ Become(Bound(Now, s, d, r))

Unbind(s) == Become(Detached(Now, s))

(* A session that changes database leaves and is bound in one step.        *)
Rebind(s, d) ==
    \E r \in Runtimes :
        /\ RuntimeFor(Detached(Now, s), d, r)
        /\ Become(Bound(Detached(Now, s), s, d, r))

RegistryNext ==
    \E s \in Sessions :
        \/ \E d \in Databases : Bind(s, d) \/ Rebind(s, d)
        \/ Unbind(s)

RegistrySpec == RegistryInit /\ [][RegistryNext]_registryVars

-----------------------------------------------------------------------------
(* Properties.                                                             *)

RegistryTypeOK == Now \in Tables

Counted(t) ==
    \A r \in Runtimes :
        t.holders[r] = Cardinality({s \in Sessions : t.runtimeOf[s] = r})

Indexed(t) ==
    \A d \in Databases, r \in Runtimes :
        t.registry[d] = r <=> (t.database[r] = d /\ t.holders[r] > 0)

(* The count that decides when a database is disconnected is the number of *)
(* sessions bound to the runtime, however often they connect, change       *)
(* database, are evicted or are bound after their eviction; and a database *)
(* has one runtime at most, which the registry knows exactly as long as    *)
(* somebody holds it: no session is left on a runtime that new sessions of *)
(* its database cannot find, and none is found empty.                      *)
RegistryExact == Counted(Now) /\ Indexed(Now)
=============================================================================
