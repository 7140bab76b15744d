--------------------------- MODULE SessionRuntime ---------------------------
(***************************************************************************)
(* Tool calls on sessions that share connection runtimes: connect_database *)
(* (which binds a session), the tools that publish into the runtime under  *)
(* its writer lock (discover_schema stands for them), the GraphRAG task a  *)
(* discovery leaves behind, and the eviction of idle sessions.             *)
(*                                                                         *)
(* The event loop runs one step at a time; a step ends at an await.  Calls *)
(* resolve their session by name again after an await, as get_session_data *)
(* does.  Runtimes and database managers are named by the call that makes  *)
(* them, sessions by the order in which they are made.                     *)
(***************************************************************************)
EXTENDS RuntimeRegistry

CONSTANTS
    Keys,           (* names of sessions: MCP transport sessions, handles   *)
    HandleKeys,     (* the names that are connection handles                *)
    Calls,          (* tool calls                                           *)
    MaxSessions,    (* bound: session objects ever made                     *)
    MaxScans        (* bound: scans of the eviction loop                    *)

ASSUME SessionAssumption ==
    /\ HandleKeys \subseteq Keys
    /\ MaxSessions \in Nat
    /\ Sessions = 1..MaxSessions
    /\ Runtimes = Calls
    /\ None \notin Sessions \cup Keys
    /\ MaxScans \in Nat

VARIABLES
    born,           (* how many session objects were made                   *)
    live,           (* ServerState._sessions                                *)
    spent,          (* handles minted so far                                *)
    idle,           (* last_activity is beyond the idle timeout             *)
    linked,         (* SessionData.connection_id                            *)
    stateOf,        (* whose cache and graphrag the session refers to       *)
    own,            (* SessionData.connection.db_manager                    *)
    binding,        (* the call that holds SessionData.binding_lock         *)
    managerOf,      (* ConnectionRuntime.db_manager                         *)
    writer,         (* the call that holds ConnectionRuntime.lock           *)
    cache,          (* databases whose schema the runtime's cache describes *)
    index,          (* databases whose schema the runtime's GraphRAG indexes*)
    engine,         (* the database a manager is connected to               *)
    pc,             (* where each call is                                   *)
    call,           (* what each call holds in its local variables          *)
    job,            (* the background task the call left behind             *)
    evicting,       (* what is left of the scan's list of idle sessions     *)
    victim,         (* the name whose background tasks the evictor awaits   *)
    due,            (* the tasks it awaits                                  *)
    scans,          (* how many scans were made                             *)
    overtaken       (* a session was released with a call of its in flight  *)

sessionVars == <<born, live, spent, idle>>
objectVars == <<linked, stateOf, own, managerOf, cache, index>>
evictVars == <<evicting, victim, due, scans, overtaken>>

lockVars == <<binding, writer>>

vars == <<registryVars, sessionVars, objectVars, lockVars, evictVars,
          engine, pc, call, job>>

(* A call's locals: the name it came with, the database to connect to      *)
(* (None: a publishing tool), the session whose binding lock it takes, the *)
(* session the handler works on, the runtime whose writer lock it takes,   *)
(* the manager it uses, the runtime it pinned, the database its results    *)
(* describe, and the background tasks it waits for.                        *)
Locals == [key : Keys \cup {None},
           target : Databases \cup {None},
           sess : Sessions \cup {None},
           at : Sessions \cup {None},
           lock : Runtimes \cup {None},
           manager : Calls \cup {None},
           pin : Runtimes \cup {None},
           data : Databases \cup {None},
           awaited : SUBSET Calls]

NoLocals == [key |-> None, target |-> None, sess |-> None, at |-> None, lock |-> None,
             manager |-> None, pin |-> None, data |-> None, awaited |-> {}]

(* What a background task was started with.                                *)
Jobs == [status : {"none", "running", "cancelled", "ended"},
         at : Sessions \cup {None},
         pin : Runtimes \cup {None},
         data : Databases \cup {None}]

NoJob == [status |-> "none", at |-> None, pin |-> None, data |-> None]

Ended == [NoJob EXCEPT !.status = "ended"]

Points == {"new", "binding", "connecting", "clearing", "bound", "waiting",
           "reading", "read", "published", "restoring", "done"}

InFlight(c) == pc[c] \notin {"new", "done"}

(* The init tasks of a runtime's GraphRAG state that are not done.         *)
InitTasks(r) ==
    {c \in Calls : job[c].pin = r /\ job[c].status \in {"running", "cancelled"}}

CancelAll(tasks) ==
    [c \in Calls |-> IF c \in tasks THEN [job[c] EXCEPT !.status = "cancelled"]
                     ELSE job[c]]

Init ==
    /\ RegistryInit
    /\ born = 0
    /\ live = [k \in Keys |-> None]
    /\ spent = {}
    /\ idle = [s \in Sessions |-> FALSE]
    /\ linked = [s \in Sessions |-> None]
    /\ stateOf = [s \in Sessions |-> None]
    /\ own = [s \in Sessions |-> None]
    /\ binding = [s \in Sessions |-> None]
    /\ managerOf = [r \in Runtimes |-> None]
    /\ writer = [r \in Runtimes |-> None]
    /\ cache = [r \in Runtimes |-> {}]
    /\ index = [r \in Runtimes |-> {}]
    /\ engine = [c \in Calls |-> None]
    /\ pc = [c \in Calls |-> "new"]
    /\ call = [c \in Calls |-> NoLocals]
    /\ job = [c \in Calls |-> NoJob]
    /\ evicting = {}
    /\ victim = None
    /\ due = {}
    /\ scans = 0
    /\ overtaken = FALSE

-----------------------------------------------------------------------------
(* Names and sessions.                                                     *)

(* get_session and session_for_handle: s is the live session named k, made *)
(* on the spot for a transport session; either way it is touched.          *)
Resolve(k, s) ==
    /\ \/ live[k] # None /\ s = live[k] /\ UNCHANGED <<born, live>>
       \/ /\ live[k] = None
          /\ k \notin HandleKeys
          /\ s = born + 1
          /\ s \in Sessions
          /\ born' = s
          /\ live' = [live EXCEPT ![k] = s]
    /\ idle' = [idle EXCEPT ![s] = FALSE]
    /\ spent' = spent

(* open_handle_session: connect_database mints the handle it came without. *)
Mint(k, s) ==
    /\ k \in HandleKeys \ spent
    /\ s = born + 1
    /\ s \in Sessions
    /\ born' = s
    /\ live' = [live EXCEPT ![k] = s]
    /\ idle' = [idle EXCEPT ![s] = FALSE]
    /\ spent' = spent \cup {k}

(* A handle that names no live session is refused, wherever it is resolved.*)
Unknown(k) == k \in HandleKeys /\ live[k] = None

-----------------------------------------------------------------------------
(* From the scan to the end of the list the evictor awaits nothing but     *)
(* background tasks: until it has to, no other step of the loop is taken.  *)
LoopFree == evicting = {} \/ victim # None

Ready(c, point) == LoopFree /\ pc[c] = point

-----------------------------------------------------------------------------
(* What every call begins and ends with.                                   *)

StartConnect(c, k, d) ==
    /\ Ready(c, "new")
    /\ \E s \in Sessions :
        /\ Resolve(k, s) \/ Mint(k, s)
        /\ call' = [call EXCEPT ![c].key = k, ![c].target = d, ![c].sess = s]
    /\ pc' = [pc EXCEPT ![c] = "binding"]
    /\ UNCHANGED <<registryVars, objectVars, lockVars, evictVars, engine, job>>

StartPublish(c, k) ==
    /\ Ready(c, "new")
    /\ \E s \in Sessions :
        /\ Resolve(k, s)
        /\ call' = [call EXCEPT ![c].key = k, ![c].sess = s]
    /\ pc' = [pc EXCEPT ![c] = "binding"]
    /\ UNCHANGED <<registryVars, objectVars, lockVars, evictVars, engine, job>>

RefuseAtTheDoor(c, k) ==
    /\ Ready(c, "new")
    /\ Unknown(k)
    /\ k \in spent
    /\ pc' = [pc EXCEPT ![c] = "done"]
    /\ UNCHANGED <<registryVars, sessionVars, objectVars, lockVars, evictVars,
                   engine, call, job>>

(* The call is answered: the locks it holds are released.                  *)
Answer(c) ==
    /\ pc' = [pc EXCEPT ![c] = "done"]
    /\ binding' = [s \in Sessions |-> IF binding[s] = c THEN None ELSE binding[s]]
    /\ writer' = [r \in Runtimes |-> IF writer[r] = c THEN None ELSE writer[r]]
    /\ call' = [call EXCEPT ![c] = NoLocals]

WriterFree(c) == call[c].lock # None => writer[call[c].lock] = None

(* The handler resolves its session again and the handle is gone.          *)
RefuseInside(c) ==
    /\ Unknown(call[c].key)
    /\ \/ /\ Ready(c, "binding")
          /\ call[c].target # None
          /\ binding[call[c].sess] = None
       \/ Ready(c, "connecting")
       \/ Ready(c, "waiting") /\ call[c].target = None /\ WriterFree(c)
    /\ Answer(c)
    /\ UNCHANGED <<registryVars, sessionVars, objectVars, evictVars, engine, job>>

-----------------------------------------------------------------------------
(* connect_database.                                                       *)

(* Mutant: a session that shares a runtime reconnects the shared manager.  *)
ConnectInPlace(c) ==
    /\ Ready(c, "binding")
    /\ call[c].target # None
    /\ binding[call[c].sess] = None
    /\ binding' = [binding EXCEPT ![call[c].sess] = c]
    /\ pc' = [pc EXCEPT ![c] = "connecting"]
    /\ \E s \in Sessions :
        /\ Resolve(call[c].key, s)
        /\ LET known == IF runtimeOf[s] = None THEN own[s] ELSE managerOf[runtimeOf[s]]
               m == IF known = None THEN c ELSE known
           IN  /\ call' = [call EXCEPT ![c].manager = m]
               /\ own' = IF runtimeOf[s] = None THEN [own EXCEPT ![s] = m] ELSE own
    /\ UNCHANGED <<registryVars, linked, stateOf, managerOf, cache, index, evictVars,
                   writer, engine, job>>

(* The binding lock is held; a session in a runtime connects with a fresh  *)
(* manager, any other with its own.                                        *)
ConnectBegins(c) ==
    /\ Ready(c, "binding")
    /\ call[c].target # None
    /\ binding[call[c].sess] = None
    /\ binding' = [binding EXCEPT ![call[c].sess] = c]
    /\ pc' = [pc EXCEPT ![c] = "connecting"]
    /\ \E s \in Sessions :
        /\ Resolve(call[c].key, s)
        /\ LET m == IF runtimeOf[s] = None /\ own[s] # None THEN own[s] ELSE c
           IN  /\ call' = [call EXCEPT ![c].manager = m]
               /\ own' = IF runtimeOf[s] = None THEN [own EXCEPT ![s] = m] ELSE own
    /\ UNCHANGED <<registryVars, linked, stateOf, managerOf, cache, index, evictVars,
                   writer, engine, job>>

ConnectFails(c) ==
    /\ Ready(c, "connecting")
    /\ \E s \in Sessions : Resolve(call[c].key, s)
    /\ Answer(c)
    /\ UNCHANGED <<registryVars, objectVars, evictVars, engine, job>>

(* cancel_init_tasks_of: tasks that others still wait for are left alone.  *)
Cancellable(s) ==
    IF runtimeOf[s] # None /\ holders[runtimeOf[s]] > 1
    THEN {}
    ELSE IF stateOf[s] = None THEN {} ELSE InitTasks(stateOf[s])

Changes(s, d) == linked[s] # None /\ linked[s] # d

(* The last holder that leaves takes the runtime's manager and cancels its *)
(* background tasks.                                                       *)
Abandoned(s) == IF LastHolder(Now, s) THEN {runtimeOf[s]} ELSE {}

ManagersLeft(s) ==
    [r \in Runtimes |-> IF r \in Abandoned(s) THEN None ELSE managerOf[r]]

TasksLeft(s) == CancelAll(UNION {InitTasks(r) : r \in Abandoned(s)})

(* bind_session's choice of manager: the newcomer's only when the runtime  *)
(* has none or has lost its connection.                                    *)
ManagerKept(current, fresh, healthy) ==
    IF current = None \/ ~healthy THEN fresh ELSE current

(* The runtime of the database, or a new one, named by the call.           *)
RuntimeChosen(t, c, d) == IF t.registry[d] = None THEN c ELSE t.registry[d]

(* Clearing a session that is in no runtime any more (it was evicted while *)
(* its call waited) empties in place what it still refers to.              *)
Emptied(table, s, clear) ==
    [r \in Runtimes |->
        IF clear /\ runtimeOf[s] = None /\ r = stateOf[s] THEN {} ELSE table[r]]

(* From the clearing of the old connection, if there is one, to the first  *)
(* await after the session is bound to the new one.                        *)
BindTo(c, s, d, clear) ==
    LET old == IF clear THEN Detached(Now, s) ELSE Now
        managers == IF clear THEN ManagersLeft(s) ELSE managerOf
    IN  /\ \E r \in Runtimes, healthy \in BOOLEAN :
            /\ r = IF OnDatabase(old, s, d) THEN old.runtimeOf[s]
                   ELSE RuntimeChosen(old, c, d)
            /\ Become(Bound(old, s, d, r))
            /\ stateOf' = [stateOf EXCEPT ![s] = r]
            /\ own' = [own EXCEPT ![s] = None]
            /\ managerOf' =
                [managers EXCEPT ![r] = ManagerKept(@, call[c].manager, healthy)]
            /\ cache' = [Emptied(cache, s, clear) EXCEPT
                            ![r] = IF holders'[r] > 1 THEN @ ELSE {}]
        /\ job' = IF clear THEN TasksLeft(s) ELSE job
        /\ linked' = [linked EXCEPT ![s] = d]
        /\ pc' = [pc EXCEPT ![c] = "bound"]
        /\ index' = Emptied(index, s, clear)

(* The worker has connected the manager.  A session that changes database  *)
(* first waits for the background tasks only it still needs.               *)
ConnectSucceeds(c) ==
    /\ Ready(c, "connecting")
    /\ engine' = [engine EXCEPT ![call[c].manager] = call[c].target]
    /\ \E s \in Sessions :
        /\ Resolve(call[c].key, s)
        /\ \/ /\ Changes(s, call[c].target)
              /\ Cancellable(s) # {}
              /\ call' = [call EXCEPT ![c].at = s, ![c].awaited = Cancellable(s)]
              /\ job' = CancelAll(Cancellable(s))
              /\ pc' = [pc EXCEPT ![c] = "clearing"]
              /\ UNCHANGED <<registryVars, objectVars>>
           \/ /\ Changes(s, call[c].target) => Cancellable(s) = {}
              /\ call' = [call EXCEPT ![c].at = s]
              /\ BindTo(c, s, call[c].target, Changes(s, call[c].target))
    /\ UNCHANGED <<lockVars, evictVars>>

ClearedThenBound(c) ==
    /\ Ready(c, "clearing")
    /\ \A b \in call[c].awaited : job[b].status = "ended"
    /\ BindTo(c, call[c].at, call[c].target, TRUE)
    /\ UNCHANGED <<sessionVars, lockVars, evictVars, engine, call>>

(* The restore takes the writer lock of the runtime the session is in by   *)
(* now; a session in none takes no lock.                                   *)
RestoreQueues(c) ==
    /\ Ready(c, "bound")
    /\ call' = [call EXCEPT ![c].lock = runtimeOf[call[c].at]]
    /\ pc' = [pc EXCEPT ![c] = "waiting"]
    /\ UNCHANGED <<registryVars, sessionVars, objectVars, lockVars, evictVars, engine,
                   job>>

(* The database has no workspace to restore.                               *)
NothingToRestore(c) ==
    /\ Ready(c, "bound")
    /\ Answer(c)
    /\ UNCHANGED <<registryVars, sessionVars, objectVars, evictVars, engine, job>>

TakeWriter(c) ==
    /\ WriterFree(c)
    /\ writer' = [r \in Runtimes |-> IF r = call[c].lock THEN c ELSE writer[r]]

RestoreBegins(c) ==
    /\ Ready(c, "waiting")
    /\ call[c].target # None
    /\ TakeWriter(c)
    /\ pc' = [pc EXCEPT ![c] = "restoring"]
    /\ UNCHANGED <<registryVars, sessionVars, objectVars, evictVars, binding, engine,
                   call, job>>

Landed(table, s, d) ==
    [r \in Runtimes |-> IF r = stateOf[s] THEN table[r] \cup {d} ELSE table[r]]

(* The workspace of the database connected to is read into the session.    *)
RestoreEnds(c) ==
    /\ Ready(c, "restoring")
    /\ cache' = Landed(cache, call[c].at, call[c].target)
    /\ Answer(c)
    /\ UNCHANGED <<registryVars, sessionVars, linked, stateOf, own, managerOf, index,
                   evictVars, engine, job>>

-----------------------------------------------------------------------------
(* A publishing tool.                                                      *)

(* Mutant: the writer lock is resolved before the binding is fixed.        *)
PublishUnbound(c) ==
    /\ Ready(c, "binding")
    /\ call[c].target = None
    /\ call' = [call EXCEPT ![c].lock = runtimeOf[call[c].sess]]
    /\ pc' = [pc EXCEPT ![c] = "waiting"]
    /\ UNCHANGED <<registryVars, sessionVars, objectVars, lockVars, evictVars, engine,
                   job>>

(* _writer_lock: the binding lock first, then the lock of the runtime the  *)
(* session is bound to.                                                    *)
PublishQueues(c) ==
    /\ Ready(c, "binding")
    /\ call[c].target = None
    /\ binding[call[c].sess] = None
    /\ binding' = [binding EXCEPT ![call[c].sess] = c]
    /\ call' = [call EXCEPT ![c].lock = runtimeOf[call[c].sess]]
    /\ pc' = [pc EXCEPT ![c] = "waiting"]
    /\ UNCHANGED <<registryVars, sessionVars, objectVars, writer, evictVars, engine,
                   job>>

(* The handler resolves its session, pins its connection and sends a       *)
(* worker to the database; a session that never connected is told so.      *)
PublishBegins(c) ==
    /\ Ready(c, "waiting")
    /\ call[c].target = None
    /\ \E s \in Sessions :
        /\ Resolve(call[c].key, s)
        /\ \/ /\ runtimeOf[s] = None
              /\ WriterFree(c)
              /\ Answer(c)
              /\ own' = [own EXCEPT ![s] = IF @ = None THEN c ELSE @]
           \/ /\ runtimeOf[s] # None
              /\ TakeWriter(c)
              /\ pc' = [pc EXCEPT ![c] = "reading"]
              /\ call' = [call EXCEPT ![c].at = s, ![c].pin = runtimeOf[s],
                                     ![c].manager = managerOf[runtimeOf[s]]]
              /\ UNCHANGED <<own, binding>>
    /\ UNCHANGED <<registryVars, linked, stateOf, managerOf, cache, index, evictVars,
                   engine, job>>

WorkerReads(c) ==
    /\ Ready(c, "reading")
    /\ call' = [call EXCEPT ![c].data = engine[call[c].manager]]
    /\ pc' = [pc EXCEPT ![c] = "read"]
    /\ UNCHANGED <<registryVars, sessionVars, objectVars, lockVars, evictVars, engine,
                   job>>

StillConnected(c) ==
    /\ linked[call[c].at] = database[call[c].pin]
    /\ runtimeOf[call[c].at] = call[c].pin

(* The session has left the connection: the results are thrown away.       *)
Discard(c) ==
    /\ Ready(c, "read")
    /\ ~StillConnected(c)
    /\ Answer(c)
    /\ UNCHANGED <<registryVars, sessionVars, objectVars, evictVars, engine, job>>

(* The results land in what the session refers to.                         *)
Publish(c) ==
    /\ Ready(c, "read")
    /\ StillConnected(c)
    /\ cache' = Landed(cache, call[c].at, call[c].data)
    /\ pc' = [pc EXCEPT ![c] = "published"]
    /\ UNCHANGED <<registryVars, sessionVars, linked, stateOf, own, managerOf, index,
                   lockVars, evictVars, engine, call, job>>

(* The version is recorded; a GraphRAG task that indexes the results may be*)
(* left behind, for the state the session refers to by now.                *)
PublishEnds(c) ==
    /\ Ready(c, "published")
    /\ \/ job' = job
       \/ job' = [job EXCEPT ![c] = [status |-> "running", at |-> call[c].at,
                                    pin |-> stateOf[call[c].at],
                                    data |-> call[c].data]]
    /\ Answer(c)
    /\ UNCHANGED <<registryVars, sessionVars, objectVars, evictVars, engine>>

(* Mutant: the task installs its index through the session.                *)
IndexThroughSession(c) ==
    /\ LoopFree
    /\ job[c].status = "running"
    /\ index' = Landed(index, job[c].at, job[c].data)
    /\ job' = [job EXCEPT ![c] = Ended]
    /\ UNCHANGED <<registryVars, sessionVars, linked, stateOf, own, managerOf, cache,
                   lockVars, evictVars, engine, pc, call>>

(* The task installs its index in the state it was started for.            *)
IndexInstalled(c) ==
    /\ LoopFree
    /\ job[c].status = "running"
    /\ index' = [index EXCEPT ![job[c].pin] = @ \cup {job[c].data}]
    /\ job' = [job EXCEPT ![c] = Ended]
    /\ UNCHANGED <<registryVars, sessionVars, linked, stateOf, own, managerOf, cache,
                   lockVars, evictVars, engine, pc, call>>

(* A cancelled task ends at its next suspension point.                     *)
TaskStops(c) ==
    /\ LoopFree
    /\ job[c].status = "cancelled"
    /\ job' = [job EXCEPT ![c] = Ended]
    /\ UNCHANGED <<registryVars, sessionVars, objectVars, lockVars, evictVars, engine,
                   pc, call>>

-----------------------------------------------------------------------------
(* Eviction.                                                               *)

(* The scan lists the sessions idle beyond the timeout.  Time is left out: *)
(* any live session may have become idle since it was last touched.        *)
Scan ==
    /\ evicting = {}
    /\ victim = None
    /\ scans < MaxScans
    /\ scans' = scans + 1
    /\ \E found \in SUBSET {k \in Keys : live[k] # None} :
        /\ found # {}
        /\ evicting' = found
        /\ idle' = [s \in Sessions |-> idle[s] \/ \E k \in found : live[k] = s]
    /\ UNCHANGED <<registryVars, born, live, spent, objectVars, lockVars, victim, due,
                   overtaken, engine, pc, call, job>>

(* Mutants: the evicted session is dropped without leaving its runtime, or *)
(* leaves it without being taken off the count.                            *)
ReleaseUncounted(k) ==
    LET s == live[k]
    IN  /\ runtimeOf' = [runtimeOf EXCEPT ![s] = None]
        /\ live' = [live EXCEPT ![k] = None]
        /\ overtaken' = (overtaken \/ \E c \in Calls :
                                InFlight(c) /\ s \in {call[c].sess, call[c].at})
        /\ UNCHANGED <<holders, database, registry, managerOf, job, born, spent, idle,
                       linked, stateOf, own, cache, index>>

ReleaseStillBound(k) ==
    /\ live' = [live EXCEPT ![k] = None]
    /\ overtaken' = (overtaken \/ \E c \in Calls :
                        InFlight(c) /\ live[k] \in {call[c].sess, call[c].at})
    /\ UNCHANGED <<registryVars, managerOf, job, born, spent, idle, linked, stateOf,
                   own, cache, index>>

(* _release_session: the session keeps its references to the shared state. *)
Release(k) ==
    LET s == live[k]
    IN  /\ Unbind(s)
        /\ managerOf' = ManagersLeft(s)
        /\ job' = TasksLeft(s)
        /\ live' = [live EXCEPT ![k] = None]
        /\ overtaken' = (overtaken \/ \E c \in Calls :
                                InFlight(c) /\ s \in {call[c].sess, call[c].at})
        /\ UNCHANGED <<born, spent, idle, linked, stateOf, own, cache, index>>

(* aclose_session, for the next name on the list.                          *)
EvictNext(k) ==
    /\ victim = None
    /\ k \in evicting
    /\ evicting' = evicting \ {k}
    /\ \/ /\ Cancellable(live[k]) = {}
          /\ Release(k)
          /\ UNCHANGED <<victim, due>>
       \/ /\ Cancellable(live[k]) # {}
          /\ victim' = k
          /\ due' = Cancellable(live[k])
          /\ job' = CancelAll(due')
          /\ UNCHANGED <<registryVars, sessionVars, objectVars, overtaken>>
    /\ UNCHANGED <<lockVars, scans, engine, pc, call>>

(* The tasks have stopped.                                                 *)
EvictRelease ==
    /\ victim # None
    /\ \A b \in due : job[b].status = "ended"
    /\ Release(victim)
    /\ victim' = None
    /\ due' = {}
    /\ UNCHANGED <<evicting, lockVars, scans, engine, pc, call>>

-----------------------------------------------------------------------------
CallNext(c) ==
    \/ \E k \in Keys, d \in Databases : StartConnect(c, k, d)
    \/ \E k \in Keys : StartPublish(c, k) \/ RefuseAtTheDoor(c, k)
    \/ RefuseInside(c)
    \/ ConnectBegins(c)
    \/ ConnectFails(c)
    \/ ConnectSucceeds(c)
    \/ ClearedThenBound(c)
    \/ NothingToRestore(c)
    \/ RestoreQueues(c)
    \/ RestoreBegins(c)
    \/ RestoreEnds(c)
    \/ PublishQueues(c)
    \/ PublishBegins(c)
    \/ WorkerReads(c)
    \/ Discard(c)
    \/ Publish(c)
    \/ PublishEnds(c)

TaskNext(c) == IndexInstalled(c) \/ TaskStops(c)

EvictorNext == Scan \/ EvictRelease \/ \E k \in Keys : EvictNext(k)

AllAnswered ==
    /\ \A c \in Calls : pc[c] = "done" /\ job[c].status \in {"none", "ended"}
    /\ UNCHANGED vars

Next ==
    \/ \E c \in Calls : CallNext(c) \/ TaskNext(c)
    \/ EvictorNext
    \/ AllAnswered

Spec == Init /\ [][Next]_vars

-----------------------------------------------------------------------------
(* Properties.                                                             *)

TypeOK ==
    /\ RegistryTypeOK
    /\ born \in 0..MaxSessions
    /\ live \in [Keys -> Sessions \cup {None}]
    /\ spent \in SUBSET HandleKeys
    /\ idle \in [Sessions -> BOOLEAN]
    /\ linked \in [Sessions -> Databases \cup {None}]
    /\ stateOf \in [Sessions -> Runtimes \cup {None}]
    /\ own \in [Sessions -> Calls \cup {None}]
    /\ binding \in [Sessions -> Calls \cup {None}]
    /\ managerOf \in [Runtimes -> Calls \cup {None}]
    /\ writer \in [Runtimes -> Calls \cup {None}]
    /\ cache \in [Runtimes -> SUBSET Databases]
    /\ index \in [Runtimes -> SUBSET Databases]
    /\ engine \in [Calls -> Databases \cup {None}]
    /\ pc \in [Calls -> Points]
    /\ call \in [Calls -> Locals]
    /\ job \in [Calls -> Jobs]
    /\ evicting \in SUBSET Keys
    /\ victim \in Keys \cup {None}
    /\ due \in SUBSET Calls
    /\ scans \in 0..MaxScans
    /\ overtaken \in BOOLEAN

(* The databases a call is writing the shared state of.                    *)
Writes(c, d) ==
    \/ pc[c] = "restoring" /\ call[c].target = d
    \/ pc[c] \in {"reading", "read", "published"} /\ database[call[c].pin] = d

(* "Two clients running discover_schema or cleanup_workspace at once would *)
(* interleave; that is what the second lock is for" (main._writer_lock):   *)
(* one call at a time rewrites what the sessions of a database share.      *)
OneWriterPerDatabase ==
    \A c, e \in Calls, d \in Databases : Writes(c, d) /\ Writes(e, d) => c = e

(* ... and so it is as long as no session is evicted with a call of its in *)
(* flight, whoever connects, changes database or comes back meanwhile.     *)
WritersExclusive == ~overtaken => OneWriterPerDatabase

(* Results stay with the database they were computed from: the cache and   *)
(* the index of a runtime describe its own database, whatever the session  *)
(* that computed them has done in the meantime.                            *)
LandsWhereRead ==
    ~overtaken => \A r \in Runtimes : cache[r] \cup index[r] \subseteq {database[r]}

(* A runtime that is held has a manager, and the manager is connected to   *)
(* the runtime's database: nobody's reconnect swaps it underneath others.  *)
ManagersMatch ==
    ~overtaken => \A r \in Runtimes :
        holders[r] > 0 => managerOf[r] # None /\ engine[managerOf[r]] = database[r]

(* Only live sessions hold runtimes, so each is closed in the end.         *)
HeldByTheLiving ==
    ~overtaken => \A s \in Sessions :
        runtimeOf[s] # None => \E k \in Keys : live[k] = s

(* "Scan sessions and evict those idle beyond the timeout"                 *)
(* (_evict_idle_sessions): a session that is dropped is idle.              *)
EvictsOnlyIdle ==
    [][\A k \in Keys :
        (live[k] # None /\ live'[k] = None) => idle[live[k]]]_vars

(* Whatever the calls, the background tasks and the evictor do in between, *)
(* a step binds or moves one session to one database, takes one session    *)
(* out of its runtime, or leaves the registry alone.                       *)
RegistryKept == RegistrySpec
=============================================================================
