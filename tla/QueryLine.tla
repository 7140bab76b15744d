------------------------------ MODULE QueryLine ------------------------------
(***************************************************************************)
(* The line in front of one DatabaseManager: async_utils.run_db, which     *)
(* runs a blocking database call in a worker thread under the manager's    *)
(* query_lock, the bound on how many calls may wait for that lock, and     *)
(* ServerState._disconnect_manager, which closes the manager now or when   *)
(* its worker is done.                                                     *)
(*                                                                         *)
(* Two kinds of steps interleave.  Steps of the event loop run one at a    *)
(* time and are atomic from one await to the next; steps of worker threads *)
(* happen at any moment.  A handler that calls the database on the loop    *)
(* itself (sample_table_data) stops every other loop step while it runs,   *)
(* but no thread.                                                          *)
(***************************************************************************)
EXTENDS Integers, FiniteSets

CONSTANTS
    Calls,        (* calls that go through run_db, each made once           *)
    Closers,      (* requests to disconnect the manager                     *)
    Samplers,     (* calls of sample_table_data, made on the loop           *)
    MaxQueued,    (* DB_MAX_QUEUED_CALLS: how many calls may wait; 0: any   *)
    Nobody        (* not a client: nobody is inside the database            *)

Clients == Calls \cup Closers \cup Samplers

ASSUME QueryLineAssumption ==
    /\ MaxQueued \in Nat
    /\ Calls \cap Closers = {}
    /\ Calls \cap Samplers = {}
    /\ Closers \cap Samplers = {}
    /\ IsFiniteSet(Calls)
    /\ Nobody \notin Clients

VARIABLES
    pc,           (* where each client is                                   *)
    ticket,       (* the arrival order of the clients that joined the line  *)
    arrivals,     (* how many clients ever joined the line                  *)
    locked,       (* query_lock.locked()                                    *)
    waiters,      (* DatabaseManager.query_waiters                          *)
    gone,         (* calls whose caller was cancelled after the lock        *)
    engine        (* "open" until DatabaseManager.disconnect                *)

vars == <<pc, ticket, arrivals, locked, waiters, gone, engine>>

-----------------------------------------------------------------------------
(* A client in the line has a future in the lock's deque.  Its caller can  *)
(* be cancelled before the future resolves ("dropped": the future itself   *)
(* is cancelled) or after it ("wokenDropped": the future stays resolved    *)
(* and the cancellation is thrown at the next step).                       *)

InLine == {"waiting", "woken", "dropped", "wokenDropped"}

(* From the acquisition to the done callback the lock belongs to the call. *)
Holding == {"submitted", "inside", "finished"}

Ended == {"done", "refused", "cancelled"}

Places == {"new", "spawned", "sampling"} \cup InLine \cup Holding \cup Ended

(* The loop is stuck in a database call made outside run_db.               *)
LoopBusy == \E s \in Samplers : pc[s] = "sampling"

(* Mutant: acquire looks at the lock only, not at the line.                *)
FreeWhateverTheLine == ~locked

(* asyncio.Lock.acquire takes a free lock at once only when nobody but     *)
(* cancelled waiters is in the line.                                       *)
Free == ~locked /\ \A d \in Clients : pc[d] \in InLine => pc[d] = "dropped"

(* asyncio.Lock._wake_up_first: the future at the head of the deque is     *)
(* resolved, unless it is already resolved or cancelled.                   *)
IsFirst(p, d) ==
    \A e \in Clients : p[e] \in InLine => ticket[d] <= ticket[e]

WakeUpFirst(p) ==
    [d \in Clients |->
        IF p[d] = "waiting" /\ IsFirst(p, d) THEN "woken" ELSE p[d]]

(* The check at the door of run_db: only a locked connection has a bound.  *)
Admitted == ~(locked /\ MaxQueued > 0 /\ waiters >= MaxQueued)

Init ==
    /\ pc = [d \in Clients |-> "new"]
    /\ ticket = [d \in Clients |-> 0]
    /\ arrivals = 0
    /\ locked = FALSE
    /\ waiters = 0
    /\ gone = {}
    /\ engine = "open"

-----------------------------------------------------------------------------
(* run_db, up to the worker.                                               *)

Refuse(c) ==
    /\ ~LoopBusy
    /\ pc[c] = "new"
    /\ ~Admitted
    /\ pc' = [pc EXCEPT ![c] = "refused"]
    /\ UNCHANGED <<ticket, arrivals, locked, waiters, gone, engine>>

(* The increment, the acquisition and the decrement happen in one step of  *)
(* the loop.                                                               *)
AcquireAtOnce(c) ==
    /\ ~LoopBusy
    /\ pc[c] = "new"
    /\ Admitted
    /\ Free
    /\ pc' = [pc EXCEPT ![c] = "submitted"]
    /\ locked' = TRUE
    /\ UNCHANGED <<ticket, arrivals, waiters, gone, engine>>

EnterLine(d, p) ==
    /\ pc' = [pc EXCEPT ![d] = p]
    /\ ticket' = [ticket EXCEPT ![d] = arrivals]
    /\ arrivals' = arrivals + 1

JoinLine(c) ==
    /\ ~LoopBusy
    /\ pc[c] = "new"
    /\ Admitted
    /\ ~Free
    /\ EnterLine(c, "waiting")
    /\ waiters' = waiters + 1
    /\ UNCHANGED <<locked, gone, engine>>

Resume(c) ==
    /\ ~LoopBusy
    /\ pc[c] = "woken"
    /\ pc' = [pc EXCEPT ![c] = "submitted"]
    /\ locked' = TRUE
    /\ waiters' = waiters - 1
    /\ UNCHANGED <<ticket, arrivals, gone, engine>>

(* The caller is cancelled while it waits: now, and when its task next     *)
(* runs, it leaves the line; a free lock is then passed on.                *)
CancelWaiting(c) ==
    /\ ~LoopBusy
    /\ \/ pc[c] = "waiting" /\ pc' = [pc EXCEPT ![c] = "dropped"]
       \/ pc[c] = "woken" /\ pc' = [pc EXCEPT ![c] = "wokenDropped"]
    /\ UNCHANGED <<ticket, arrivals, locked, waiters, gone, engine>>

(* Mutant: the decrement is lost on the way out of the line.              *)
LeaveLineUncounted(c) ==
    /\ ~LoopBusy
    /\ pc[c] \in {"dropped", "wokenDropped"}
    /\ LET left == [pc EXCEPT ![c] = "cancelled"]
       IN  pc' = IF locked THEN left ELSE WakeUpFirst(left)
    /\ UNCHANGED <<ticket, arrivals, locked, waiters, gone, engine>>

(* Mutant: a cancelled waiter takes the wake-up it was given with it.      *)
LeaveLineSilently(c) ==
    /\ ~LoopBusy
    /\ pc[c] \in {"dropped", "wokenDropped"}
    /\ pc' = [pc EXCEPT ![c] = "cancelled"]
    /\ waiters' = waiters - 1
    /\ UNCHANGED <<ticket, arrivals, locked, gone, engine>>

LeaveLine(c) ==
    /\ ~LoopBusy
    /\ pc[c] \in {"dropped", "wokenDropped"}
    /\ LET left == [pc EXCEPT ![c] = "cancelled"]
       IN  pc' = IF locked THEN left ELSE WakeUpFirst(left)
    /\ waiters' = waiters - 1
    /\ UNCHANGED <<ticket, arrivals, locked, gone, engine>>

-----------------------------------------------------------------------------
(* The worker thread, and the callback that releases the lock.             *)

WorkerEnters(c) ==
    /\ pc[c] = "submitted"
    /\ pc' = [pc EXCEPT ![c] = "inside"]
    /\ UNCHANGED <<ticket, arrivals, locked, waiters, gone, engine>>

WorkerLeaves(c) ==
    /\ pc[c] = "inside"
    /\ pc' = [pc EXCEPT ![c] = "finished"]
    /\ UNCHANGED <<ticket, arrivals, locked, waiters, gone, engine>>

(* Mutant: the lock of an abandoned worker is left to its caller.          *)
ReleaseLockForCaller(c) ==
    /\ ~LoopBusy
    /\ pc[c] = "finished"
    /\ c \notin gone
    /\ pc' = WakeUpFirst([pc EXCEPT ![c] = "done"])
    /\ locked' = FALSE
    /\ UNCHANGED <<ticket, arrivals, waiters, gone, engine>>

(* The done callback of the worker: the lock is released by the worker,    *)
(* whatever became of its caller.                                          *)
ReleaseLock(c) ==
    /\ ~LoopBusy
    /\ pc[c] = "finished"
    /\ pc' = WakeUpFirst([pc EXCEPT ![c] = "done"])
    /\ locked' = FALSE
    /\ UNCHANGED <<ticket, arrivals, waiters, gone, engine>>

(* Mutant: an unshielded await, whose cancellation frees the lock.         *)
AbandonReleases(c) ==
    /\ ~LoopBusy
    /\ pc[c] \in Holding
    /\ c \notin gone
    /\ gone' = gone \cup {c}
    /\ pc' = WakeUpFirst(pc)
    /\ locked' = FALSE
    /\ UNCHANGED <<ticket, arrivals, waiters, engine>>

(* The caller is cancelled while its worker runs: the await is shielded,   *)
(* so the worker and the lock are left alone.                              *)
AbandonWorker(c) ==
    /\ ~LoopBusy
    /\ pc[c] \in Holding
    /\ c \notin gone
    /\ gone' = gone \cup {c}
    /\ UNCHANGED <<pc, ticket, arrivals, locked, waiters, engine>>

-----------------------------------------------------------------------------
(* ServerState._disconnect_manager: a free manager is closed on the spot,  *)
(* a locked one by a task that takes its place in the line, uncounted.     *)

(* Mutant: the manager is closed whoever is inside.                        *)
CloseUnderWorker(d) ==
    /\ ~LoopBusy
    /\ pc[d] = "new"
    /\ engine' = "closed"
    /\ pc' = [pc EXCEPT ![d] = "done"]
    /\ UNCHANGED <<ticket, arrivals, locked, waiters, gone>>

CloseNow(d) ==
    /\ ~LoopBusy
    /\ pc[d] = "new"
    /\ ~locked
    /\ engine' = "closed"
    /\ pc' = [pc EXCEPT ![d] = "done"]
    /\ UNCHANGED <<ticket, arrivals, locked, waiters, gone>>

DeferClose(d) ==
    /\ ~LoopBusy
    /\ pc[d] = "new"
    /\ locked
    /\ pc' = [pc EXCEPT ![d] = "spawned"]
    /\ UNCHANGED <<ticket, arrivals, locked, waiters, gone, engine>>

(* Mutant: the task gives up on a lock that is taken again.                *)
CloserGivesUp(d) ==
    /\ ~LoopBusy
    /\ pc[d] = "spawned"
    /\ engine' = IF Free THEN "closed" ELSE engine
    /\ pc' = [pc EXCEPT ![d] = "done"]
    /\ UNCHANGED <<ticket, arrivals, locked, waiters, gone>>

(* The task's first step: a free lock is taken, used and released in one   *)
(* step (the line then holds only cancelled futures: nobody to wake).      *)
CloserArrives(d) ==
    /\ ~LoopBusy
    /\ pc[d] = "spawned"
    /\ \/ /\ Free
          /\ engine' = "closed"
          /\ pc' = [pc EXCEPT ![d] = "done"]
          /\ UNCHANGED <<ticket, arrivals>>
       \/ /\ ~Free
          /\ EnterLine(d, "waiting")
          /\ engine' = engine
    /\ UNCHANGED <<locked, waiters, gone>>

CloserResumes(d) ==
    /\ ~LoopBusy
    /\ pc[d] = "woken"
    /\ engine' = "closed"
    /\ pc' = WakeUpFirst([pc EXCEPT ![d] = "done"])
    /\ UNCHANGED <<ticket, arrivals, locked, waiters, gone>>

-----------------------------------------------------------------------------
(* handlers/schema.sample_table_data calls the manager on the loop, with   *)
(* neither worker nor lock.                                                *)

SampleStarts(s) ==
    /\ ~LoopBusy
    /\ pc[s] = "new"
    /\ pc' = [pc EXCEPT ![s] = "sampling"]
    /\ UNCHANGED <<ticket, arrivals, locked, waiters, gone, engine>>

SampleEnds(s) ==
    /\ pc[s] = "sampling"
    /\ pc' = [pc EXCEPT ![s] = "done"]
    /\ UNCHANGED <<ticket, arrivals, locked, waiters, gone, engine>>

-----------------------------------------------------------------------------
CallStep(c) ==
    \/ Refuse(c)
    \/ AcquireAtOnce(c)
    \/ JoinLine(c)
    \/ Resume(c)
    \/ CancelWaiting(c)
    \/ LeaveLine(c)
    \/ WorkerEnters(c)
    \/ WorkerLeaves(c)
    \/ ReleaseLock(c)
    \/ AbandonWorker(c)

CloserStep(d) ==
    \/ CloseNow(d)
    \/ DeferClose(d)
    \/ CloserArrives(d)
    \/ CloserResumes(d)

SamplerStep(s) ==
    \/ SampleStarts(s)
    \/ SampleEnds(s)

(* Every client has been answered: the only state in which nothing is left *)
(* to do.                                                                  *)
AllAnswered ==
    /\ \A d \in Clients : pc[d] \in Ended
    /\ UNCHANGED vars

Next ==
    \/ \E c \in Calls : CallStep(c)
    \/ \E d \in Closers : CloserStep(d)
    \/ \E s \in Samplers : SamplerStep(s)
    \/ AllAnswered

Spec == Init /\ [][Next]_vars

(* The loop runs every ready task, and a database call returns.  No caller *)
(* is obliged to arrive or to be cancelled.                                *)
Fairness ==
    /\ \A c \in Calls :
        /\ WF_vars(Resume(c))
        /\ WF_vars(LeaveLine(c))
        /\ WF_vars(WorkerEnters(c))
        /\ WF_vars(WorkerLeaves(c))
        /\ WF_vars(ReleaseLock(c))
    /\ \A d \in Closers :
        /\ WF_vars(CloserArrives(d))
        /\ WF_vars(CloserResumes(d))
    /\ \A s \in Samplers : WF_vars(SampleEnds(s))

FairSpec == Spec /\ Fairness

-----------------------------------------------------------------------------
(* Properties.                                                             *)

TypeOK ==
    /\ pc \in [Clients -> Places]
    /\ ticket \in [Clients -> Nat]
    /\ arrivals \in Nat
    /\ locked \in BOOLEAN
    /\ waiters \in Nat
    /\ gone \in SUBSET Calls
    /\ engine \in {"open", "closed"}

(* "Two workers must not be inside the database at once" (the comment on   *)
(* DatabaseManager.query_lock): whoever is cancelled, and whenever, at     *)
(* most one call holds the connection from its acquisition of the lock to  *)
(* the callback of its worker, and the lock is held exactly then.          *)
OneWorkerInside ==
    /\ \A c, d \in Calls :
        (pc[c] \in Holding /\ pc[d] \in Holding) => c = d
    /\ locked <=> \E c \in Calls : pc[c] \in Holding

(* The count run_db checks the bound against is the number of calls in the *)
(* line: no path out of the line, cancellation included, loses or repeats  *)
(* a decrement.                                                            *)
WaitersCounted ==
    waiters = Cardinality({c \in Calls : pc[c] \in InLine})

(* A connection that goes free is never left with a line nobody will wake: *)
(* the head of the line is woken, or is a cancelled waiter that passes the *)
(* lock on when it leaves.                                                 *)
LineIsMoving ==
    (~locked /\ \E d \in Clients : pc[d] = "waiting")
        => \E d \in Clients :
            pc[d] \in {"woken", "dropped", "wokenDropped"} /\ IsFirst(pc, d)

(* "The calls on one connection stay in order": a call gets the lock only  *)
(* when nobody who arrived before it still waits for it.                   *)
InOrder ==
    [][\A c \in Calls :
        (pc[c] \notin Holding /\ pc'[c] \in Holding) =>
            \A d \in Clients :
                pc'[d] \in {"waiting", "woken"} =>
                    pc[c] = "woken" /\ ticket[c] < ticket[d]]_vars

(* "The most allowed at once" (the refusal of run_db) and "How many calls  *)
(* may wait for one database connection" (docs/configuration.md): no more  *)
(* than MaxQueued calls are ever in the line.                              *)
QueueBounded ==
    MaxQueued > 0 => Cardinality({c \in Calls : pc[c] \in InLine}) <= MaxQueued

(* "Calls on a connection run one at a time" (docs/configuration.md): a    *)
(* call made on the loop counts as much as one made in a worker.           *)
InsideDatabase ==
    {c \in Calls : pc[c] = "inside"} \cup {s \in Samplers : pc[s] = "sampling"}

OneCallAtATime == \A c, d \in InsideDatabase : c = d

(* Every call is answered: served, refused, or dropped at its own wish.    *)
EveryCallAnswered ==
    \A c \in Calls : (pc[c] # "new") ~> (pc[c] \in Ended)

(* A disconnect that was put off until the worker is done does happen.     *)
DeferredCloseHappens ==
    \A d \in Closers : (pc[d] = "spawned") ~> (engine = "closed" /\ pc[d] = "done")

-----------------------------------------------------------------------------
(* The abstract connection: its user is the call whose worker is inside.   *)

User ==
    IF \E c \in Calls : pc[c] = "inside"
    THEN CHOOSE c \in Calls : pc[c] = "inside"
    ELSE Nobody

Serial == INSTANCE SerialConnection
    WITH user <- User,
         served <- {c \in Calls : pc[c] \in {"finished", "done"}},
         open <- (engine = "open")

(* The line implements the abstract connection: calls through run_db enter *)
(* one at a time and once, and disconnecting never closes the engine under *)
(* a worker, however long the disconnect has to wait.                      *)
SerialService == Serial!Spec
=============================================================================
