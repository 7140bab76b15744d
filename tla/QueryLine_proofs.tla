-------------------------- MODULE QueryLine_proofs --------------------------
(***************************************************************************)
(* Proofs about QueryLine for every set of calls, disconnects and samplers *)
(* and every bound on the line.                                            *)
(***************************************************************************)
EXTENDS QueryLine, FiniteSetTheorems, WellFoundedInduction, TLAPS

(* Arrival numbers tell the clients in the line apart and are all spent.   *)
TicketsDistinct ==
    \A d, e \in Clients :
        /\ pc[d] \in InLine => ticket[d] < arrivals
        /\ (pc[d] \in InLine /\ pc[e] \in InLine /\ ticket[d] = ticket[e]) => d = e

(* A resolved future is the head of the line, and the lock stays free      *)
(* until its owner runs: whoever arrives in between queues behind it.      *)
WokenIsHead ==
    \A d \in Clients :
        pc[d] \in {"woken", "wokenDropped"} => ~locked /\ IsFirst(pc, d)

IInv ==
    /\ TypeOK
    /\ OneWorkerInside
    /\ WaitersCounted
    /\ TicketsDistinct
    /\ WokenIsHead

CallsInLine(p) == {c \in Calls : p[c] \in InLine}

-----------------------------------------------------------------------------
(* Waking the head changes one "waiting" into "woken" and nothing else.    *)
LEMMA WakeUpFacts ==
    ASSUME NEW p \in [Clients -> Places]
    PROVE  /\ WakeUpFirst(p) \in [Clients -> Places]
           /\ \A d \in Clients :
                /\ WakeUpFirst(p)[d] = p[d]
                   \/ (p[d] = "waiting" /\ WakeUpFirst(p)[d] = "woken" /\ IsFirst(p, d))
           /\ CallsInLine(WakeUpFirst(p)) = CallsInLine(p)
<1>1. WakeUpFirst(p) \in [Clients -> Places]
  BY DEF WakeUpFirst, Places, InLine
<1>2. ASSUME NEW d \in Clients
      PROVE  WakeUpFirst(p)[d] = p[d]
             \/ (p[d] = "waiting" /\ WakeUpFirst(p)[d] = "woken" /\ IsFirst(p, d))
  BY DEF WakeUpFirst
<1>3. CallsInLine(WakeUpFirst(p)) = CallsInLine(p)
  BY <1>2 DEF CallsInLine, InLine, Clients
<1>4. QED
  BY <1>1, <1>2, <1>3

(* A call that joins the line adds one to its length, a call that leaves   *)
(* it takes one away.                                                      *)
LEMMA LineCount ==
    ASSUME NEW p \in [Clients -> Places], NEW c \in Calls, NEW x \in Places
    PROVE  /\ Cardinality(CallsInLine(p)) \in Nat
           /\ (p[c] \notin InLine /\ x \in InLine)
                => Cardinality(CallsInLine([p EXCEPT ![c] = x]))
                    = Cardinality(CallsInLine(p)) + 1
           /\ (p[c] \in InLine /\ x \notin InLine)
                => /\ Cardinality(CallsInLine([p EXCEPT ![c] = x]))
                        = Cardinality(CallsInLine(p)) - 1
                   /\ Cardinality(CallsInLine(p)) - 1 \in Nat
<1>1. IsFiniteSet(CallsInLine(p))
  BY QueryLineAssumption, FS_Subset DEF CallsInLine
<1>2. Cardinality(CallsInLine(p)) \in Nat
  BY <1>1, FS_CardinalityType
<1>3. ASSUME p[c] \notin InLine, x \in InLine
      PROVE  Cardinality(CallsInLine([p EXCEPT ![c] = x]))
                = Cardinality(CallsInLine(p)) + 1
  <2>1. /\ CallsInLine([p EXCEPT ![c] = x]) = CallsInLine(p) \cup {c}
        /\ c \notin CallsInLine(p)
    BY <1>3 DEF CallsInLine, Clients
  <2>2. QED
    BY <2>1, <1>1, FS_AddElement
<1>4. ASSUME p[c] \in InLine, x \notin InLine
      PROVE  /\ Cardinality(CallsInLine([p EXCEPT ![c] = x]))
                    = Cardinality(CallsInLine(p)) - 1
             /\ Cardinality(CallsInLine(p)) - 1 \in Nat
  <2>1. /\ CallsInLine([p EXCEPT ![c] = x]) = CallsInLine(p) \ {c}
        /\ c \in CallsInLine(p)
    BY <1>4 DEF CallsInLine, Clients
  <2>2. Cardinality(CallsInLine(p) \ {c}) = Cardinality(CallsInLine(p)) - 1
    BY <2>1, <1>1, FS_RemoveElement
  <2>3. Cardinality(CallsInLine(p) \ {c}) \in Nat
    BY <1>1, FS_RemoveElement, FS_CardinalityType
  <2>4. QED
    BY <2>1, <2>2, <2>3
<1>5. QED
  BY <1>2, <1>3, <1>4

(* Moves inside the line, and moves outside it, leave its length alone.    *)
LEMMA LineKept ==
    ASSUME NEW p \in [Clients -> Places], NEW c \in Clients, NEW x \in Places,
           c \in Calls => (p[c] \in InLine <=> x \in InLine)
    PROVE  CallsInLine([p EXCEPT ![c] = x]) = CallsInLine(p)
BY DEF CallsInLine, Clients

-----------------------------------------------------------------------------
LEMMA InitIInv == Init => IInv
<1> SUFFICES ASSUME Init PROVE IInv
  OBVIOUS
<1>1. TypeOK
  BY DEF Init, TypeOK, Places
<1>2. OneWorkerInside
  BY DEF Init, OneWorkerInside, Holding, Clients
<1>3. WaitersCounted
  <2>1. {c \in Calls : pc[c] \in InLine} = {}
    BY DEF Init, InLine, Clients
  <2>2. QED
    BY <2>1, FS_EmptySet DEF Init, WaitersCounted
<1>4. TicketsDistinct /\ WokenIsHead
  BY DEF Init, TicketsDistinct, WokenIsHead, InLine
<1>5. QED
  BY <1>1, <1>2, <1>3, <1>4 DEF IInv

(* A step that moves one client from outside the line to outside the line, *)
(* leaving lock, line and counters alone.                                  *)
LEMMA MoveOutside ==
    ASSUME IInv, NEW d \in Clients, NEW x \in Places \ InLine,
           pc[d] \notin InLine,
           d \in Calls => (pc[d] \in Holding <=> x \in Holding),
           pc' = [pc EXCEPT ![d] = x],
           UNCHANGED <<ticket, arrivals, locked, waiters, gone>>,
           engine' \in {"open", "closed"}
    PROVE  IInv'
<1> USE DEF IInv
<1>1. TypeOK'
  BY DEF TypeOK
<1>2. OneWorkerInside'
  BY DEF OneWorkerInside, TypeOK, Clients
<1>3. WaitersCounted'
  BY LineKept DEF WaitersCounted, TypeOK, CallsInLine
<1>4. TicketsDistinct'
  BY DEF TicketsDistinct, TypeOK
<1>5. WokenIsHead'
  BY DEF WokenIsHead, TypeOK, IsFirst, InLine
<1>6. QED
  BY <1>1, <1>2, <1>3, <1>4, <1>5

(* The same, the line woken afterwards because the lock is free.           *)
LEMMA WokenAfter ==
    ASSUME IInv, NEW p \in [Clients -> Places], NEW w \in Nat,
           w = Cardinality(CallsInLine(p)),
           \A d \in Clients : p[d] = pc[d] \/ p[d] \notin InLine \cup Holding,
           \A c \in Calls : p[c] \notin Holding,
           pc' = WakeUpFirst(p),
           waiters' = w,
           ~locked', locked' \in BOOLEAN,
           UNCHANGED <<ticket, arrivals, gone>>,
           engine' \in {"open", "closed"}
    PROVE  IInv'
<1> USE DEF IInv
<1>1. /\ pc' \in [Clients -> Places]
      /\ \A d \in Clients :
            pc'[d] = p[d]
            \/ (p[d] = "waiting" /\ pc'[d] = "woken" /\ IsFirst(p, d))
      /\ CallsInLine(pc') = CallsInLine(p)
  BY WakeUpFacts
<1>2. TypeOK'
  BY <1>1 DEF TypeOK
<1>3. OneWorkerInside'
  BY <1>1 DEF OneWorkerInside, TypeOK, Clients, Holding
<1>4. WaitersCounted'
  BY <1>1 DEF WaitersCounted, CallsInLine
<1>5. \A d \in Clients :
        /\ pc'[d] \in InLine => pc[d] \in InLine
        /\ pc'[d] \in InLine <=> p[d] \in InLine
  BY <1>1 DEF InLine
<1>6. TicketsDistinct'
  BY <1>5 DEF TicketsDistinct
<1>7. WokenIsHead'
  <2> SUFFICES ASSUME NEW d \in Clients, pc'[d] \in {"woken", "wokenDropped"}
               PROVE  IsFirst(pc, d)'
    BY DEF WokenIsHead
  <2>1. CASE pc'[d] = p[d]
    <3>1. p[d] = pc[d]
      BY <2>1 DEF InLine
    <3>2. IsFirst(pc, d)
      BY <2>1, <3>1 DEF WokenIsHead
    <3>3. QED
      BY <3>2, <1>5 DEF IsFirst
  <2>2. CASE IsFirst(p, d)
    BY <2>2, <1>5 DEF IsFirst
  <2>3. QED
    BY <2>1, <2>2, <1>1
<1>8. QED
  BY <1>2, <1>3, <1>4, <1>6, <1>7

(* A client joins the line behind everybody in it.                         *)
LEMMA Joining ==
    ASSUME IInv, NEW d \in Clients,
           pc[d] \notin InLine, pc[d] \notin Holding,
           EnterLine(d, "waiting"),
           waiters' = IF d \in Calls THEN waiters + 1 ELSE waiters,
           UNCHANGED <<locked, gone, engine>>
    PROVE  IInv'
<1> USE DEF IInv
<1>0. /\ pc' = [pc EXCEPT ![d] = "waiting"]
      /\ ticket' = [ticket EXCEPT ![d] = arrivals]
      /\ arrivals' = arrivals + 1
  BY DEF EnterLine
<1>1. TypeOK'
  BY <1>0 DEF TypeOK, Places, InLine
<1>2. OneWorkerInside'
  BY <1>0 DEF OneWorkerInside, TypeOK, Holding
<1>3. WaitersCounted'
  <2>0. "waiting" \in Places /\ "waiting" \in InLine
    BY DEF Places, InLine
  <2>1. CASE d \in Calls
    BY <2>0, <2>1, <1>0, LineCount DEF WaitersCounted, TypeOK, CallsInLine
  <2>2. CASE d \notin Calls
    <3>1. {c \in Calls : pc'[c] \in InLine} = {c \in Calls : pc[c] \in InLine}
      BY <2>2, <1>0 DEF TypeOK
    <3>2. QED
      BY <3>1, <2>2 DEF WaitersCounted
  <2>3. QED
    BY <2>1, <2>2
<1>4. TicketsDistinct'
  BY <1>0 DEF TicketsDistinct, TypeOK
<1>5. WokenIsHead'
  <2> SUFFICES ASSUME NEW e \in Clients, pc'[e] \in {"woken", "wokenDropped"}
               PROVE  ~locked /\ IsFirst(pc, e)'
    BY DEF WokenIsHead
  <2>1. e # d /\ pc'[e] = pc[e] /\ pc[e] \in InLine /\ ticket'[e] = ticket[e]
    BY <1>0 DEF TypeOK, InLine
  <2>2. ~locked /\ IsFirst(pc, e) /\ ticket[e] < arrivals
    BY <2>1 DEF WokenIsHead, TicketsDistinct
  <2>3. ASSUME NEW f \in Clients, pc'[f] \in InLine
        PROVE  ticket'[e] <= ticket'[f]
    BY <2>1, <2>2, <2>3, <1>0 DEF IsFirst, TypeOK
  <2>4. QED
    BY <2>2, <2>3 DEF IsFirst
<1>6. QED
  BY <1>1, <1>2, <1>3, <1>4, <1>5

(* A call takes the free lock, from the door or from the head of the line. *)
LEMMA Acquiring ==
    ASSUME IInv, NEW c \in Calls, ~locked,
           pc[c] \notin Holding,
           \A d \in Clients : d # c => pc[d] \notin {"woken", "wokenDropped"},
           pc' = [pc EXCEPT ![c] = "submitted"],
           locked' = TRUE,
           waiters' = IF pc[c] \in InLine THEN waiters - 1 ELSE waiters,
           UNCHANGED <<ticket, arrivals, gone, engine>>
    PROVE  IInv'
<1> USE DEF IInv
<1>0. c \in Clients /\ "submitted" \in Places /\ "submitted" \notin InLine
      /\ "submitted" \in Holding
  BY DEF Clients, Places, InLine, Holding
<1>1. WaitersCounted' /\ waiters' \in Nat
  <2>1. CASE pc[c] \in InLine
    BY <2>1, <1>0, LineCount DEF WaitersCounted, TypeOK, CallsInLine
  <2>2. CASE pc[c] \notin InLine
    <3>1. {d \in Calls : pc'[d] \in InLine} = {d \in Calls : pc[d] \in InLine}
      BY <2>2, <1>0 DEF TypeOK
    <3>2. QED
      BY <3>1, <2>2 DEF WaitersCounted, TypeOK
  <2>3. QED
    BY <2>1, <2>2
<1>2. TypeOK'
  BY <1>0, <1>1 DEF TypeOK
<1>3. OneWorkerInside'
  BY <1>0 DEF OneWorkerInside, TypeOK
<1>4. TicketsDistinct'
  BY <1>0 DEF TicketsDistinct, TypeOK
<1>5. WokenIsHead'
  BY <1>0 DEF WokenIsHead, TypeOK
<1>6. QED
  BY <1>1, <1>2, <1>3, <1>4, <1>5

-----------------------------------------------------------------------------
LEMMA CallStepIInv ==
    ASSUME IInv, NEW c \in Calls, CallStep(c)
    PROVE  IInv'
<1>0. c \in Clients /\ pc \in [Clients -> Places]
  BY DEF Clients, IInv, TypeOK
<1>1. CASE Refuse(c)
  BY <1>1, <1>0, MoveOutside
     DEF Refuse, Places, InLine, Holding, Ended, IInv, TypeOK
<1>2. CASE AcquireAtOnce(c)
  BY <1>2, <1>0, Acquiring DEF AcquireAtOnce, Free, InLine, Holding
<1>3. CASE JoinLine(c)
  BY <1>3, <1>0, Joining DEF JoinLine, InLine, Holding
<1>4. CASE Resume(c)
  <2>1. ~locked /\ IsFirst(pc, c) /\ pc[c] = "woken"
    BY <1>4, <1>0 DEF Resume, IInv, WokenIsHead
  <2>2. ASSUME NEW d \in Clients, pc[d] \in {"woken", "wokenDropped"}
        PROVE  d = c
    BY <2>1, <2>2, <1>0 DEF IInv, WokenIsHead, IsFirst, TicketsDistinct, InLine, TypeOK
  <2>3. QED
    BY <2>1, <2>2, <1>4, Acquiring DEF Resume, InLine, Holding
<1>5. CASE CancelWaiting(c)
  <2>1. PICK x \in {"dropped", "wokenDropped"} :
            /\ pc' = [pc EXCEPT ![c] = x]
            /\ pc[c] \in {"waiting", "woken"}
            /\ x = "wokenDropped" => pc[c] = "woken"
    BY <1>5 DEF CancelWaiting
  <2>2. UNCHANGED <<ticket, arrivals, locked, waiters, gone, engine>>
    BY <1>5 DEF CancelWaiting
  <2>3. TypeOK'
    BY <2>1, <2>2 DEF IInv, TypeOK, Places, InLine
  <2>4. OneWorkerInside'
    BY <2>1, <2>2, <1>0 DEF IInv, OneWorkerInside, Holding
  <2>5. WaitersCounted'
    BY <2>1, <2>2, <1>0, LineKept DEF IInv, WaitersCounted, CallsInLine, InLine, Places
  <2>6. \A d \in Clients : pc'[d] \in InLine <=> pc[d] \in InLine
    BY <2>1, <1>0 DEF InLine
  <2>7. TicketsDistinct' /\ WokenIsHead'
    BY <2>1, <2>2, <2>6, <1>0 DEF IInv, TicketsDistinct, WokenIsHead, IsFirst
  <2>8. QED
    BY <2>3, <2>4, <2>5, <2>7 DEF IInv
<1>6. CASE LeaveLine(c)
  <2> DEFINE left == [pc EXCEPT ![c] = "cancelled"]
  <2>1. /\ left \in [Clients -> Places]
        /\ \A d \in Clients : left[d] = pc[d] \/ left[d] \notin InLine \cup Holding
        /\ \A d \in Clients : left[d] \in InLine \cup Holding => left[d] = pc[d]
    BY <1>0 DEF Places, Ended, InLine, Holding
  <2>2. waiters' = Cardinality(CallsInLine(left)) /\ waiters' \in Nat
    <3>1. /\ pc[c] \in InLine
          /\ "cancelled" \in Places /\ "cancelled" \notin InLine
      BY <1>6 DEF LeaveLine, InLine, Places, Ended
    <3>2. QED
      BY <3>1, <1>6, <1>0, LineCount
         DEF LeaveLine, IInv, WaitersCounted, CallsInLine
  <2>3. UNCHANGED <<ticket, arrivals, locked, gone, engine>>
    BY <1>6 DEF LeaveLine
  <2>4. CASE ~locked
    <3>1. pc' = WakeUpFirst(left)
      BY <2>4, <1>6 DEF LeaveLine
    <3>2. \A d \in Calls : left[d] \notin Holding
      BY <2>1, <2>4 DEF IInv, OneWorkerInside, Clients
    <3>3. QED
      BY <3>1, <3>2, <2>1, <2>2, <2>3, <2>4, WokenAfter DEF IInv, TypeOK
  <2>5. CASE locked
    <3>1. pc' = left
      BY <2>5, <1>6 DEF LeaveLine
    <3>2. TypeOK'
      BY <3>1, <2>1, <2>2, <2>3 DEF IInv, TypeOK
    <3>3. OneWorkerInside'
      BY <3>1, <2>3, <1>6, <1>0 DEF IInv, OneWorkerInside, LeaveLine, Holding
    <3>4. WaitersCounted'
      BY <3>1, <2>2 DEF WaitersCounted, CallsInLine
    <3>5. TicketsDistinct' /\ WokenIsHead'
      BY <3>1, <2>1, <2>3, <2>5, <1>0
         DEF IInv, TicketsDistinct, WokenIsHead, InLine
    <3>6. QED
      BY <3>2, <3>3, <3>4, <3>5 DEF IInv
  <2>6. QED
    BY <2>4, <2>5 DEF IInv, TypeOK
<1>7. CASE WorkerEnters(c)
  BY <1>7, <1>0, MoveOutside
     DEF WorkerEnters, Places, InLine, Holding, IInv, TypeOK
<1>8. CASE WorkerLeaves(c)
  BY <1>8, <1>0, MoveOutside
     DEF WorkerLeaves, Places, InLine, Holding, IInv, TypeOK
<1>9. CASE ReleaseLock(c)
  <2> DEFINE left == [pc EXCEPT ![c] = "done"]
  <2>1. /\ left \in [Clients -> Places]
        /\ \A d \in Clients : left[d] = pc[d] \/ left[d] \notin InLine \cup Holding
    BY <1>0 DEF Places, Ended, InLine, Holding
  <2>2. waiters = Cardinality(CallsInLine(left)) /\ waiters \in Nat
    <3>1. CallsInLine(left) = {d \in Calls : pc[d] \in InLine}
      BY <1>9, <1>0 DEF ReleaseLock, CallsInLine, InLine
    <3>2. QED
      BY <3>1 DEF IInv, TypeOK, WaitersCounted
  <2>3. \A d \in Calls : left[d] \notin Holding
    BY <1>9, <1>0 DEF ReleaseLock, IInv, OneWorkerInside, Holding
  <2>4. QED
    BY <2>1, <2>2, <2>3, <1>9, WokenAfter DEF ReleaseLock, IInv, TypeOK
<1>10. CASE AbandonWorker(c)
  BY <1>10 DEF AbandonWorker, IInv, TypeOK, OneWorkerInside, WaitersCounted,
               TicketsDistinct, WokenIsHead, IsFirst
<1>11. QED
  BY <1>1, <1>2, <1>3, <1>4, <1>5, <1>6, <1>7, <1>8, <1>9, <1>10 DEF CallStep

LEMMA CloserStepIInv ==
    ASSUME IInv, NEW d \in Closers, CloserStep(d)
    PROVE  IInv'
<1>0. d \in Clients /\ d \notin Calls /\ pc \in [Clients -> Places]
  BY QueryLineAssumption DEF Clients, IInv, TypeOK
<1>1. CASE CloseNow(d)
  BY <1>1, <1>0, MoveOutside DEF CloseNow, Places, InLine, Ended
<1>2. CASE DeferClose(d)
  BY <1>2, <1>0, MoveOutside DEF DeferClose, Places, InLine, IInv, TypeOK
<1>3. CASE CloserArrives(d)
  <2>1. CASE Free /\ engine' = "closed" /\ pc' = [pc EXCEPT ![d] = "done"]
             /\ UNCHANGED <<ticket, arrivals>>
    BY <2>1, <1>3, <1>0, MoveOutside DEF CloserArrives, Places, InLine, Ended
  <2>2. CASE ~Free /\ EnterLine(d, "waiting") /\ engine' = engine
    BY <2>2, <1>3, <1>0, Joining DEF CloserArrives, InLine, Holding
  <2>3. QED
    BY <2>1, <2>2, <1>3 DEF CloserArrives
<1>4. CASE CloserResumes(d)
  <2> DEFINE left == [pc EXCEPT ![d] = "done"]
  <2>1. /\ left \in [Clients -> Places]
        /\ \A e \in Clients : left[e] = pc[e] \/ left[e] \notin InLine \cup Holding
    BY <1>0 DEF Places, Ended, InLine, Holding
  <2>2. waiters = Cardinality(CallsInLine(left)) /\ waiters \in Nat
    <3>1. CallsInLine(left) = {c \in Calls : pc[c] \in InLine}
      BY <1>0 DEF CallsInLine
    <3>2. QED
      BY <3>1 DEF IInv, TypeOK, WaitersCounted
  <2>3. ~locked
    BY <1>4, <1>0 DEF CloserResumes, IInv, WokenIsHead
  <2>4. \A c \in Calls : left[c] \notin Holding
    BY <2>3, <1>0 DEF IInv, OneWorkerInside, Clients
  <2>5. QED
    BY <2>1, <2>2, <2>3, <2>4, <1>4, WokenAfter DEF CloserResumes, IInv, TypeOK
<1>5. QED
  BY <1>1, <1>2, <1>3, <1>4 DEF CloserStep

LEMMA SamplerStepIInv ==
    ASSUME IInv, NEW s \in Samplers, SamplerStep(s)
    PROVE  IInv'
<1>0. s \in Clients /\ s \notin Calls
  BY QueryLineAssumption DEF Clients
<1>1. CASE SampleStarts(s)
  BY <1>1, <1>0, MoveOutside DEF SampleStarts, Places, InLine, IInv, TypeOK
<1>2. CASE SampleEnds(s)
  BY <1>2, <1>0, MoveOutside DEF SampleEnds, Places, InLine, Ended, IInv, TypeOK
<1>3. QED
  BY <1>1, <1>2 DEF SamplerStep

LEMMA NextIInv == IInv /\ [Next]_vars => IInv'
<1> SUFFICES ASSUME IInv, [Next]_vars PROVE IInv'
  OBVIOUS
<1>1. ASSUME NEW c \in Calls, CallStep(c) PROVE IInv'
  BY <1>1, CallStepIInv
<1>2. ASSUME NEW d \in Closers, CloserStep(d) PROVE IInv'
  BY <1>2, CloserStepIInv
<1>3. ASSUME NEW s \in Samplers, SamplerStep(s) PROVE IInv'
  BY <1>3, SamplerStepIInv
<1>4. CASE UNCHANGED vars
  BY <1>4 DEF vars, IInv, TypeOK, OneWorkerInside, WaitersCounted,
              TicketsDistinct, WokenIsHead, IsFirst
<1>5. QED
  BY <1>1, <1>2, <1>3, <1>4 DEF Next, AllAnswered

(* The strengthened invariant: the theorems below are its parts.           *)
THEOREM Inductive == Spec => []IInv
<1>1. Init => IInv
  BY InitIInv
<1>2. IInv /\ [Next]_vars => IInv'
  BY NextIInv
<1>3. QED
  BY <1>1, <1>2, PTL DEF Spec

(* Type correctness; that the count of waiters is a natural number rests   *)
(* on its being the length of the line.                                    *)
THEOREM TypeCorrect == Spec => []TypeOK
<1>1. IInv => TypeOK
  BY DEF IInv
<1>2. QED
  BY <1>1, Inductive, PTL

(* However calls and disconnects arrive, wait, are cancelled and resume,   *)
(* one call at most has the connection, and the lock is held exactly as    *)
(* long.                                                                   *)
THEOREM MutualExclusion == Spec => []OneWorkerInside
<1>1. IInv => OneWorkerInside
  BY DEF IInv
<1>2. QED
  BY <1>1, Inductive, PTL

(* The count behind the bound is exact in every state.                     *)
THEOREM CountExact == Spec => []WaitersCounted
<1>1. IInv => WaitersCounted
  BY DEF IInv
<1>2. QED
  BY <1>1, Inductive, PTL

-----------------------------------------------------------------------------
(* The abstract connection.                                                *)

Served == {c \in Calls : pc[c] \in {"finished", "done"}}

LEMMA UserIs ==
    ASSUME OneWorkerInside
    PROVE  /\ \A c \in Calls : pc[c] = "inside" => User = c
           /\ (\A c \in Calls : pc[c] # "inside") => User = Nobody
BY DEF OneWorkerInside, User, Holding

LEMMA UserIsNext ==
    ASSUME OneWorkerInside'
    PROVE  /\ \A c \in Calls : pc'[c] = "inside" => User' = c
           /\ (\A c \in Calls : pc'[c] # "inside") => User' = Nobody
BY DEF OneWorkerInside, User, Holding

(* A step that moves no call into or out of the database is invisible to   *)
(* the abstract connection, save for closing the engine.                   *)
LEMMA SameUser ==
    ASSUME OneWorkerInside, OneWorkerInside',
           \A c \in Calls :
                /\ pc'[c] = "inside" <=> pc[c] = "inside"
                /\ pc'[c] \in {"finished", "done"} <=> pc[c] \in {"finished", "done"}
    PROVE  User' = User /\ Served' = Served
<1>1. Served' = Served
  BY DEF Served
<1>2. CASE \E c \in Calls : pc[c] = "inside"
  <2>1. PICK c \in Calls : pc[c] = "inside"
    BY <1>2
  <2>2. User = c
    BY <2>1, UserIs
  <2>3. pc'[c] = "inside"
    BY <2>1
  <2>4. User' = c
    BY <2>3, UserIsNext
  <2>5. QED
    BY <1>1, <2>2, <2>4
<1>3. CASE \A c \in Calls : pc[c] # "inside"
  <2>1. User = Nobody
    BY <1>3, UserIs
  <2>2. \A c \in Calls : pc'[c] # "inside"
    BY <1>3
  <2>3. User' = Nobody
    BY <2>2, UserIsNext
  <2>4. QED
    BY <1>1, <2>1, <2>3
<1>4. QED
  BY <1>2, <1>3

(* Closing is only ever done on a free lock, when nobody is inside.        *)
LEMMA FreeIsIdle ==
    ASSUME IInv, ~locked
    PROVE  User = Nobody
<1>1. \A c \in Calls : pc[c] # "inside"
  BY DEF IInv, OneWorkerInside, Holding
<1>2. QED
  BY <1>1, UserIs DEF IInv

LEMMA CallStepSerial ==
    ASSUME IInv, IInv', NEW c \in Calls, CallStep(c)
    PROVE  Serial!Next \/ UNCHANGED Serial!vars
<1>0. c \in Clients /\ pc \in [Clients -> Places]
      /\ OneWorkerInside /\ OneWorkerInside'
  BY DEF Clients, IInv, TypeOK
<1>1. CASE WorkerEnters(c)
  <2>1. User = Nobody
    <3>1. \A d \in Calls : pc[d] # "inside"
      BY <1>1, <1>0 DEF WorkerEnters, OneWorkerInside, Holding
    <3>2. QED
      BY <3>1, <1>0, UserIs
  <2>2. User' = c
    BY <1>1, <1>0, UserIsNext DEF WorkerEnters
  <2>3. c \notin Served /\ Served' = Served
    BY <1>1, <1>0 DEF WorkerEnters, Served
  <2>4. Serial!Enter(c)
    BY <2>1, <2>2, <2>3, <1>1 DEF Serial!Enter, Served, WorkerEnters
  <2>5. QED
    BY <2>4 DEF Serial!Next
<1>2. CASE WorkerLeaves(c)
  <2>1. User = c
    BY <1>2, <1>0, UserIs DEF WorkerLeaves
  <2>2. User' = Nobody
    <3>1. \A d \in Calls : pc'[d] # "inside"
      BY <1>2, <1>0 DEF WorkerLeaves, OneWorkerInside, Holding, Clients
    <3>2. QED
      BY <3>1, <1>0, UserIsNext
  <2>3. Served' = Served \cup {c}
    BY <1>2, <1>0 DEF WorkerLeaves, Served, Clients
  <2>4. Serial!Leave(c)
    BY <2>1, <2>2, <2>3, <1>2 DEF Serial!Leave, Served, WorkerLeaves
  <2>5. QED
    BY <2>4 DEF Serial!Next
<1>3. CASE ~WorkerEnters(c) /\ ~WorkerLeaves(c)
  <2>1. /\ \A d \in Calls :
            /\ pc'[d] = "inside" <=> pc[d] = "inside"
            /\ pc'[d] \in {"finished", "done"} <=> pc[d] \in {"finished", "done"}
        /\ engine' = engine
    BY <1>3, <1>0
       DEF CallStep, Refuse, AcquireAtOnce, JoinLine, EnterLine, Resume,
           CancelWaiting, LeaveLine, ReleaseLock, AbandonWorker, WakeUpFirst, Clients
  <2>2. User' = User /\ Served' = Served
    BY <2>1, <1>0, SameUser
  <2>3. QED
    BY <2>1, <2>2 DEF Serial!vars, Served
<1>4. QED
  BY <1>1, <1>2, <1>3

LEMMA CloserStepSerial ==
    ASSUME IInv, IInv', NEW d \in Closers, CloserStep(d)
    PROVE  Serial!Next \/ UNCHANGED Serial!vars
<1>0. d \in Clients /\ d \notin Calls /\ pc \in [Clients -> Places]
      /\ OneWorkerInside /\ OneWorkerInside'
  BY QueryLineAssumption DEF Clients, IInv, TypeOK
<1>1. \A c \in Calls :
        /\ pc'[c] = "inside" <=> pc[c] = "inside"
        /\ pc'[c] \in {"finished", "done"} <=> pc[c] \in {"finished", "done"}
  BY <1>0 DEF CloserStep, CloseNow, DeferClose, CloserArrives, CloserResumes,
              EnterLine, WakeUpFirst, Clients
<1>2. User' = User /\ Served' = Served
  BY <1>0, <1>1, SameUser
<1>3. engine' = engine \/ (engine' = "closed" /\ ~locked)
  BY <1>0 DEF CloserStep, CloseNow, DeferClose, CloserArrives, CloserResumes, Free,
              IInv, WokenIsHead
<1>4. CASE engine' = engine
  BY <1>2, <1>4 DEF Serial!vars, Served
<1>5. CASE engine' = "closed" /\ ~locked
  <2>1. User = Nobody
    BY <1>5, FreeIsIdle
  <2>2. Serial!Close
    BY <2>1, <1>2, <1>5 DEF Serial!Close, Served
  <2>3. QED
    BY <2>2 DEF Serial!Next
<1>6. QED
  BY <1>3, <1>4, <1>5

LEMMA SamplerStepSerial ==
    ASSUME IInv, IInv', NEW s \in Samplers, SamplerStep(s)
    PROVE  UNCHANGED Serial!vars
<1>0. s \in Clients /\ s \notin Calls /\ pc \in [Clients -> Places]
      /\ OneWorkerInside /\ OneWorkerInside'
  BY QueryLineAssumption DEF Clients, IInv, TypeOK
<1>1. /\ \A c \in Calls : pc'[c] = pc[c]
      /\ engine' = engine
  BY <1>0 DEF SamplerStep, SampleStarts, SampleEnds, Clients
<1>2. User' = User /\ Served' = Served
  BY <1>0, <1>1, SameUser
<1>3. QED
  BY <1>1, <1>2 DEF Serial!vars, Served

(* The line implements the abstract connection.                            *)
THEOREM ImplementsSerial == Spec => SerialService
<1>1. Init => Serial!Init
  <2> SUFFICES ASSUME Init PROVE Serial!Init
    OBVIOUS
  <2>1. OneWorkerInside
    BY InitIInv DEF IInv
  <2>2. User = Nobody
    BY <2>1, UserIs DEF Init, Clients
  <2>3. QED
    BY <2>2 DEF Init, Serial!Init, Clients
<1>2. IInv /\ IInv' /\ [Next]_vars => [Serial!Next]_Serial!vars
  <2> SUFFICES ASSUME IInv, IInv', [Next]_vars
               PROVE  Serial!Next \/ UNCHANGED Serial!vars
    OBVIOUS
  <2>1. CASE UNCHANGED vars
    <3>1. User' = User /\ Served' = Served
      BY <2>1, SameUser DEF vars, IInv
    <3>2. QED
      BY <2>1, <3>1 DEF vars, Serial!vars, Served
  <2>2. QED
    BY <2>1, CallStepSerial, CloserStepSerial, SamplerStepSerial
       DEF Next, AllAnswered
<1>3. QED
  BY <1>1, <1>2, Inductive, PTL DEF Spec, SerialService, Serial!Spec

-----------------------------------------------------------------------------
(* The order of service, and that the line moves.                          *)

(* A call takes a free lock past cancelled waiters only, and a woken one   *)
(* was the head of the line.                                               *)
THEOREM ServedInOrder == Spec => InOrder
<1> DEFINE Fair == \A c \in Calls :
        (pc[c] \notin Holding /\ pc'[c] \in Holding) =>
            \A d \in Clients :
                pc'[d] \in {"waiting", "woken"} =>
                    pc[c] = "woken" /\ ticket[c] < ticket[d]
<1>1. IInv /\ [Next]_vars => [Fair]_vars
  <2> SUFFICES ASSUME IInv, Next PROVE Fair
    BY DEF vars
  <2>1. ASSUME NEW c \in Calls, AcquireAtOnce(c)
        PROVE  Fair
    BY <2>1 DEF AcquireAtOnce, Free, IInv, TypeOK, Clients, InLine, Holding
  <2>2. ASSUME NEW c \in Calls, Resume(c)
        PROVE  Fair
    <3>1. \A d \in Clients \ {c} : pc[d] \in InLine => ticket[c] < ticket[d]
      BY <2>2 DEF Resume, IInv, TypeOK, WokenIsHead, TicketsDistinct, IsFirst, Clients, InLine
    <3>2. \A d \in Clients \ {c} : pc'[d] = pc[d]
      BY <2>2 DEF Resume, IInv, TypeOK
    <3>3. pc[c] = "woken" /\ pc'[c] = "submitted"
      BY <2>2 DEF Resume, IInv, TypeOK, Clients
    <3>4. QED
      BY <3>1, <3>2, <3>3 DEF Clients, InLine, Holding
  <2>3. ASSUME \A c \in Calls : pc'[c] \in Holding => pc[c] \in Holding
        PROVE  Fair
    BY <2>3
  <2>4. ASSUME NEW d \in Clients, NEW x, NEW p, p = [pc EXCEPT ![d] = x],
               x \notin Holding \/ pc[d] \in Holding,
               pc' = p \/ pc' = WakeUpFirst(p)
        PROVE  Fair
    BY <2>4, <2>3 DEF WakeUpFirst, IInv, TypeOK, Clients, Holding
  <2>5. ASSUME NEW c \in Calls, CallStep(c)
        PROVE  Fair
    <3>1. CASE Refuse(c) \/ JoinLine(c) \/ CancelWaiting(c)
      BY <3>1, <2>3 DEF Refuse, JoinLine, EnterLine, CancelWaiting, IInv, TypeOK, Clients, Holding
    <3>2. CASE LeaveLine(c)
      <4> DEFINE left == [pc EXCEPT ![c] = "cancelled"]
      <4>1. c \in Clients /\ (pc' = left \/ pc' = WakeUpFirst(left)) /\ "cancelled" \notin Holding
        BY <3>2 DEF LeaveLine, Clients, Holding
      <4>2. left = [pc EXCEPT ![c] = "cancelled"]
        OBVIOUS
      <4> HIDE DEF left
      <4>3. QED
        BY <4>1, <4>2, <2>4
    <3>3. CASE WorkerEnters(c) \/ WorkerLeaves(c)
      BY <3>3, <2>4 DEF WorkerEnters, WorkerLeaves, Clients, Holding
    <3>4. CASE ReleaseLock(c)
      BY <3>4, <2>4 DEF ReleaseLock, Clients, Holding
    <3>5. CASE AbandonWorker(c)
      BY <3>5 DEF AbandonWorker
    <3>6. QED
      BY <2>1, <2>2, <2>5, <3>1, <3>2, <3>3, <3>4, <3>5 DEF CallStep
  <2>6. ASSUME NEW d \in Closers, CloserStep(d)
        PROVE  Fair
    <3>1. CASE CloseNow(d) \/ DeferClose(d)
      BY <3>1, <2>3 DEF CloseNow, DeferClose, IInv, TypeOK, Clients, Holding
    <3>2. CASE CloserArrives(d)
      BY <3>2, <2>3 DEF CloserArrives, EnterLine, IInv, TypeOK, Clients, Holding
    <3>3. CASE CloserResumes(d)
      <4> DEFINE left == [pc EXCEPT ![d] = "done"]
      <4>1. d \in Clients /\ pc' = WakeUpFirst(left) /\ "done" \notin Holding
        BY <3>3 DEF CloserResumes, Clients, Holding
      <4>2. left = [pc EXCEPT ![d] = "done"]
        OBVIOUS
      <4> HIDE DEF left
      <4>3. QED
        BY <4>1, <4>2, <2>4
    <3>4. QED
      BY <2>6, <3>1, <3>2, <3>3 DEF CloserStep
  <2>7. ASSUME NEW s \in Samplers, SamplerStep(s)
        PROVE  Fair
    BY <2>7, <2>4 DEF SamplerStep, SampleStarts, SampleEnds, Clients, Holding
  <2>8. QED
    BY <2>5, <2>6, <2>7 DEF Next, AllAnswered, vars
<1>2. QED
  BY <1>1, Inductive, PTL DEF Spec, InOrder

(* A set of numbers that is not empty has a least one.                     *)
LEMMA Least ==
    ASSUME NEW S, S \subseteq Nat, S # {}
    PROVE  \E n \in S : \A m \in S : n <= m
<1>1. PICK x \in S : \A y \in S : ~ (<< y, x >> \in OpToRel(<, Nat))
  BY NatLessThanWellFounded, WFMin
<1>2. \A y \in S : x <= y
  <2> SUFFICES ASSUME NEW y \in S, y < x PROVE FALSE
    OBVIOUS
  <2>1. << y, x >> \in OpToRel(<, Nat)
    BY DEF OpToRel
  <2>2. QED
    BY <1>1, <2>1
<1>3. QED
  BY <1>2

(* A line has a head.                                                      *)
LEMMA HeadOfLine ==
    ASSUME TypeOK, NEW p, NEW e \in Clients, p[e] \in InLine
    PROVE  \E d \in Clients : p[d] \in InLine /\ IsFirst(p, d)
<1> DEFINE Numbers == {ticket[d] : d \in {x \in Clients : p[x] \in InLine}}
<1>1. Numbers \subseteq Nat /\ ticket[e] \in Numbers
  BY DEF TypeOK
<1>2. PICK n \in Numbers : \A m \in Numbers : n <= m
  BY <1>1, Least
<1>3. PICK d \in Clients : p[d] \in InLine /\ ticket[d] = n
  OBVIOUS
<1>4. QED
  BY <1>2, <1>3 DEF IsFirst

(* Waking the head leaves a line that moves.                               *)
LEMMA WakingMoves ==
    ASSUME TypeOK, NEW p \in [Clients -> Places],
           pc' = WakeUpFirst(p), UNCHANGED ticket
    PROVE  LineIsMoving'
<1> SUFFICES ASSUME NEW e \in Clients, pc'[e] = "waiting"
             PROVE  \E d \in Clients :
                      /\ pc'[d] \in {"woken", "dropped", "wokenDropped"}
                      /\ IsFirst(pc, d)'
  BY DEF LineIsMoving
<1>1. p[e] \in InLine
  BY DEF WakeUpFirst, InLine
<1>2. PICK d \in Clients : p[d] \in InLine /\ IsFirst(p, d)
  BY <1>1, HeadOfLine
<1>3. \A x \in Clients : pc'[x] \in InLine <=> p[x] \in InLine
  BY DEF WakeUpFirst, InLine
<1>4. IsFirst(pc, d)'
  BY <1>2, <1>3 DEF IsFirst
<1>5. pc'[d] \in {"woken", "dropped", "wokenDropped"}
  BY <1>2 DEF WakeUpFirst, InLine
<1>6. QED
  BY <1>4, <1>5

(* A line that moved still moves when d, which was not waiting for the     *)
(* lock, goes anywhere or to the end of the line.                          *)
LEMMA StillMoving ==
    ASSUME IInv, LineIsMoving, UNCHANGED locked,
           NEW d \in Clients, NEW x \in Places, pc' = [pc EXCEPT ![d] = x],
           \/ pc[d] \notin InLine /\ x \notin InLine /\ UNCHANGED ticket
           \/ pc[d] = "waiting" /\ x = "dropped" /\ UNCHANGED ticket
           \/ pc[d] = "woken" /\ x = "wokenDropped" /\ UNCHANGED ticket
           \/ /\ pc[d] \notin InLine /\ ~Free /\ x = "waiting"
              /\ ticket' = [ticket EXCEPT ![d] = arrivals]
    PROVE  LineIsMoving'
<1> SUFFICES ASSUME ~locked, \E e \in Clients : pc'[e] = "waiting"
             PROVE  \E h \in Clients :
                      /\ pc'[h] \in {"woken", "dropped", "wokenDropped"}
                      /\ IsFirst(pc, h)'
  BY DEF LineIsMoving
<1>0. TypeOK /\ TicketsDistinct /\ WokenIsHead
  BY DEF IInv
<1>1. PICK h \in Clients : pc[h] \in {"woken", "dropped", "wokenDropped"} /\ IsFirst(pc, h)
  <2>1. CASE \E e \in Clients : pc[e] = "waiting"
    BY <2>1 DEF LineIsMoving
  <2>2. CASE ~ \E e \in Clients : pc[e] = "waiting"
    <3>1. ~Free
      BY <2>2, <1>0 DEF TypeOK, InLine
    <3>2. PICK e \in Clients : pc[e] \in {"woken", "wokenDropped"}
      BY <2>2, <3>1 DEF Free, InLine
    <3>3. QED
      BY <3>2, <1>0 DEF WokenIsHead
  <2>3. QED
    BY <2>1, <2>2
<1>2. pc'[h] \in {"woken", "dropped", "wokenDropped"}
  BY <1>0, <1>1 DEF TypeOK, InLine
<1>3. ticket'[h] = ticket[h] /\ ticket[h] < arrivals /\ ticket[h] \in Nat /\ arrivals \in Nat
  BY <1>0, <1>1 DEF TypeOK, InLine, TicketsDistinct
<1>4. ASSUME NEW e \in Clients, pc'[e] \in InLine
      PROVE  ticket'[h] <= ticket'[e]
  <2>1. CASE e = d /\ pc[d] \notin InLine
    BY <2>1, <1>0, <1>3, <1>4 DEF TypeOK, InLine
  <2>2. CASE e # d \/ pc[d] \in InLine
    BY <2>2, <1>0, <1>1, <1>3, <1>4 DEF TypeOK, InLine, IsFirst
  <2>3. QED
    BY <2>1, <2>2
<1>5. QED
  BY <1>2, <1>4 DEF IsFirst

(* No wake-up is lost: a connection that goes free is not left with a line *)
(* nobody will wake, whoever is cancelled, and whenever.                   *)
THEOREM NoLostWakeUp == Spec => []LineIsMoving
<1>1. Init => LineIsMoving
  BY DEF Init, LineIsMoving
<1>2. IInv /\ LineIsMoving /\ [Next]_vars => LineIsMoving'
  <2> SUFFICES ASSUME IInv, LineIsMoving, [Next]_vars PROVE LineIsMoving'
    OBVIOUS
  <2>0. TypeOK
    BY DEF IInv
  <2>1. ASSUME locked' PROVE LineIsMoving'
    BY <2>1 DEF LineIsMoving
  <2>2. ASSUME NEW d \in Clients, NEW x \in Places, pc' = WakeUpFirst([pc EXCEPT ![d] = x]),
               UNCHANGED ticket
        PROVE  LineIsMoving'
    BY <2>0, <2>2, WakingMoves DEF TypeOK
  <2>3. ASSUME UNCHANGED << pc, ticket, locked >>
        PROVE  LineIsMoving'
    BY <2>3 DEF LineIsMoving, IsFirst
  <2>4. ASSUME NEW c \in Calls, CallStep(c)
        PROVE  LineIsMoving'
    <3>0. c \in Clients
      BY DEF Clients
    <3>1. CASE Refuse(c)
      BY <3>0, <3>1, StillMoving DEF Refuse, Places, InLine, Ended
    <3>2. CASE AcquireAtOnce(c) \/ Resume(c)
      BY <3>2, <2>1 DEF AcquireAtOnce, Resume
    <3>3. CASE JoinLine(c)
      BY <3>0, <3>3, StillMoving DEF JoinLine, EnterLine, Places, InLine
    <3>4. CASE CancelWaiting(c)
      BY <3>0, <3>4, StillMoving DEF CancelWaiting, Places, InLine
    <3>5. CASE LeaveLine(c)
      BY <3>0, <3>5, <2>0, <2>1, <2>2 DEF LeaveLine, TypeOK, Places, Ended
    <3>6. CASE WorkerEnters(c)
      BY <3>0, <3>6, StillMoving DEF WorkerEnters, Places, InLine, Holding
    <3>7. CASE WorkerLeaves(c)
      BY <3>0, <3>7, StillMoving DEF WorkerLeaves, Places, InLine, Holding
    <3>8. CASE ReleaseLock(c)
      BY <3>0, <3>8, <2>2 DEF ReleaseLock, Places, Ended
    <3>9. CASE AbandonWorker(c)
      BY <3>9, <2>3 DEF AbandonWorker
    <3>10. QED
      BY <2>4, <3>1, <3>2, <3>3, <3>4, <3>5, <3>6, <3>7, <3>8, <3>9 DEF CallStep
  <2>5. ASSUME NEW d \in Closers, CloserStep(d)
        PROVE  LineIsMoving'
    <3>0. d \in Clients
      BY DEF Clients
    <3>1. CASE CloseNow(d)
      BY <3>0, <3>1, StillMoving DEF CloseNow, Places, InLine, Ended
    <3>2. CASE DeferClose(d)
      BY <3>0, <3>2, StillMoving DEF DeferClose, Places, InLine
    <3>3. CASE CloserArrives(d)
      BY <3>0, <3>3, StillMoving DEF CloserArrives, EnterLine, Places, InLine, Ended
    <3>4. CASE CloserResumes(d)
      BY <3>0, <3>4, <2>2 DEF CloserResumes, Places, Ended
    <3>5. QED
      BY <2>5, <3>1, <3>2, <3>3, <3>4 DEF CloserStep
  <2>6. ASSUME NEW s \in Samplers, SamplerStep(s)
        PROVE  LineIsMoving'
    <3>1. s \in Clients
      BY DEF Clients
    <3>2. CASE SampleStarts(s)
      BY <3>1, <3>2, StillMoving DEF SampleStarts, Places, InLine
    <3>3. CASE SampleEnds(s)
      BY <3>1, <3>3, StillMoving DEF SampleEnds, Places, InLine, Ended
    <3>4. QED
      BY <2>6, <3>2, <3>3 DEF SamplerStep
  <2>7. CASE UNCHANGED vars
    BY <2>3, <2>7 DEF vars
  <2>8. QED
    BY <2>4, <2>5, <2>6, <2>7 DEF Next, AllAnswered
<1>3. QED
  BY <1>1, <1>2, Inductive, PTL DEF Spec

===============================================================================
