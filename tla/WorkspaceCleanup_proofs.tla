----------------------- MODULE WorkspaceCleanup_proofs -----------------------
(***************************************************************************)
(* Proofs about WorkspaceCleanup.  First the registry of stores alone: a   *)
(* directory has one open store at most, and none while it is removed; then*)
(* connects, cleanups and evictions: they keep the registry's rules, so its*)
(* theorems hold of them, and a user's yes is spent on the connection it was*)
(* given for.                                                              *)
(***************************************************************************)
EXTENDS WorkspaceCleanup, FiniteSetTheorems, TLAPS

-----------------------------------------------------------------------------
(* The registry of stores.                                                 *)

(* A directory that is refused has no registered store.                    *)
NoneRegistered == \A d \in Dirs : removing[d] > 0 => handleOf[d] = None

(* Only managers that were made are closed or referred to.                 *)
Made ==
    /\ \A m \in closed : dirOf[m] # None
    /\ \A s \in Sessions : storeOf[s] # None => dirOf[storeOf[s]] # None

SInv ==
    /\ StoreTypeOK
    /\ OneOpenHandle
    /\ CountedIffOpen
    /\ NoneRegistered
    /\ Made

-----------------------------------------------------------------------------
LEMMA StoreInitOK == StoreInit => SInv
<1> SUFFICES ASSUME StoreInit PROVE SInv
  OBVIOUS
<1>1. StoreTypeOK
  BY DEF StoreInit, StoreTypeOK
<1>2. OneOpenHandle
  BY StoreAssumption DEF StoreInit, OneOpenHandle
<1>3. CountedIffOpen /\ NoneRegistered /\ Made
  BY DEF StoreInit, CountedIffOpen, NoneRegistered, Made
<1>4. QED
  BY <1>1, <1>2, <1>3 DEF SInv

-----------------------------------------------------------------------------
(* Opening a directory: a new manager is open on nothing else, and a       *)
(* shared one is already the directory's.                                  *)
LEMMA AcquireKeeps ==
    ASSUME SInv, NEW s \in Sessions, NEW d \in Dirs, Acquire(s, d), live' = live
    PROVE  SInv'
<1>1. PICK m \in Managers :
        /\ IF handleOf[d] = None THEN dirOf[m] = None ELSE m = handleOf[d]
        /\ storeOf' = [storeOf EXCEPT ![s] = m]
        /\ handleOf' = [handleOf EXCEPT ![d] = m]
        /\ dirOf' = [dirOf EXCEPT ![m] = d]
  BY DEF Acquire, Opens
<1>2. /\ refs' = [refs EXCEPT ![d] = @ + 1]
      /\ removing[d] = 0 /\ removing' = removing /\ closed' = closed
  BY DEF Acquire, Opens
<1>3. /\ live \in SUBSET Sessions
      /\ storeOf \in [Sessions -> Managers \cup {None}]
      /\ handleOf \in [Dirs -> Managers \cup {None}]
      /\ refs \in [Dirs -> Nat]
      /\ removing \in [Dirs -> Nat]
      /\ dirOf \in [Managers -> Dirs \cup {None}]
      /\ closed \in SUBSET Managers
  BY DEF SInv, StoreTypeOK
<1>4. StoreTypeOK'
  BY <1>1, <1>2, <1>3 DEF StoreTypeOK
<1>5. m \notin closed /\ \A e \in Dirs : e # d => handleOf[e] # m
  <2>1. CASE handleOf[d] = None
    BY <1>1, <1>3, <2>1, StoreAssumption DEF SInv, Made, OneOpenHandle
  <2>2. CASE handleOf[d] # None
    BY <1>1, <2>2 DEF SInv, OneOpenHandle
  <2>3. QED
    BY <2>1, <2>2
<1>6. OneOpenHandle'
  <2> SUFFICES ASSUME NEW e \in Dirs, NEW n \in Managers
               PROVE  (dirOf'[n] = e /\ n \notin closed) <=> handleOf'[e] = n
    BY <1>2 DEF OneOpenHandle
  <2>1. (dirOf[n] = e /\ n \notin closed) <=> handleOf[e] = n
    BY DEF SInv, OneOpenHandle
  <2>2. CASE n = m
    BY <1>1, <1>3, <1>5, <2>2
  <2>3. CASE n # m
    <3>1. dirOf'[n] = dirOf[n]
      BY <1>1, <1>3, <2>3
    <3>2. CASE e = d
      <4>1. handleOf'[e] = m
        BY <1>1, <1>3, <3>2
      <4>2. handleOf[d] # n
        BY <1>1, <2>1, <2>3, <3>2, StoreAssumption
      <4>3. QED
        BY <2>1, <2>3, <3>1, <3>2, <4>1, <4>2
    <3>3. CASE e # d
      BY <1>1, <1>3, <2>1, <3>1, <3>3
    <3>4. QED
      BY <3>2, <3>3
  <2>4. QED
    BY <2>2, <2>3
<1>7. CountedIffOpen'
  BY <1>1, <1>2, <1>3, StoreAssumption DEF SInv, CountedIffOpen
<1>8. NoneRegistered'
  BY <1>1, <1>2, <1>3 DEF SInv, NoneRegistered
<1>9. Made'
  BY <1>1, <1>2, <1>3, StoreAssumption DEF SInv, Made
<1>10. QED
  BY <1>4, <1>6, <1>7, <1>8, <1>9 DEF SInv

-----------------------------------------------------------------------------
(* Releasing a manager: one that is registered is registered once, and it  *)
(* closes exactly when its directory loses it.                             *)
LEMMA ReleaseKeeps ==
    ASSUME SInv, NEW s \in Sessions, LetGo(s),
           live' \in SUBSET Sessions,
           storeOf' \in {storeOf, [storeOf EXCEPT ![s] = None]}
    PROVE  SInv'
<1>1. /\ live \in SUBSET Sessions
      /\ storeOf \in [Sessions -> Managers \cup {None}]
      /\ handleOf \in [Dirs -> Managers \cup {None}]
      /\ refs \in [Dirs -> Nat]
      /\ removing \in [Dirs -> Nat]
      /\ dirOf \in [Managers -> Dirs \cup {None}]
      /\ closed \in SUBSET Managers
  BY DEF SInv, StoreTypeOK
<1>2. storeOf' \in [Sessions -> Managers \cup {None}]
  BY <1>1
<1>3. \A r \in Sessions : storeOf'[r] # None => storeOf'[r] = storeOf[r]
  BY <1>1
<1>4. CASE storeOf[s] = None
  <2>1. UNCHANGED <<handleOf, refs, removing, dirOf, closed>>
    BY <1>4 DEF LetGo
  <2>2. StoreTypeOK'
    BY <1>1, <1>2, <2>1 DEF StoreTypeOK
  <2>3. Made'
    BY <1>3, <2>1 DEF SInv, Made
  <2>4. QED
    BY <2>1, <2>2, <2>3 DEF SInv, OneOpenHandle, CountedIffOpen, NoneRegistered
<1>5. CASE storeOf[s] # None
  <2> DEFINE m == storeOf[s]
  <2>1. m \in Managers /\ dirOf[m] # None
    BY <1>1, <1>5 DEF SInv, Made
  <2>2. /\ refs' = [d \in Dirs |-> IF d \in Registered(m) THEN refs[d] - 1 ELSE refs[d]]
        /\ handleOf' = [d \in Dirs |-> IF d \in LastHeld(m) THEN None ELSE handleOf[d]]
        /\ closed' = IF Registered(m) = {} \/ LastHeld(m) # {} THEN closed \cup {m}
                     ELSE closed
        /\ removing' = removing /\ dirOf' = dirOf
    BY <1>5 DEF LetGo, ReleaseManager
  <2>3. \A d \in Dirs : d \in Registered(m) <=> handleOf[d] = m
    BY DEF Registered
  <2>4. \A d \in Dirs : d \in LastHeld(m) <=> handleOf[d] = m /\ refs[d] <= 1
    BY <1>1 DEF LastHeld, Registered
  <2>5. \A d \in Dirs : handleOf[d] = m => dirOf[m] = d /\ m \notin closed /\ refs[d] > 0
    BY <2>1, StoreAssumption DEF SInv, OneOpenHandle, CountedIffOpen
  <2>6. LastHeld(m) \in SUBSET Dirs /\ Registered(m) \in SUBSET Dirs
    BY DEF LastHeld, Registered
  <2>7. StoreTypeOK'
    <3>1. refs' \in [Dirs -> Nat]
      BY <1>1, <2>2, <2>3, <2>5
    <3>2. handleOf' \in [Dirs -> Managers \cup {None}]
      BY <1>1, <2>2
    <3>3. closed' \in SUBSET Managers
      BY <1>1, <2>1, <2>2
    <3>4. QED
      BY <1>1, <1>2, <2>2, <3>1, <3>2, <3>3 DEF StoreTypeOK
  <2>8. OneOpenHandle'
    <3> SUFFICES ASSUME NEW e \in Dirs, NEW n \in Managers
                 PROVE  (dirOf'[n] = e /\ n \notin closed') <=> handleOf'[e] = n
      BY DEF OneOpenHandle
    <3>1. (dirOf[n] = e /\ n \notin closed) <=> handleOf[e] = n
      BY DEF SInv, OneOpenHandle
    <3>2. handleOf'[e] = IF e \in LastHeld(m) THEN None ELSE handleOf[e]
      BY <2>2
    <3>3. CASE n # m
      <4>1. n \in closed' <=> n \in closed
        BY <2>2, <3>3
      <4>2. e \in LastHeld(m) => handleOf[e] # n
        BY <2>4, <3>3
      <4>3. handleOf'[e] = n <=> handleOf[e] = n
        BY <3>2, <4>2, StoreAssumption
      <4>4. QED
        BY <2>2, <3>1, <4>1, <4>3
    <3>4. CASE n = m
      <4>1. CASE LastHeld(m) # {}
        <5>1. m \in closed'
          BY <2>2, <4>1
        <5>2. PICK d \in LastHeld(m) : TRUE
          BY <4>1
        <5>3. handleOf[e] = m => e = d
          BY <2>4, <2>5, <2>6, <5>2
        <5>4. handleOf'[e] # m
          BY <2>1, <3>2, <5>2, <5>3, StoreAssumption
        <5>5. QED
          BY <3>4, <5>1, <5>4
      <4>2. CASE LastHeld(m) = {} /\ Registered(m) = {}
        BY <2>2, <2>3, <3>2, <3>4, <4>2
      <4>3. CASE LastHeld(m) = {} /\ Registered(m) # {}
        BY <2>2, <3>1, <3>2, <3>4, <4>3
      <4>4. QED
        BY <4>1, <4>2, <4>3
    <3>5. QED
      BY <3>3, <3>4
  <2>9. CountedIffOpen'
    <3> SUFFICES ASSUME NEW e \in Dirs
                 PROVE  refs'[e] > 0 <=> handleOf'[e] # None
      BY DEF CountedIffOpen
    <3>1. refs[e] > 0 <=> handleOf[e] # None
      BY DEF SInv, CountedIffOpen
    <3>2. QED
      BY <1>1, <2>1, <2>2, <2>3, <2>4, <3>1, StoreAssumption
  <2>10. NoneRegistered'
    BY <2>2 DEF SInv, NoneRegistered
  <2>11. Made'
    BY <1>3, <2>1, <2>2 DEF SInv, Made
  <2>12. QED
    BY <2>7, <2>8, <2>9, <2>10, <2>11 DEF SInv
<1>6. QED
  BY <1>4, <1>5

-----------------------------------------------------------------------------
(* Discarding the store of a directory that is about to be removed.        *)
LEMMA StartRemovingKeeps ==
    ASSUME SInv, NEW d \in Dirs, StartRemoving(d)
    PROVE  SInv'
<1>1. /\ live \in SUBSET Sessions
      /\ storeOf \in [Sessions -> Managers \cup {None}]
      /\ handleOf \in [Dirs -> Managers \cup {None}]
      /\ refs \in [Dirs -> Nat]
      /\ removing \in [Dirs -> Nat]
      /\ dirOf \in [Managers -> Dirs \cup {None}]
      /\ closed \in SUBSET Managers
  BY DEF SInv, StoreTypeOK
<1>2. /\ closed' = IF handleOf[d] = None THEN closed ELSE closed \cup {handleOf[d]}
      /\ storeOf' = [s \in Sessions |->
                        IF s \in live /\ storeOf[s] = handleOf[d] THEN None ELSE storeOf[s]]
      /\ handleOf' = [handleOf EXCEPT ![d] = None]
      /\ refs' = [refs EXCEPT ![d] = 0]
      /\ removing' = [removing EXCEPT ![d] = @ + 1]
      /\ live' = live /\ dirOf' = dirOf
  BY DEF StartRemoving
<1>3. StoreTypeOK'
  BY <1>1, <1>2 DEF StoreTypeOK
<1>4. OneOpenHandle'
  <2> SUFFICES ASSUME NEW e \in Dirs, NEW n \in Managers
               PROVE  (dirOf'[n] = e /\ n \notin closed') <=> handleOf'[e] = n
    BY DEF OneOpenHandle
  <2>1. /\ (dirOf[n] = e /\ n \notin closed) <=> handleOf[e] = n
        /\ (dirOf[n] = d /\ n \notin closed) <=> handleOf[d] = n
    BY DEF SInv, OneOpenHandle
  <2>2. n \in closed' <=> n \in closed \/ handleOf[d] = n
    BY <1>2, StoreAssumption
  <2>3. handleOf'[e] = IF e = d THEN None ELSE handleOf[e]
    BY <1>1, <1>2
  <2>4. QED
    BY <1>2, <2>1, <2>2, <2>3, StoreAssumption
<1>5. CountedIffOpen'
  BY <1>1, <1>2 DEF SInv, CountedIffOpen
<1>6. NoneRegistered'
  BY <1>1, <1>2 DEF SInv, NoneRegistered
<1>7. Made'
  <2>1. handleOf[d] # None => dirOf[handleOf[d]] = d
    BY <1>1 DEF SInv, OneOpenHandle
  <2>2. QED
    BY <1>2, <2>1, StoreAssumption DEF SInv, Made
<1>8. QED
  BY <1>3, <1>4, <1>5, <1>6, <1>7 DEF SInv

-----------------------------------------------------------------------------
LEMMA StoreStep == SInv /\ [StoreNext]_storeVars => SInv'
<1> SUFFICES ASSUME SInv, [StoreNext]_storeVars PROVE SInv'
  OBVIOUS
<1>1. ASSUME NEW s \in Sessions, NEW d \in Dirs, Acquire(s, d), live' = live
      PROVE  SInv'
  BY <1>1, AcquireKeeps
<1>2. ASSUME NEW s \in Sessions, LeaveStore(s) PROVE SInv'
  <2>1. live' \in SUBSET Sessions
    BY <1>2 DEF LeaveStore, SInv, StoreTypeOK
  <2>2. QED
    BY <1>2, <2>1, ReleaseKeeps DEF LeaveStore
<1>3. ASSUME NEW s \in Sessions, DropSession(s) PROVE SInv'
  <2>1. live' \in SUBSET Sessions
    BY <1>3 DEF DropSession, SInv, StoreTypeOK
  <2>2. QED
    BY <1>3, <2>1, ReleaseKeeps DEF DropSession
<1>4. ASSUME NEW s \in Sessions, ForgetStore(s) PROVE SInv'
  <2>1. StoreTypeOK' /\ Made'
    BY <1>4 DEF ForgetStore, SInv, StoreTypeOK, Made
  <2>2. QED
    BY <1>4, <2>1 DEF ForgetStore, SInv, OneOpenHandle, CountedIffOpen, NoneRegistered
<1>5. ASSUME NEW d \in Dirs, StartRemoving(d) PROVE SInv'
  BY <1>5, StartRemovingKeeps
<1>6. ASSUME NEW d \in Dirs, EndRemoving(d) PROVE SInv'
  <2>1. StoreTypeOK'
    BY <1>6 DEF EndRemoving, SInv, StoreTypeOK
  <2>2. NoneRegistered'
    BY <1>6 DEF EndRemoving, SInv, StoreTypeOK, NoneRegistered
  <2>3. QED
    BY <1>6, <2>1, <2>2 DEF EndRemoving, SInv, OneOpenHandle, CountedIffOpen, Made
<1>7. CASE UNCHANGED storeVars
  BY <1>7 DEF storeVars, SInv, StoreTypeOK, OneOpenHandle, CountedIffOpen,
              NoneRegistered, Made
<1>8. QED
  BY <1>1, <1>2, <1>3, <1>4, <1>5, <1>6, <1>7 DEF StoreNext

(* The invariant holds of every sequence of registry operations.           *)
THEOREM StoreInductive == StoreSpec => []SInv
BY StoreInitOK, StoreStep, PTL DEF StoreSpec

(* Whatever sessions open, leave, are dropped with, forget or remove, in   *)
(* whatever order: the registered manager is the one open store of its     *)
(* directory, and nothing is open on a directory between the beginning of  *)
(* the first of its overlapping removals and the end of the last.          *)
THEOREM OneHandle == StoreSpec => []HandlesExclusive
<1>1. SInv => HandlesExclusive
  <2> SUFFICES ASSUME SInv, NEW d \in Dirs, NEW m \in Managers,
                      removing[d] > 0, dirOf[m] = d
               PROVE  m \in closed
    BY DEF HandlesExclusive, ClosedWhileRemoved, SInv
  <2>1. handleOf[d] # m
    BY StoreAssumption DEF SInv, NoneRegistered
  <2>2. QED
    BY <2>1 DEF SInv, OneOpenHandle
<1>2. QED
  BY <1>1, StoreInductive, PTL

-----------------------------------------------------------------------------
(* Live sessions that share the store registered for d.                    *)
Sharing(d) == {s \in live : storeOf[s] # None /\ storeOf[s] = handleOf[d]}

(* Every session that shares a store is counted, and no store is closed    *)
(* under one.  (Holds that nobody has any more may be counted too: see     *)
(* ForgetStore.)                                                           *)
Kept ==
    /\ \A d \in Dirs : Cardinality(Sharing(d)) <= refs[d]
    /\ NoneClosed

LEMMA SharingFinite ==
    ASSUME SInv, NEW d
    PROVE  IsFiniteSet(Sharing(d)) /\ Cardinality(Sharing(d)) \in Nat
<1>1. Sharing(d) \subseteq Sessions
  BY DEF Sharing, SInv, StoreTypeOK
<1>2. QED
  BY <1>1, FS_Subset, FS_CardinalityType, StoreAssumption

(* A set of sharers that shrinks is still covered.                         *)
LEMMA FewerSharers ==
    ASSUME SInv, NEW d, NEW S, S \subseteq Sharing(d)
    PROVE  IsFiniteSet(S) /\ Cardinality(S) \in Nat
           /\ Cardinality(S) <= Cardinality(Sharing(d))
BY SharingFinite, FS_Subset, FS_CardinalityType

(* A session's store, if it is open, is registered for its directory and   *)
(* for no other.                                                           *)
LEMMA StoreRegistered ==
    ASSUME SInv, NEW s \in Sessions, storeOf[s] # None, storeOf[s] \notin closed
    PROVE  \E d \in Dirs : Registered(storeOf[s]) = {d}
<1> DEFINE m == storeOf[s]
<1>1. m \in Managers /\ dirOf[m] \in Dirs
  BY DEF SInv, StoreTypeOK, Made
<1>2. handleOf[dirOf[m]] = m
  BY <1>1 DEF SInv, OneOpenHandle
<1>3. \A e \in Dirs : handleOf[e] = m => e = dirOf[m]
  BY <1>1 DEF SInv, OneOpenHandle
<1>4. Registered(m) = {dirOf[m]}
  BY <1>1, <1>2, <1>3 DEF Registered
<1>5. QED
  BY <1>1, <1>4

LEMMA AcquireCovers ==
    ASSUME SInv, Kept, NEW s \in live, NEW d \in Dirs, Acquire(s, d), live' = live
    PROVE  Kept'
<1>0. s \in Sessions
  BY DEF SInv, StoreTypeOK
<1>1. PICK m \in Managers :
        /\ IF handleOf[d] = None THEN dirOf[m] = None ELSE m = handleOf[d]
        /\ storeOf' = [storeOf EXCEPT ![s] = m]
        /\ handleOf' = [handleOf EXCEPT ![d] = m]
        /\ refs' = [refs EXCEPT ![d] = @ + 1]
        /\ closed' = closed
        /\ storeOf[s] = None
  BY DEF Acquire, Opens
<1>2. m \notin closed
  BY <1>1 DEF SInv, Made, OneOpenHandle
<1>3. \A e \in Dirs : e # d => handleOf[e] # m
  BY <1>1, StoreAssumption DEF SInv, OneOpenHandle
<1>4. \A t \in live : t # s /\ storeOf[t] = m => handleOf[d] = m
  BY <1>1, StoreAssumption DEF SInv, Made, StoreTypeOK
<1>5. NoneClosed'
  BY <1>0, <1>1, <1>2 DEF Kept, NoneClosed, SInv, StoreTypeOK
<1>6. ASSUME NEW e \in Dirs PROVE (Cardinality(Sharing(e)) <= refs[e])'
  <2>1. CASE e = d
    <3>1. Sharing(e)' = Sharing(e) \cup {s} /\ s \notin Sharing(e)
      BY <1>0, <1>1, <1>4, <2>1, StoreAssumption DEF Sharing, SInv, StoreTypeOK
    <3>2. Cardinality(Sharing(e) \cup {s}) = Cardinality(Sharing(e)) + 1
      BY <3>1, SharingFinite, FS_AddElement
    <3>3. refs[e] \in Nat /\ refs'[e] = refs[e] + 1
      BY <1>1, <2>1 DEF SInv, StoreTypeOK
    <3>4. Cardinality(Sharing(e)) <= refs[e] /\ Cardinality(Sharing(e)) \in Nat
      BY SharingFinite DEF Kept
    <3>5. QED
      BY <3>1, <3>2, <3>3, <3>4
  <2>2. CASE e # d
    <3>1. Sharing(e)' = Sharing(e)
      BY <1>0, <1>1, <1>3, <2>2 DEF Sharing, SInv, StoreTypeOK
    <3>2. refs'[e] = refs[e]
      BY <1>1, <2>2 DEF SInv, StoreTypeOK
    <3>3. QED
      BY <3>1, <3>2 DEF Kept
  <2>3. QED
    BY <2>1, <2>2
<1>7. QED
  BY <1>5, <1>6 DEF Kept

(* A live session lets go of its store, and forgets it or is dropped.      *)
LEMMA LetGoCovers ==
    ASSUME SInv, Kept, NEW s \in live, LetGo(s),
           \/ live' = live \ {s} /\ storeOf' = storeOf
           \/ live' = live /\ storeOf' = [storeOf EXCEPT ![s] = None]
    PROVE  Kept'
<1>0. s \in Sessions /\ live \subseteq Sessions
  BY DEF SInv, StoreTypeOK
<1>1. \A t : t \in live' /\ storeOf'[t] # None => t \in live /\ t # s /\ storeOf'[t] = storeOf[t]
  BY <1>0 DEF SInv, StoreTypeOK
<1>2. CASE storeOf[s] = None
  <2>1. handleOf' = handleOf /\ refs' = refs /\ closed' = closed
    BY <1>2 DEF LetGo
  <2>2. NoneClosed'
    BY <1>1, <2>1 DEF Kept, NoneClosed
  <2>3. ASSUME NEW e \in Dirs PROVE (Cardinality(Sharing(e)) <= refs[e])'
    <3>1. Sharing(e)' \subseteq Sharing(e)
      BY <1>1, <2>1 DEF Sharing
    <3>2. QED
      BY <3>1, <2>1, FewerSharers, SharingFinite DEF Kept, SInv, StoreTypeOK
  <2>4. QED
    BY <2>2, <2>3 DEF Kept
<1>3. CASE storeOf[s] # None
  <2> DEFINE m == storeOf[s]
  <2>1. m \notin closed /\ m \in Managers
    BY <1>0, <1>3 DEF Kept, NoneClosed, SInv, StoreTypeOK
  <2>2. PICK d \in Dirs : Registered(m) = {d}
    BY <1>0, <1>3, <2>1, StoreRegistered
  <2>3. handleOf[d] = m /\ \A e \in Dirs : e # d => handleOf[e] # m
    BY <2>2 DEF Registered
  <2>4. /\ refs' = [e \in Dirs |-> IF e = d THEN refs[e] - 1 ELSE refs[e]]
        /\ handleOf' = [e \in Dirs |-> IF e \in LastHeld(m) THEN None ELSE handleOf[e]]
        /\ closed' = IF LastHeld(m) # {} THEN closed \cup {m} ELSE closed
    BY <1>3, <2>2 DEF LetGo, ReleaseManager
  <2>5. LastHeld(m) = IF refs[d] - 1 <= 0 THEN {d} ELSE {}
    BY <2>2 DEF LastHeld
  <2>6. s \in Sharing(d)
    BY <1>3, <2>3 DEF Sharing
  <2>7. /\ Cardinality(Sharing(d) \ {s}) = Cardinality(Sharing(d)) - 1
        /\ IsFiniteSet(Sharing(d) \ {s})
    BY <2>6, SharingFinite, FS_RemoveElement
  <2>8. Cardinality(Sharing(d) \ {s}) \in Nat
    BY <2>7, FS_CardinalityType
  <2>9. refs[d] \in Nat /\ Cardinality(Sharing(d)) <= refs[d]
        /\ Cardinality(Sharing(d)) \in Nat
    BY SharingFinite DEF Kept, SInv, StoreTypeOK
  <2>10. refs[d] - 1 <= 0 => Sharing(d) \ {s} = {}
    BY <2>7, <2>8, <2>9, FS_EmptySet
  <2>11. NoneClosed'
    <3> SUFFICES ASSUME NEW t \in live', storeOf'[t] # None
                 PROVE  storeOf'[t] \notin closed'
      BY DEF NoneClosed
    <3>1. t \in live /\ t # s /\ storeOf'[t] = storeOf[t] /\ storeOf[t] \notin closed
      BY <1>1 DEF Kept, NoneClosed
    <3>2. CASE refs[d] - 1 <= 0
      <4>1. storeOf[t] # m
        BY <2>3, <2>10, <3>1, <3>2 DEF Sharing
      <4>2. QED
        BY <2>4, <3>1, <4>1
    <3>3. CASE ~(refs[d] - 1 <= 0)
      BY <2>4, <2>5, <3>1, <3>3
    <3>4. QED
      BY <3>2, <3>3
  <2>12. ASSUME NEW e \in Dirs PROVE (Cardinality(Sharing(e)) <= refs[e])'
    <3>1. Sharing(e)' \subseteq Sharing(e) \ {s}
      BY <1>1, <2>4 DEF Sharing
    <3>2. CASE e = d
      <4>1. Cardinality(Sharing(e)') <= Cardinality(Sharing(d) \ {s})
            /\ Cardinality(Sharing(e)') \in Nat
        BY <2>7, <3>1, <3>2, FS_Subset, FS_CardinalityType
      <4>2. refs'[e] = refs[e] - 1
        BY <2>4, <3>2
      <4>3. QED
        BY <4>1, <4>2, <2>7, <2>9, <3>2
    <3>3. CASE e # d
      <4>1. Cardinality(Sharing(e)') <= Cardinality(Sharing(e))
            /\ Cardinality(Sharing(e)') \in Nat
        BY <3>1, FewerSharers
      <4>2. refs'[e] = refs[e]
        BY <2>4, <3>3
      <4>3. QED
        BY <4>1, <4>2, SharingFinite DEF Kept, SInv, StoreTypeOK
    <3>4. QED
      BY <3>2, <3>3
  <2>13. QED
    BY <2>11, <2>12 DEF Kept
<1>4. QED
  BY <1>2, <1>3

LEMMA ForgetCovers ==
    ASSUME SInv, Kept, NEW s \in Sessions, ForgetStore(s)
    PROVE  Kept'
<1>1. \A t : t \in live /\ storeOf'[t] # None => storeOf'[t] = storeOf[t]
  BY DEF ForgetStore, SInv, StoreTypeOK
<1>2. NoneClosed'
  BY <1>1 DEF ForgetStore, Kept, NoneClosed
<1>3. ASSUME NEW e \in Dirs PROVE (Cardinality(Sharing(e)) <= refs[e])'
  <2>1. Sharing(e)' \subseteq Sharing(e)
    BY <1>1 DEF ForgetStore, Sharing
  <2>2. Cardinality(Sharing(e)') <= Cardinality(Sharing(e))
        /\ Cardinality(Sharing(e)') \in Nat
    BY <2>1, FewerSharers
  <2>3. QED
    BY <2>2, SharingFinite DEF ForgetStore, Kept, SInv, StoreTypeOK
<1>4. QED
  BY <1>2, <1>3 DEF Kept

LEMMA StartRemovingCovers ==
    ASSUME SInv, Kept, NEW d \in Dirs, StartRemoving(d)
    PROVE  Kept'
<1>1. \A t \in live : storeOf'[t] # None =>
            storeOf'[t] = storeOf[t] /\ storeOf[t] # handleOf[d]
  BY DEF StartRemoving, SInv, StoreTypeOK
<1>2. NoneClosed'
  BY <1>1 DEF StartRemoving, Kept, NoneClosed
<1>3. ASSUME NEW e \in Dirs PROVE (Cardinality(Sharing(e)) <= refs[e])'
  <2>1. CASE e = d
    <3>1. Sharing(e)' = {}
      BY <2>1 DEF StartRemoving, Sharing, SInv, StoreTypeOK
    <3>2. refs'[e] = 0
      BY <2>1 DEF StartRemoving, SInv, StoreTypeOK
    <3>3. QED
      BY <3>1, <3>2, FS_EmptySet
  <2>2. CASE e # d
    <3>1. Sharing(e)' \subseteq Sharing(e) /\ refs'[e] = refs[e]
      BY <1>1, <2>2 DEF StartRemoving, Sharing, SInv, StoreTypeOK
    <3>2. Cardinality(Sharing(e)') <= Cardinality(Sharing(e))
          /\ Cardinality(Sharing(e)') \in Nat
      BY <3>1, FewerSharers
    <3>3. QED
      BY <3>1, <3>2, SharingFinite DEF Kept, SInv, StoreTypeOK
  <2>3. QED
    BY <2>1, <2>2
<1>4. QED
  BY <1>2, <1>3 DEF Kept

-----------------------------------------------------------------------------
(* Connects, cleanups and evictions.                                       *)

(* What the state of the calls is made of.                                 *)
CallsOK ==
    /\ connection \in [Sessions -> Databases \cup {None}]
    /\ binding \in [Sessions -> Calls \cup {None}]
    /\ pc \in [Calls -> Points]
    /\ at \in [Calls -> Sessions \cup {None}]
    /\ goal \in [Calls -> Databases \cup {None}]
    /\ said \in [Calls -> Databases \cup {None}]
    /\ removal \in [Calls -> {"none", "created", "running", "ended"}]
    /\ target \in [Calls -> Databases \cup {None}]
    /\ closing \in Sessions \cup {None}
    /\ overtaken \in BOOLEAN

(* A call in flight has what its next step needs.                          *)
CallReady(c) ==
    /\ InFlight(c) => at[c] \in Sessions
    /\ c \in Connects /\ pc[c] \in {"binding", "connecting", "clearing"}
            => goal[c] \in Databases
    /\ removal[c] # "none" => target[c] \in Databases

(* A yes is given once, after the question, and carried to the removal.    *)
YesCarried(c) ==
    /\ pc[c] \in {"new", "asking"} => said[c] = None
    /\ pc[c] \in {"new", "asking", "queued", "locked"} => removal[c] = "none"
    /\ pc[c] \in {"queued", "locked"} /\ said[c] # None => goal[c] = said[c]
    /\ removal[c] # "none" /\ said[c] # None => target[c] = said[c]

WInv ==
    /\ CallsOK
    /\ \A c \in Calls : CallReady(c)
    /\ \A c \in Cleanups : YesCarried(c)

LEMMA Kinds ==
    /\ Connects \subseteq Calls /\ Cleanups \subseteq Calls
    /\ Connects \cap Cleanups = {}
    /\ None \notin Sessions /\ None \notin Calls /\ None \notin Databases
    /\ Databases \subseteq Dirs /\ Legacy \in Dirs
BY CleanupAssumption, StoreAssumption DEF Calls

LEMMA ConnectBeginsKeeps ==
    ASSUME WInv, NEW c \in Connects, ConnectBegins(c)
    PROVE  WInv'
<1> USE DEF ConnectBegins, TakeBinding
<1>1. CallsOK'
  BY Kinds DEF WInv, CallsOK, Points, callVars, removalVars, evictVars
<1>2. ASSUME NEW e \in Calls PROVE CallReady(e)'
  BY Kinds DEF WInv, CallsOK, CallReady, InFlight, callVars, removalVars
<1>3. ASSUME NEW e \in Cleanups PROVE YesCarried(e)'
  BY Kinds DEF WInv, CallsOK, YesCarried, callVars, removalVars
<1>4. QED
  BY <1>1, <1>2, <1>3 DEF WInv

LEMMA ConnectFailsKeeps ==
    ASSUME WInv, NEW c \in Connects, ConnectFails(c)
    PROVE  WInv'
<1> USE DEF ConnectFails, Answer
<1>1. CallsOK'
  BY Kinds DEF WInv, CallsOK, Points, callVars, removalVars, evictVars
<1>2. ASSUME NEW e \in Calls PROVE CallReady(e)'
  BY Kinds DEF WInv, CallsOK, CallReady, InFlight, callVars, removalVars
<1>3. ASSUME NEW e \in Cleanups PROVE YesCarried(e)'
  BY Kinds DEF WInv, CallsOK, YesCarried, callVars, removalVars
<1>4. QED
  BY <1>1, <1>2, <1>3 DEF WInv

LEMMA ConnectSucceedsKeeps ==
    ASSUME WInv, NEW c \in Connects, ConnectSucceeds(c)
    PROVE  WInv'
<1> USE DEF ConnectSucceeds, BindTo
<1>1. CallsOK'
  BY Kinds DEF WInv, CallsOK, Points, callVars, removalVars, evictVars
<1>2. ASSUME NEW e \in Calls PROVE CallReady(e)'
  BY Kinds DEF WInv, CallsOK, CallReady, InFlight, callVars, removalVars
<1>3. ASSUME NEW e \in Cleanups PROVE YesCarried(e)'
  BY Kinds DEF WInv, CallsOK, YesCarried, callVars, removalVars
<1>4. QED
  BY <1>1, <1>2, <1>3 DEF WInv

LEMMA ClearedThenBoundKeeps ==
    ASSUME WInv, NEW c \in Connects, ClearedThenBound(c)
    PROVE  WInv'
<1> USE DEF ClearedThenBound, BindTo
<1>1. CallsOK'
  BY Kinds DEF WInv, CallsOK, Points, callVars, removalVars, evictVars
<1>2. ASSUME NEW e \in Calls PROVE CallReady(e)'
  BY Kinds DEF WInv, CallsOK, CallReady, InFlight, callVars, removalVars
<1>3. ASSUME NEW e \in Cleanups PROVE YesCarried(e)'
  BY Kinds DEF WInv, CallsOK, YesCarried, callVars, removalVars
<1>4. QED
  BY <1>1, <1>2, <1>3 DEF WInv

LEMMA ConnectEndsKeeps ==
    ASSUME WInv, NEW c \in Connects, ConnectEnds(c)
    PROVE  WInv'
<1> USE DEF ConnectEnds, Answer
<1>1. CallsOK'
  BY Kinds DEF WInv, CallsOK, Points, callVars, removalVars, evictVars
<1>2. ASSUME NEW e \in Calls PROVE CallReady(e)'
  BY Kinds DEF WInv, CallsOK, CallReady, InFlight, callVars, removalVars
<1>3. ASSUME NEW e \in Cleanups PROVE YesCarried(e)'
  BY Kinds DEF WInv, CallsOK, YesCarried, callVars, removalVars
<1>4. QED
  BY <1>1, <1>2, <1>3 DEF WInv

LEMMA RefusedKeeps ==
    ASSUME WInv, NEW c \in Calls, Refused(c)
    PROVE  WInv'
<1> USE DEF Refused, Answer
<1>1. CallsOK'
  BY Kinds DEF WInv, CallsOK, Points, callVars, removalVars, evictVars
<1>2. ASSUME NEW e \in Calls PROVE CallReady(e)'
  BY Kinds DEF WInv, CallsOK, CallReady, InFlight, callVars, removalVars
<1>3. ASSUME NEW e \in Cleanups PROVE YesCarried(e)'
  BY Kinds DEF WInv, CallsOK, YesCarried, callVars, removalVars
<1>4. QED
  BY <1>1, <1>2, <1>3 DEF WInv

LEMMA AgreedKeeps ==
    ASSUME WInv, NEW c \in Cleanups, Agreed(c)
    PROVE  WInv'
<1> USE DEF Agreed
<1>1. CallsOK'
  BY Kinds DEF WInv, CallsOK, Points, callVars, removalVars, evictVars
<1>2. ASSUME NEW e \in Calls PROVE CallReady(e)'
  BY Kinds DEF WInv, CallsOK, CallReady, InFlight, callVars, removalVars
<1>3. ASSUME NEW e \in Cleanups PROVE YesCarried(e)'
  BY Kinds DEF WInv, CallsOK, YesCarried, callVars, removalVars
<1>4. QED
  BY <1>1, <1>2, <1>3 DEF WInv

LEMMA DeclinedKeeps ==
    ASSUME WInv, NEW c \in Cleanups, Declined(c)
    PROVE  WInv'
<1> USE DEF Declined, Answer
<1>1. CallsOK'
  BY Kinds DEF WInv, CallsOK, Points, callVars, removalVars, evictVars
<1>2. ASSUME NEW e \in Calls PROVE CallReady(e)'
  BY Kinds DEF WInv, CallsOK, CallReady, InFlight, callVars, removalVars
<1>3. ASSUME NEW e \in Cleanups PROVE YesCarried(e)'
  BY Kinds DEF WInv, CallsOK, YesCarried, callVars, removalVars
<1>4. QED
  BY <1>1, <1>2, <1>3 DEF WInv

LEMMA CleanupBeginsKeeps ==
    ASSUME WInv, NEW c \in Cleanups, CleanupBegins(c)
    PROVE  WInv'
<1> USE DEF CleanupBegins, TakeBinding
<1>1. CallsOK'
  BY Kinds DEF WInv, CallsOK, Points, callVars, removalVars, evictVars
<1>2. ASSUME NEW e \in Calls PROVE CallReady(e)'
  BY Kinds DEF WInv, CallsOK, CallReady, InFlight, callVars, removalVars
<1>3. ASSUME NEW e \in Cleanups PROVE YesCarried(e)'
  BY Kinds DEF WInv, CallsOK, YesCarried, callVars, removalVars
<1>4. QED
  BY <1>1, <1>2, <1>3 DEF WInv

LEMMA NothingDeletedKeeps ==
    ASSUME WInv, NEW c \in Cleanups, NothingDeleted(c)
    PROVE  WInv'
<1> USE DEF NothingDeleted, Answer
<1>1. CallsOK'
  BY Kinds DEF WInv, CallsOK, Points, callVars, removalVars, evictVars
<1>2. ASSUME NEW e \in Calls PROVE CallReady(e)'
  BY Kinds DEF WInv, CallsOK, CallReady, InFlight, callVars, removalVars
<1>3. ASSUME NEW e \in Cleanups PROVE YesCarried(e)'
  BY Kinds DEF WInv, CallsOK, YesCarried, callVars, removalVars
<1>4. QED
  BY <1>1, <1>2, <1>3 DEF WInv

LEMMA StartRemovalKeeps ==
    ASSUME WInv, NEW c \in Cleanups, StartRemoval(c)
    PROVE  WInv'
<1> USE DEF StartRemoval, StillValid
<1>1. CallsOK'
  <2>1. connection[at[c]] \in Databases \cup {None}
    BY DEF WInv, CallsOK, CallReady, InFlight, Calls
  <2>2. QED
    BY <2>1, Kinds DEF WInv, CallsOK, Points, callVars, removalVars, evictVars
<1>2. ASSUME NEW e \in Calls PROVE CallReady(e)'
  BY Kinds DEF WInv, CallsOK, CallReady, InFlight, callVars, removalVars
<1>3. ASSUME NEW e \in Cleanups PROVE YesCarried(e)'
  BY Kinds DEF WInv, CallsOK, YesCarried, callVars, removalVars
<1>4. QED
  BY <1>1, <1>2, <1>3 DEF WInv

LEMMA RemovalBeginsKeeps ==
    ASSUME WInv, NEW c \in Cleanups, RemovalBegins(c)
    PROVE  WInv'
<1> USE DEF RemovalBegins
<1>1. CallsOK'
  BY Kinds DEF WInv, CallsOK, Points, callVars, removalVars, evictVars
<1>2. ASSUME NEW e \in Calls PROVE CallReady(e)'
  BY Kinds DEF WInv, CallsOK, CallReady, InFlight, callVars, removalVars
<1>3. ASSUME NEW e \in Cleanups PROVE YesCarried(e)'
  BY Kinds DEF WInv, CallsOK, YesCarried, callVars, removalVars
<1>4. QED
  BY <1>1, <1>2, <1>3 DEF WInv

LEMMA RemovalEndsKeeps ==
    ASSUME WInv, NEW c \in Cleanups, RemovalEnds(c)
    PROVE  WInv'
<1> USE DEF RemovalEnds
<1>1. CallsOK'
  BY Kinds DEF WInv, CallsOK, Points, callVars, removalVars, evictVars
<1>2. ASSUME NEW e \in Calls PROVE CallReady(e)'
  BY Kinds DEF WInv, CallsOK, CallReady, InFlight, callVars, removalVars
<1>3. ASSUME NEW e \in Cleanups PROVE YesCarried(e)'
  BY Kinds DEF WInv, CallsOK, YesCarried, callVars, removalVars
<1>4. QED
  BY <1>1, <1>2, <1>3 DEF WInv

LEMMA CleanupEndsKeeps ==
    ASSUME WInv, NEW c \in Cleanups, CleanupEnds(c)
    PROVE  WInv'
<1> USE DEF CleanupEnds, Answer
<1>1. CallsOK'
  BY Kinds DEF WInv, CallsOK, Points, callVars, removalVars, evictVars
<1>2. ASSUME NEW e \in Calls PROVE CallReady(e)'
  BY Kinds DEF WInv, CallsOK, CallReady, InFlight, callVars, removalVars
<1>3. ASSUME NEW e \in Cleanups PROVE YesCarried(e)'
  BY Kinds DEF WInv, CallsOK, YesCarried, callVars, removalVars
<1>4. QED
  BY <1>1, <1>2, <1>3 DEF WInv

LEMMA CancelCleanupKeeps ==
    ASSUME WInv, NEW c \in Cleanups, CancelCleanup(c)
    PROVE  WInv'
<1> USE DEF CancelCleanup, Answer
<1>1. CallsOK'
  BY Kinds DEF WInv, CallsOK, Points, callVars, removalVars, evictVars
<1>2. ASSUME NEW e \in Calls PROVE CallReady(e)'
  BY Kinds DEF WInv, CallsOK, CallReady, InFlight, callVars, removalVars
<1>3. ASSUME NEW e \in Cleanups PROVE YesCarried(e)'
  BY Kinds DEF WInv, CallsOK, YesCarried, callVars, removalVars
<1>4. QED
  BY <1>1, <1>2, <1>3 DEF WInv

LEMMA StartConnectKeeps ==
    ASSUME WInv, NEW c \in Connects, NEW s \in Sessions, NEW d \in Databases,
           StartConnect(c, s, d)
    PROVE  WInv'
<1> USE DEF StartConnect
<1>1. CallsOK'
  BY Kinds DEF WInv, CallsOK, Points, callVars, removalVars, evictVars
<1>2. ASSUME NEW e \in Calls PROVE CallReady(e)'
  BY Kinds DEF WInv, CallsOK, CallReady, InFlight, callVars, removalVars
<1>3. ASSUME NEW e \in Cleanups PROVE YesCarried(e)'
  BY Kinds DEF WInv, CallsOK, YesCarried, callVars, removalVars
<1>4. QED
  BY <1>1, <1>2, <1>3 DEF WInv

LEMMA ConfirmKeeps ==
    ASSUME WInv, NEW c \in Cleanups, NEW s \in Sessions, Confirm(c, s)
    PROVE  WInv'
<1> USE DEF Confirm
<1>1. CallsOK'
  BY Kinds DEF WInv, CallsOK, Points, callVars, removalVars, evictVars
<1>2. ASSUME NEW e \in Calls PROVE CallReady(e)'
  BY Kinds DEF WInv, CallsOK, CallReady, InFlight, callVars, removalVars
<1>3. ASSUME NEW e \in Cleanups PROVE YesCarried(e)'
  BY Kinds DEF WInv, CallsOK, YesCarried, callVars, removalVars
<1>4. QED
  BY <1>1, <1>2, <1>3 DEF WInv

LEMMA AskedAgainKeeps ==
    ASSUME WInv, NEW c \in Cleanups, NEW s \in Sessions, AskedAgain(c, s)
    PROVE  WInv'
<1> USE DEF AskedAgain
<1>1. CallsOK'
  BY Kinds DEF WInv, CallsOK, Points, callVars, removalVars, evictVars
<1>2. ASSUME NEW e \in Calls PROVE CallReady(e)'
  BY Kinds DEF WInv, CallsOK, CallReady, InFlight, callVars, removalVars
<1>3. ASSUME NEW e \in Cleanups PROVE YesCarried(e)'
  BY Kinds DEF WInv, CallsOK, YesCarried, callVars, removalVars
<1>4. QED
  BY <1>1, <1>2, <1>3 DEF WInv

LEMMA OpenStoreKeeps ==
    ASSUME WInv, NEW s \in Sessions, OpenStore(s)
    PROVE  WInv'
<1> USE DEF OpenStore
<1>1. CallsOK'
  BY Kinds DEF WInv, CallsOK, Points, callVars, removalVars, evictVars
<1>2. ASSUME NEW e \in Calls PROVE CallReady(e)'
  BY Kinds DEF WInv, CallsOK, CallReady, InFlight, callVars, removalVars
<1>3. ASSUME NEW e \in Cleanups PROVE YesCarried(e)'
  BY Kinds DEF WInv, CallsOK, YesCarried, callVars, removalVars
<1>4. QED
  BY <1>1, <1>2, <1>3 DEF WInv

LEMMA EvictNowKeeps ==
    ASSUME WInv, NEW s \in Sessions, EvictNow(s)
    PROVE  WInv'
<1> USE DEF EvictNow, Dropped
<1>1. CallsOK'
  BY Kinds DEF WInv, CallsOK, Points, callVars, removalVars, evictVars
<1>2. ASSUME NEW e \in Calls PROVE CallReady(e)'
  BY Kinds DEF WInv, CallsOK, CallReady, InFlight, callVars, removalVars
<1>3. ASSUME NEW e \in Cleanups PROVE YesCarried(e)'
  BY Kinds DEF WInv, CallsOK, YesCarried, callVars, removalVars
<1>4. QED
  BY <1>1, <1>2, <1>3 DEF WInv

LEMMA EvictWaitsKeeps ==
    ASSUME WInv, NEW s \in Sessions, EvictWaits(s)
    PROVE  WInv'
<1> USE DEF EvictWaits
<1>1. CallsOK'
  BY Kinds DEF WInv, CallsOK, Points, callVars, removalVars, evictVars
<1>2. ASSUME NEW e \in Calls PROVE CallReady(e)'
  BY Kinds DEF WInv, CallsOK, CallReady, InFlight, callVars, removalVars
<1>3. ASSUME NEW e \in Cleanups PROVE YesCarried(e)'
  BY Kinds DEF WInv, CallsOK, YesCarried, callVars, removalVars
<1>4. QED
  BY <1>1, <1>2, <1>3 DEF WInv

LEMMA EvictEndsKeeps ==
    ASSUME WInv, EvictEnds
    PROVE  WInv'
<1> USE DEF EvictEnds, Dropped
<1>1. CallsOK'
  BY Kinds DEF WInv, CallsOK, Points, callVars, removalVars, evictVars
<1>2. ASSUME NEW e \in Calls PROVE CallReady(e)'
  BY Kinds DEF WInv, CallsOK, CallReady, InFlight, callVars, removalVars
<1>3. ASSUME NEW e \in Cleanups PROVE YesCarried(e)'
  BY Kinds DEF WInv, CallsOK, YesCarried, callVars, removalVars
<1>4. QED
  BY <1>1, <1>2, <1>3 DEF WInv

-----------------------------------------------------------------------------
LEMMA CleanupInit == Init => WInv
<1>1. Init => CallsOK
  <2> SUFFICES ASSUME Init PROVE CallsOK
    OBVIOUS
  <2>1. connection \in [Sessions -> Databases \cup {None}]
        /\ binding \in [Sessions -> Calls \cup {None}] /\ at \in [Calls -> Sessions \cup {None}]
    BY DEF Init
  <2>2. /\ goal \in [Calls -> Databases \cup {None}]
        /\ said \in [Calls -> Databases \cup {None}]
        /\ target \in [Calls -> Databases \cup {None}]
    BY DEF Init
  <2>3. pc \in [Calls -> Points]
        /\ removal \in [Calls -> {"none", "created", "running", "ended"}]
    BY DEF Init, Points
  <2>4. QED
    BY <2>1, <2>2, <2>3 DEF Init, CallsOK
<1>2. Init => \A c \in Calls : CallReady(c)
  BY Kinds DEF Init, CallReady, InFlight
<1>3. Init => \A c \in Cleanups : YesCarried(c)
  BY Kinds DEF Init, YesCarried
<1>4. QED
  BY <1>1, <1>2, <1>3 DEF WInv

LEMMA CleanupStep == WInv /\ [Next]_vars => WInv'
<1> SUFFICES ASSUME WInv, [Next]_vars PROVE WInv'
  OBVIOUS
<1>1. ASSUME NEW s \in Sessions, OpenStore(s) PROVE WInv'
  BY <1>1, OpenStoreKeeps
<1>2. ASSUME NEW c \in Connects, ConnectNext(c) PROVE WInv'
  BY <1>2, Kinds, StartConnectKeeps, ConnectBeginsKeeps, ConnectFailsKeeps,
     ConnectSucceedsKeeps, ClearedThenBoundKeeps, ConnectEndsKeeps, RefusedKeeps
     DEF ConnectNext
<1>3. ASSUME NEW c \in Cleanups, CleanupNext(c) PROVE WInv'
  BY <1>3, Kinds, ConfirmKeeps, AskedAgainKeeps, AgreedKeeps, DeclinedKeeps,
     CleanupBeginsKeeps, NothingDeletedKeeps, StartRemovalKeeps, RemovalBeginsKeeps,
     RemovalEndsKeeps, CleanupEndsKeeps, CancelCleanupKeeps, RefusedKeeps
     DEF CleanupNext
<1>4. ASSUME EvictorNext PROVE WInv'
  BY <1>4, EvictEndsKeeps, EvictNowKeeps, EvictWaitsKeeps DEF EvictorNext
<1>5. CASE UNCHANGED vars
  BY <1>5 DEF vars, callVars, removalVars, evictVars, WInv, CallsOK, CallReady,
              YesCarried, InFlight
<1>6. QED
  BY <1>1, <1>2, <1>3, <1>4, <1>5 DEF Next, AllAnswered

(* Every step is an operation of the registry, or leaves it alone.         *)
LEMMA StepIsStoreStep == WInv /\ [Next]_vars => [StoreNext]_storeVars
<1> SUFFICES ASSUME WInv, [Next]_vars PROVE [StoreNext]_storeVars
  OBVIOUS
<1>1. ASSUME NEW s \in Sessions, OpenStore(s) PROVE StoreNext
  <2>1. StoreDir(s) \in Dirs
    BY Kinds DEF StoreDir, WInv, CallsOK
  <2>2. QED
    BY <1>1, <2>1 DEF OpenStore, StoreNext
<1>2. ASSUME NEW c \in Connects, ConnectNext(c) PROVE [StoreNext]_storeVars
  <2>1. ASSUME NEW s \in Sessions, NEW clear, BindTo(c, s, clear)
        PROVE  [StoreNext]_storeVars
    BY <2>1 DEF BindTo, StoreNext
  <2>2. CASE ConnectSucceeds(c)
    BY <2>1, <2>2 DEF ConnectSucceeds
  <2>3. CASE ClearedThenBound(c)
    <3>1. at[c] \in Sessions
      BY <2>3, Kinds DEF ClearedThenBound, WInv, CallReady, InFlight
    <3>2. QED
      BY <2>1, <2>3, <3>1 DEF ClearedThenBound
  <2>4. CASE ConnectBegins(c) \/ ConnectFails(c) \/ ConnectEnds(c) \/ Refused(c)
    BY <2>4 DEF ConnectBegins, TakeBinding, ConnectFails, ConnectEnds, Refused
  <2>5. CASE \E s \in Sessions, d \in Databases : StartConnect(c, s, d)
    BY <2>5 DEF StartConnect
  <2>6. QED
    BY <1>2, <2>2, <2>3, <2>4, <2>5 DEF ConnectNext
<1>3. ASSUME NEW c \in Cleanups, CleanupNext(c) PROVE [StoreNext]_storeVars
  <2>1. CASE RemovalBegins(c) \/ RemovalEnds(c)
    <3>1. target[c] \in Dirs
      BY <2>1, Kinds DEF RemovalBegins, RemovalEnds, WInv, CallReady
    <3>2. QED
      BY <2>1, <3>1 DEF RemovalBegins, RemovalEnds, StoreNext
  <2>2. CASE CleanupEnds(c)
    <3>1. at[c] \in Sessions
      BY <2>2, Kinds DEF CleanupEnds, WInv, CallReady, InFlight
    <3>2. QED
      BY <2>2, <3>1 DEF CleanupEnds, StoreNext
  <2>3. CASE Agreed(c) \/ Declined(c) \/ CleanupBegins(c) \/ NothingDeleted(c)
    BY <2>3 DEF Agreed, Declined, CleanupBegins, TakeBinding, NothingDeleted
  <2>4. CASE StartRemoval(c) \/ CancelCleanup(c) \/ Refused(c)
    BY <2>4 DEF StartRemoval, CancelCleanup, Refused
  <2>5. CASE \E s \in Sessions : Confirm(c, s) \/ AskedAgain(c, s)
    BY <2>5 DEF Confirm, AskedAgain
  <2>6. QED
    BY <1>3, <2>1, <2>2, <2>3, <2>4, <2>5 DEF CleanupNext
<1>4. ASSUME EvictorNext PROVE [StoreNext]_storeVars
  <2>1. closing # None => closing \in Sessions
    BY DEF WInv, CallsOK
  <2>2. QED
    BY <1>4, <2>1 DEF EvictorNext, EvictEnds, EvictNow, EvictWaits, Dropped, StoreNext
<1>5. CASE UNCHANGED vars
  BY <1>5 DEF vars
<1>6. QED
  BY <1>1, <1>2, <1>3, <1>4, <1>5 DEF Next, AllAnswered

-----------------------------------------------------------------------------
(* Each call has what its next step needs, and a yes is carried to the     *)
(* removal it was given for.                                               *)
THEOREM CleanupInductive == Spec => []WInv
BY CleanupInit, CleanupStep, PTL DEF Spec

(* The calls keep to the registry: whatever they, the removals that        *)
(* outlive them and the evictor do in between, each step is one operation  *)
(* of the registry of stores, or none.                                     *)
THEOREM KeepsTheStores == Spec => StoresKept
<1>1. Init => StoreInit
  BY DEF Init
<1>2. QED
  BY <1>1, StepIsStoreStep, CleanupInductive, PTL DEF Spec, StoresKept, StoreSpec

(* So the registry's own theorem holds of the calls: a directory has one   *)
(* open store at most, and none while it is removed, however many removals *)
(* overlap, and whether or not the requests that began them were cancelled.*)
THEOREM CleanupOneHandle == Spec => []HandlesExclusive
BY KeepsTheStores, OneHandle, PTL DEF StoresKept

(* A yes is spent on the connection the question named, or on none.        *)
THEOREM YesIsSpentWhereGiven == Spec => []YesSpentWhereGiven
<1>1. WInv => YesSpentWhereGiven
  BY DEF WInv, YesCarried, YesSpentWhereGiven
<1>2. QED
  BY <1>1, CleanupInductive, PTL

-----------------------------------------------------------------------------
(* The removals under way on d.                                            *)
Removers(d) == {c \in Cleanups : removal[c] = "running" /\ target[c] = d}

RemovalStep(c) == RemovalBegins(c) \/ RemovalEnds(c)

(* Only removals begin and end removals.                                   *)
LEMMA OthersLeaveRemovals ==
    ASSUME WInv, [Next]_vars, ~\E c \in Cleanups : RemovalStep(c)
    PROVE  removing' = removing /\ \A d : Removers(d)' = Removers(d)
<1>1. ASSUME NEW s \in Sessions, OpenStore(s)
      PROVE  removing' = removing /\ UNCHANGED removalVars
  BY <1>1 DEF OpenStore, Acquire, Opens
<1>2. ASSUME NEW s \in Sessions, LetGo(s) PROVE removing' = removing
  BY <1>2 DEF LetGo, ReleaseManager
<1>3. ASSUME NEW c \in Connects, ConnectNext(c)
      PROVE  removing' = removing /\ UNCHANGED removalVars
  <2>1. ASSUME NEW s \in Sessions, NEW clear, BindTo(c, s, clear)
        PROVE  removing' = removing /\ UNCHANGED removalVars
    BY <2>1, <1>2 DEF BindTo, LeaveStore, storeVars
  <2>2. CASE ConnectSucceeds(c)
    BY <2>1, <2>2 DEF ConnectSucceeds, storeVars
  <2>3. CASE ClearedThenBound(c)
    <3>1. at[c] \in Sessions
      BY <2>3, Kinds DEF ClearedThenBound, WInv, CallReady, InFlight
    <3>2. QED
      BY <2>1, <2>3, <3>1 DEF ClearedThenBound
  <2>4. CASE ConnectBegins(c) \/ ConnectFails(c) \/ ConnectEnds(c) \/ Refused(c)
    BY <2>4 DEF ConnectBegins, TakeBinding, ConnectFails, ConnectEnds, Refused, storeVars
  <2>5. CASE \E s \in Sessions, d \in Databases : StartConnect(c, s, d)
    BY <2>5 DEF StartConnect, storeVars
  <2>6. QED
    BY <1>3, <2>2, <2>3, <2>4, <2>5 DEF ConnectNext
<1>4. ASSUME NEW c \in Cleanups, CleanupNext(c), ~RemovalStep(c)
      PROVE  removing' = removing /\ \A d : Removers(d)' = Removers(d)
  <2>1. CASE StartRemoval(c)
    <3>1. removal[c] = "none" /\ removing' = removing
      BY <2>1 DEF StartRemoval, WInv, YesCarried, storeVars
    <3>2. \A e \in Cleanups : /\ removal'[e] = "running" <=> removal[e] = "running"
                              /\ removal[e] = "running" => target'[e] = target[e]
      BY <2>1, <3>1, Kinds DEF StartRemoval, WInv, CallsOK
    <3>3. ASSUME NEW d PROVE Removers(d)' = Removers(d)
      <4>1. \A e \in Cleanups : removal'[e] = "running" /\ target'[e] = d
                                <=> removal[e] = "running" /\ target[e] = d
        BY <3>2
      <4>2. QED
        BY <4>1 DEF Removers
    <3>4. QED
      BY <3>1, <3>3
  <2>2. CASE CleanupEnds(c)
    BY <2>2 DEF CleanupEnds, ForgetStore, storeVars, removalVars, Removers
  <2>3. CASE Agreed(c) \/ Declined(c) \/ CleanupBegins(c) \/ NothingDeleted(c)
    BY <2>3 DEF Agreed, Declined, CleanupBegins, TakeBinding, NothingDeleted, storeVars,
                removalVars, Removers
  <2>4. CASE CancelCleanup(c) \/ Refused(c)
    BY <2>4 DEF CancelCleanup, Refused, storeVars, removalVars, Removers
  <2>5. CASE \E s \in Sessions : Confirm(c, s) \/ AskedAgain(c, s)
    BY <2>5 DEF Confirm, AskedAgain, storeVars, removalVars, Removers
  <2>6. QED
    BY <1>4, <2>1, <2>2, <2>3, <2>4, <2>5 DEF CleanupNext, RemovalStep
<1>5. ASSUME EvictorNext PROVE removing' = removing /\ UNCHANGED removalVars
  <2>1. ASSUME NEW s, Dropped(s) PROVE removing' = removing /\ UNCHANGED removalVars
    BY <2>1 DEF Dropped, DropSession, LetGo, ReleaseManager
  <2>2. QED
    BY <1>5, <2>1 DEF EvictorNext, EvictEnds, EvictNow, EvictWaits, storeVars
<1>6. CASE UNCHANGED vars
  BY <1>6 DEF vars, storeVars, removalVars, Removers
<1>7. QED
  BY <1>1, <1>3, <1>4, <1>5, <1>6 DEF Next, AllAnswered, removalVars, Removers

LEMMA RemoversFinite ==
    \A d : IsFiniteSet(Removers(d)) /\ Cardinality(Removers(d)) \in Nat
<1>1. \A d : Removers(d) \subseteq Cleanups
  BY DEF Removers
<1>2. QED
  BY <1>1, FS_Subset, FS_CardinalityType, CleanupAssumption

LEMMA GuardsStep == WInv /\ StoreTypeOK /\ GuardsOwned /\ [Next]_vars => GuardsOwned'
<1> SUFFICES ASSUME WInv, StoreTypeOK, GuardsOwned, [Next]_vars,
                    NEW d \in Dirs
             PROVE  removing'[d] = Cardinality(Removers(d)')
  BY DEF GuardsOwned, Removers
<1>0. removing[d] = Cardinality(Removers(d)) /\ removing[d] \in Nat
  BY DEF GuardsOwned, Removers, StoreTypeOK
<1>1. ASSUME NEW c \in Cleanups, RemovalBegins(c)
      PROVE  removing'[d] = Cardinality(Removers(d)')
  <2>1. c \notin Removers(d) /\ removal' = [removal EXCEPT ![c] = "running"]
        /\ target' = target /\ target[c] \in Dirs
    BY <1>1, Kinds DEF RemovalBegins, Removers, WInv, CallReady
  <2>2. removing' = [removing EXCEPT ![target[c]] = @ + 1]
    BY <1>1 DEF RemovalBegins, StartRemoving
  <2>3. CASE target[c] = d
    <3>1. Removers(d)' = Removers(d) \cup {c}
      BY <2>1, <2>3, Kinds DEF Removers, WInv, CallsOK
    <3>2. Cardinality(Removers(d) \cup {c}) = Cardinality(Removers(d)) + 1
      BY <2>1, RemoversFinite, FS_AddElement
    <3>3. QED
      BY <1>0, <2>2, <2>3, <3>1, <3>2 DEF StoreTypeOK
  <2>4. CASE target[c] # d
    <3>1. Removers(d)' = Removers(d)
      BY <2>1, <2>4, Kinds DEF Removers, WInv, CallsOK
    <3>2. QED
      BY <1>0, <2>2, <2>4, <3>1 DEF StoreTypeOK
  <2>5. QED
    BY <2>3, <2>4
<1>2. ASSUME NEW c \in Cleanups, RemovalEnds(c)
      PROVE  removing'[d] = Cardinality(Removers(d)')
  <2>1. removal[c] = "running" /\ removal' = [removal EXCEPT ![c] = "ended"]
        /\ target' = target
    BY <1>2 DEF RemovalEnds
  <2>2. removing' = [removing EXCEPT ![target[c]] = @ - 1]
    BY <1>2 DEF RemovalEnds, EndRemoving
  <2>3. CASE target[c] = d
    <3>1. Removers(d)' = Removers(d) \ {c} /\ c \in Removers(d)
      BY <2>1, <2>3, Kinds DEF Removers, WInv, CallsOK
    <3>2. Cardinality(Removers(d) \ {c}) = Cardinality(Removers(d)) - 1
      BY <3>1, RemoversFinite, FS_RemoveElement
    <3>3. QED
      BY <1>0, <2>2, <2>3, <3>1, <3>2 DEF StoreTypeOK
  <2>4. CASE target[c] # d
    <3>1. Removers(d)' = Removers(d)
      BY <2>1, <2>4, Kinds DEF Removers, WInv, CallsOK
    <3>2. QED
      BY <1>0, <2>2, <2>4, <3>1 DEF StoreTypeOK
  <2>5. QED
    BY <2>3, <2>4
<1>3. CASE ~\E c \in Cleanups : RemovalStep(c)
  BY <1>0, <1>3, OthersLeaveRemovals
<1>4. QED
  BY <1>1, <1>2, <1>3 DEF RemovalStep

THEOREM StoreInvariant == Spec => []SInv
BY KeepsTheStores, StoreInductive, PTL DEF StoresKept

(* A directory is refused exactly as long as somebody removes it, whichever*)
(* requests were cancelled.                                                *)
THEOREM GuardsAreOwned == Spec => []GuardsOwned
<1>1. Init => GuardsOwned
  <2> SUFFICES ASSUME Init, NEW d \in Dirs PROVE removing[d] = Cardinality(Removers(d))
    BY DEF GuardsOwned, Removers
  <2>1. Removers(d) = {}
    BY Kinds DEF Init, Removers
  <2>2. QED
    BY <2>1, FS_EmptySet DEF Init, StoreInit
<1>2. SInv => StoreTypeOK
  BY DEF SInv
<1>3. QED
  BY <1>1, <1>2, GuardsStep, CleanupInductive, StoreInvariant, PTL DEF Spec

-----------------------------------------------------------------------------
(* As long as no session is evicted with a call of its in flight, a call   *)
(* works on a live session, and the holds of live sessions are covered.    *)
LiveCalls == \A c \in Calls : InFlight(c) => at[c] \in live

KInv == ~overtaken => LiveCalls /\ Kept

LEMMA KeptUnchanged == Kept /\ UNCHANGED storeVars => Kept'
BY DEF Kept, Sharing, NoneClosed, storeVars

(* A session is evicted, and no call of its is in flight.                  *)
LEMMA DropKeeps ==
    ASSUME SInv, KInv, NEW s \in Sessions, Dropped(s), ~overtaken'
    PROVE  LiveCalls' /\ Kept'
<1>1. LiveCalls /\ Kept
  BY DEF Dropped, KInv
<1>2. s \in live /\ LetGo(s) /\ live' = live \ {s} /\ storeOf' = storeOf
  BY DEF Dropped, DropSession
<1>3. LiveCalls'
  BY <1>1, <1>2 DEF Dropped, LiveCalls, InFlight, callVars
<1>4. QED
  BY <1>1, <1>2, <1>3, LetGoCovers

LEMMA SharersStep == WInv /\ SInv /\ KInv /\ [Next]_vars => KInv'
<1> SUFFICES ASSUME WInv, SInv, KInv, [Next]_vars, ~overtaken'
             PROVE  LiveCalls' /\ Kept'
  BY DEF KInv
<1> USE DEF LiveCalls, InFlight
<1>0. ASSUME overtaken' = overtaken PROVE LiveCalls /\ Kept
  BY <1>0 DEF KInv
<1>1. ASSUME NEW s \in Sessions, OpenStore(s) PROVE LiveCalls' /\ Kept'
  <2>1. StoreDir(s) \in Dirs
    BY Kinds DEF StoreDir, WInv, CallsOK
  <2>2. QED
    BY <1>0, <1>1, <2>1, AcquireCovers DEF OpenStore, callVars, evictVars
<1>2. ASSUME NEW c \in Connects, ConnectNext(c) PROVE LiveCalls' /\ Kept'
  <2>1. ASSUME NEW s \in live, NEW clear, BindTo(c, s, clear), at' = [at EXCEPT ![c] = s]
        PROVE  LiveCalls' /\ Kept'
    <3>1. overtaken' = overtaken /\ live' = live
      BY <2>1 DEF BindTo, LeaveStore, evictVars, storeVars
    <3>2. Kept'
      BY <1>0, <2>1, <3>1, LetGoCovers, KeptUnchanged DEF BindTo, LeaveStore
    <3>3. LiveCalls'
      BY <1>0, <2>1, <3>1, Kinds DEF BindTo, WInv, CallsOK
    <3>4. QED
      BY <3>2, <3>3
  <2>2. CASE ConnectSucceeds(c)
    <3>1. overtaken' = overtaken
      BY <2>2 DEF ConnectSucceeds, BindTo, evictVars
    <3>2. at[c] \in live
      BY <1>0, <2>2, <3>1, Kinds DEF ConnectSucceeds
    <3>3. PICK s \in Sessions : s = at[c] /\ at' = [at EXCEPT ![c] = s]
            /\ \/ BindTo(c, s, Moves(s, goal[c]))
               \/ /\ pc' = [pc EXCEPT ![c] = "clearing"]
                  /\ UNCHANGED storeVars
      BY <2>2, <3>2 DEF ConnectSucceeds, Settles
    <3>4. CASE BindTo(c, s, Moves(s, goal[c]))
      BY <2>1, <3>2, <3>3, <3>4
    <3>5. CASE pc' = [pc EXCEPT ![c] = "clearing"] /\ UNCHANGED storeVars
      <4>1. LiveCalls'
        BY <1>0, <3>1, <3>2, <3>3, <3>5, Kinds DEF WInv, CallsOK, storeVars
      <4>2. QED
        BY <1>0, <3>1, <3>5, <4>1, KeptUnchanged
    <3>6. QED
      BY <3>3, <3>4, <3>5
  <2>3. CASE ClearedThenBound(c)
    <3>1. overtaken' = overtaken
      BY <2>3 DEF ClearedThenBound, BindTo, evictVars
    <3>2. at[c] \in live /\ at' = [at EXCEPT ![c] = at[c]]
      BY <1>0, <2>3, <3>1, Kinds DEF ClearedThenBound, WInv, CallsOK
    <3>3. QED
      BY <2>1, <2>3, <3>2 DEF ClearedThenBound
  <2>4. CASE \/ ConnectBegins(c) \/ ConnectFails(c) \/ ConnectEnds(c) \/ Refused(c)
             \/ \E s \in Sessions, d \in Databases : StartConnect(c, s, d)
    <3> USE DEF ConnectBegins, TakeBinding, ConnectFails, ConnectEnds, Refused,
                StartConnect, Answer
    <3>1. UNCHANGED storeVars /\ overtaken' = overtaken
      BY <2>4 DEF evictVars
    <3>2. LiveCalls'
      BY <1>0, <2>4, <3>1, Kinds DEF WInv, CallsOK, storeVars
    <3>3. QED
      BY <1>0, <3>1, <3>2, KeptUnchanged
  <2>5. QED
    BY <1>2, <2>2, <2>3, <2>4 DEF ConnectNext
<1>3. ASSUME NEW c \in Cleanups, CleanupNext(c) PROVE LiveCalls' /\ Kept'
  <2>1. CASE RemovalStep(c)
    <3>1. target[c] \in Dirs
      BY <2>1, Kinds DEF RemovalStep, RemovalBegins, RemovalEnds, WInv, CallReady
    <3>2. live' = live /\ UNCHANGED callVars /\ overtaken' = overtaken
      BY <2>1 DEF RemovalStep, RemovalBegins, StartRemoving, RemovalEnds, EndRemoving,
                  evictVars
    <3>3. Kept'
      <4>1. CASE RemovalBegins(c)
        BY <1>0, <3>1, <3>2, <4>1, StartRemovingCovers DEF RemovalBegins
      <4>2. CASE RemovalEnds(c)
        BY <1>0, <3>2, <4>2 DEF RemovalEnds, EndRemoving, Kept, Sharing, NoneClosed
      <4>3. QED
        BY <2>1, <4>1, <4>2 DEF RemovalStep
    <3>4. QED
      BY <1>0, <3>2, <3>3 DEF callVars
  <2>2. CASE CleanupEnds(c)
    <3>1. at[c] \in Sessions /\ overtaken' = overtaken
      BY <2>2, Kinds DEF CleanupEnds, WInv, CallReady, evictVars
    <3>2. Kept' /\ live' = live
      BY <1>0, <2>2, <3>1, ForgetCovers, KeptUnchanged DEF CleanupEnds, ForgetStore, storeVars
    <3>3. LiveCalls'
      BY <1>0, <2>2, <3>1, <3>2, Kinds DEF CleanupEnds, Answer, WInv, CallsOK
    <3>4. QED
      BY <3>2, <3>3
  <2>3. CASE \/ Agreed(c) \/ Declined(c) \/ CleanupBegins(c) \/ NothingDeleted(c)
             \/ StartRemoval(c) \/ CancelCleanup(c) \/ Refused(c)
             \/ \E s \in Sessions : Confirm(c, s) \/ AskedAgain(c, s)
    <3> USE DEF Agreed, Declined, CleanupBegins, TakeBinding, NothingDeleted,
                StartRemoval, CancelCleanup, Refused, Confirm, AskedAgain, Unused, Answer
    <3>1. UNCHANGED storeVars /\ overtaken' = overtaken
      BY <2>3 DEF evictVars
    <3>2. LiveCalls'
      BY <1>0, <2>3, <3>1, Kinds DEF WInv, CallsOK, storeVars
    <3>3. QED
      BY <1>0, <3>1, <3>2, KeptUnchanged
  <2>4. QED
    BY <1>3, <2>1, <2>2, <2>3 DEF CleanupNext, RemovalStep
<1>4. ASSUME EvictorNext PROVE LiveCalls' /\ Kept'
  <2>1. CASE \E s \in Sessions : EvictWaits(s)
    BY <1>0, <2>1, KeptUnchanged DEF EvictWaits, storeVars, callVars
  <2>2. CASE EvictEnds \/ \E s \in Sessions : EvictNow(s)
    BY <2>2, DropKeeps DEF EvictEnds, EvictNow, WInv, CallsOK
  <2>3. QED
    BY <1>4, <2>1, <2>2 DEF EvictorNext
<1>5. CASE UNCHANGED vars
  BY <1>0, <1>5, KeptUnchanged DEF vars, evictVars, callVars, storeVars
<1>6. QED
  BY <1>1, <1>2, <1>3, <1>4, <1>5 DEF Next, AllAnswered

(* Unless the evictor drops a session with a call of its in flight, no     *)
(* session ever finds its store closed: every one that shares it is        *)
(* counted, and told when it is taken away.                                *)
THEOREM SharersKeepTheirStore == Spec => []SharersKeepStore
<1>1. Init => KInv
  <2> SUFFICES ASSUME Init PROVE LiveCalls /\ Kept
    BY DEF KInv
  <2>1. \A d : Sharing(d) = {}
    BY DEF Init, StoreInit, Sharing
  <2>2. QED
    BY <2>1, FS_EmptySet DEF Init, StoreInit, LiveCalls, InFlight, Kept, NoneClosed
<1>2. KInv => SharersKeepStore
  BY DEF KInv, Kept, SharersKeepStore
<1>3. QED
  BY <1>1, <1>2, SharersStep, CleanupInductive, StoreInvariant, PTL DEF Spec

=============================================================================
