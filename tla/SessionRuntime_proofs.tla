------------------------ MODULE SessionRuntime_proofs ------------------------
(***************************************************************************)
(* Proofs about SessionRuntime.  First the registry of runtimes alone, for *)
(* every set of sessions, runtimes and databases; then the running server: *)
(* whatever calls, background tasks and evictions do, the sessions move    *)
(* through the registry one at a time, so the registry's own theorems hold *)
(* of the running server.                                                  *)
(***************************************************************************)
EXTENDS SessionRuntime, FiniteSetTheorems, TLAPS

-----------------------------------------------------------------------------
(* The registry of runtimes.                                               *)

(* A runtime that was never made is held by nobody.                        *)
Unmade(t) == \A r \in Runtimes : t.database[r] = None => t.holders[r] = 0

Exact(t) == t \in Tables /\ Counted(t) /\ Indexed(t) /\ Unmade(t)

HoldersOf(f, r) == {s \in Sessions : f[s] = r}

-----------------------------------------------------------------------------
(* Moving one session changes the number of sessions in the runtime it     *)
(* leaves, and in the one it enters, by one.                               *)
LEMMA HoldersLeft ==
    ASSUME NEW f \in [Sessions -> Runtimes \cup {None}], NEW s \in Sessions,
           NEW r \in Runtimes
    PROVE  /\ Cardinality(HoldersOf(f, r)) \in Nat
           /\ f[s] = r => Cardinality(HoldersOf([f EXCEPT ![s] = None], r))
                            = Cardinality(HoldersOf(f, r)) - 1
           /\ f[s] # r => HoldersOf([f EXCEPT ![s] = None], r) = HoldersOf(f, r)
           /\ f[s] = None => Cardinality(HoldersOf([f EXCEPT ![s] = r], r))
                            = Cardinality(HoldersOf(f, r)) + 1
<1>1. IsFiniteSet(HoldersOf(f, r))
  BY RegistryAssumption, FS_Subset DEF HoldersOf
<1>2. Cardinality(HoldersOf(f, r)) \in Nat
  BY <1>1, FS_CardinalityType
<1>3. r # None
  BY RegistryAssumption
<1>4. ASSUME f[s] = r
      PROVE  Cardinality(HoldersOf([f EXCEPT ![s] = None], r))
                = Cardinality(HoldersOf(f, r)) - 1
  <2>1. HoldersOf([f EXCEPT ![s] = None], r) = HoldersOf(f, r) \ {s}
    BY <1>3 DEF HoldersOf
  <2>2. s \in HoldersOf(f, r)
    BY <1>4 DEF HoldersOf
  <2>3. QED
    BY <2>1, <2>2, <1>1, FS_RemoveElement
<1>5. f[s] # r => HoldersOf([f EXCEPT ![s] = None], r) = HoldersOf(f, r)
  BY <1>3 DEF HoldersOf
<1>6. ASSUME f[s] = None
      PROVE  Cardinality(HoldersOf([f EXCEPT ![s] = r], r))
                = Cardinality(HoldersOf(f, r)) + 1
  <2>1. HoldersOf([f EXCEPT ![s] = r], r) = HoldersOf(f, r) \cup {s}
    BY DEF HoldersOf
  <2>2. s \notin HoldersOf(f, r)
    BY <1>3, <1>6 DEF HoldersOf
  <2>3. QED
    BY <2>1, <2>2, <1>1, FS_AddElement
<1>7. QED
  BY <1>2, <1>4, <1>5, <1>6

LEMMA Updated ==
    ASSUME NEW A, NEW B, NEW f \in [A -> B], NEW x, NEW y \in B
    PROVE  [f EXCEPT ![x] = y] \in [A -> B]
OBVIOUS

LEMMA OthersKept ==
    ASSUME NEW f \in [Sessions -> Runtimes \cup {None}], NEW s \in Sessions,
           NEW r \in Runtimes, NEW q \in Runtimes, q # r, f[s] = None
    PROVE  HoldersOf([f EXCEPT ![s] = r], q) = HoldersOf(f, q)
<1>1. q # None
  BY RegistryAssumption
<1>2. QED
  BY <1>1 DEF HoldersOf

-----------------------------------------------------------------------------
LEMMA DetachedParts ==
    ASSUME NEW t \in Tables, NEW s \in Sessions, t.runtimeOf[s] # None
    PROVE  LET r == t.runtimeOf[s]
               u == Detached(t, s)
           IN  /\ u.runtimeOf = [t.runtimeOf EXCEPT ![s] = None]
               /\ u.holders = [t.holders EXCEPT ![r] = t.holders[r] - 1]
               /\ u.database = t.database
               /\ u.registry = IF t.holders[r] - 1 <= 0
                               THEN [t.registry EXCEPT ![t.database[r]] = None]
                               ELSE t.registry
               /\ u = [runtimeOf |-> u.runtimeOf, holders |-> u.holders,
                       database |-> u.database, registry |-> u.registry]
BY DEF Detached, LastHolder, Tables

(* Leaving keeps the tables exact.                                         *)
LEMMA DetachedExact ==
    ASSUME NEW t, Exact(t), NEW s \in Sessions
    PROVE  Exact(Detached(t, s)) /\ Detached(t, s).runtimeOf[s] = None
<1>1. CASE t.runtimeOf[s] = None
  BY <1>1 DEF Detached
<1>2. CASE t.runtimeOf[s] # None
  <2> DEFINE r == t.runtimeOf[s]
             u == Detached(t, s)
  <2>0. t \in Tables /\ r \in Runtimes
    BY <1>2 DEF Exact, Tables
  <2>1. /\ u.runtimeOf = [t.runtimeOf EXCEPT ![s] = None]
        /\ u.holders = [t.holders EXCEPT ![r] = t.holders[r] - 1]
        /\ u.database = t.database
        /\ u.registry = IF t.holders[r] - 1 <= 0
                        THEN [t.registry EXCEPT ![t.database[r]] = None]
                        ELSE t.registry
        /\ u = [runtimeOf |-> u.runtimeOf, holders |-> u.holders,
                database |-> u.database, registry |-> u.registry]
    BY <1>2, <2>0, DetachedParts
  <2>2. t.holders[r] = Cardinality(HoldersOf(t.runtimeOf, r))
    BY <2>0 DEF Exact, Counted, HoldersOf
  <2>3. t.holders[r] - 1 \in Nat
    <3>1. Cardinality(HoldersOf(u.runtimeOf, r)) = t.holders[r] - 1
      BY <2>0, <2>1, <2>2, HoldersLeft DEF Tables
    <3>2. u.runtimeOf \in [Sessions -> Runtimes \cup {None}]
      BY <2>0, <2>1 DEF Tables
    <3>3. Cardinality(HoldersOf(u.runtimeOf, r)) \in Nat
      BY <2>0, <3>2, HoldersLeft
    <3>4. QED
      BY <3>1, <3>3
  <2>4. u \in Tables
    <3>1. /\ u.runtimeOf \in [Sessions -> Runtimes \cup {None}]
          /\ u.holders \in [Runtimes -> Nat]
          /\ u.database \in [Runtimes -> Databases \cup {None}]
          /\ u.registry \in [Databases -> Runtimes \cup {None}]
      <4>1. /\ t.runtimeOf \in [Sessions -> Runtimes \cup {None}]
            /\ t.holders \in [Runtimes -> Nat]
            /\ t.database \in [Runtimes -> Databases \cup {None}]
            /\ t.registry \in [Databases -> Runtimes \cup {None}]
        BY <2>0 DEF Tables
      <4>2. u.holders \in [Runtimes -> Nat]
        BY <4>1, <2>1, <2>3
      <4>3. u.registry \in [Databases -> Runtimes \cup {None}]
        <5>1. u.registry = t.registry
              \/ u.registry = [t.registry EXCEPT ![t.database[r]] = None]
          BY <2>1
        <5>2. QED
          BY <5>1, <4>1, Updated
      <4>4. QED
        BY <4>1, <4>2, <4>3, <2>1
    <3>2. QED
      BY <3>1, <2>1 DEF Tables
  <2>5. Counted(u)
    <3> SUFFICES ASSUME NEW q \in Runtimes
                 PROVE  u.holders[q] = Cardinality(HoldersOf(u.runtimeOf, q))
      BY DEF Counted, HoldersOf
    <3>1. t.holders[q] = Cardinality(HoldersOf(t.runtimeOf, q))
      BY DEF Exact, Counted, HoldersOf
    <3>2. CASE q = r
      <4>1. Cardinality(HoldersOf(u.runtimeOf, r))
                = Cardinality(HoldersOf(t.runtimeOf, r)) - 1
        BY <2>0, <2>1, HoldersLeft DEF Tables
      <4>2. u.holders[r] = t.holders[r] - 1
        BY <2>0, <2>1 DEF Tables
      <4>3. QED
        BY <3>1, <3>2, <4>1, <4>2
    <3>3. CASE q # r
      <4>1. HoldersOf(u.runtimeOf, q) = HoldersOf(t.runtimeOf, q)
        <5>1. t.runtimeOf[s] # q /\ u.runtimeOf = [t.runtimeOf EXCEPT ![s] = None]
          BY <3>3, <2>1
        <5>2. t.runtimeOf \in [Sessions -> Runtimes \cup {None}]
          BY <2>0 DEF Tables
        <5>3. QED
          BY <5>1, <5>2, RegistryAssumption DEF HoldersOf
      <4>2. u.holders[q] = t.holders[q]
        BY <3>3, <2>0, <2>1 DEF Tables
      <4>3. QED
        BY <3>1, <4>1, <4>2
    <3>4. QED
      BY <3>2, <3>3
  <2>6. Indexed(u)
    <3> SUFFICES ASSUME NEW d \in Databases, NEW q \in Runtimes
                 PROVE  u.registry[d] = q <=> (u.database[q] = d /\ u.holders[q] > 0)
      BY DEF Indexed
    <3>1. t.registry[d] = q <=> (t.database[q] = d /\ t.holders[q] > 0)
      BY DEF Exact, Indexed
    <3>2. t.registry[d] = r <=> (t.database[r] = d /\ t.holders[r] > 0)
      BY <2>0 DEF Exact, Indexed
    <3>3. q # None /\ t.holders[q] \in Nat
      BY <2>0, RegistryAssumption DEF Tables
    <3>4. QED
      BY <3>1, <3>2, <3>3, <2>0, <2>1, <2>3 DEF Tables
  <2>7. Unmade(u)
    <3>1. \A q \in Runtimes : t.database[q] = None => t.holders[q] = 0
      BY DEF Exact, Unmade
    <3>2. t.database[r] # None
      BY <3>1, <2>0, <2>3
    <3>3. QED
      BY <3>1, <3>2, <2>0, <2>1 DEF Unmade, Tables
  <2>8. u.runtimeOf[s] = None
    BY <2>0, <2>1 DEF Tables
  <2>9. QED
    BY <2>4, <2>5, <2>6, <2>7, <2>8 DEF Exact
<1>3. QED
  BY <1>1, <1>2

(* A session in no runtime that joins the database's one keeps them exact. *)
LEMMA JoinedExact ==
    ASSUME NEW t, Exact(t), NEW s \in Sessions, NEW d \in Databases,
           NEW r \in Runtimes, t.runtimeOf[s] = None, RuntimeFor(t, d, r)
    PROVE  Exact(Joined(t, s, d, r))
<1> DEFINE u == Joined(t, s, d, r)
<1>0. t \in Tables
  BY DEF Exact
<1>1. /\ u.runtimeOf = [t.runtimeOf EXCEPT ![s] = r]
      /\ u.holders = [t.holders EXCEPT ![r] = t.holders[r] + 1]
      /\ u.database = [t.database EXCEPT ![r] = d]
      /\ u.registry = [t.registry EXCEPT ![d] = r]
      /\ u = [runtimeOf |-> u.runtimeOf, holders |-> u.holders,
              database |-> u.database, registry |-> u.registry]
  BY <1>0 DEF Joined
<1>2. r # None /\ d # None
  BY RegistryAssumption
<1>3. u \in Tables
  <2>1. /\ u.runtimeOf \in [Sessions -> Runtimes \cup {None}]
        /\ u.holders \in [Runtimes -> Nat]
        /\ u.database \in [Runtimes -> Databases \cup {None}]
        /\ u.registry \in [Databases -> Runtimes \cup {None}]
    <3>1. /\ t.runtimeOf \in [Sessions -> Runtimes \cup {None}]
          /\ t.holders \in [Runtimes -> Nat]
          /\ t.database \in [Runtimes -> Databases \cup {None}]
          /\ t.registry \in [Databases -> Runtimes \cup {None}]
      BY <1>0 DEF Tables
    <3>2. t.holders[r] + 1 \in Nat
      BY <3>1
    <3>3. u.holders \in [Runtimes -> Nat]
      BY <3>1, <3>2, <1>1
    <3>4. QED
      BY <3>1, <3>3, <1>1
  <2>2. QED
    BY <2>1, <1>1 DEF Tables
<1>4. Counted(u)
  <2> SUFFICES ASSUME NEW q \in Runtimes
               PROVE  u.holders[q] = Cardinality(HoldersOf(u.runtimeOf, q))
    BY DEF Counted, HoldersOf
  <2>1. t.holders[q] = Cardinality(HoldersOf(t.runtimeOf, q))
    BY DEF Exact, Counted, HoldersOf
  <2>2. CASE q = r
    <3>1. Cardinality(HoldersOf(u.runtimeOf, r))
              = Cardinality(HoldersOf(t.runtimeOf, r)) + 1
      BY <1>0, <1>1, HoldersLeft DEF Tables
    <3>2. u.holders[r] = t.holders[r] + 1
      BY <1>0, <1>1 DEF Tables
    <3>3. QED
      BY <2>1, <2>2, <3>1, <3>2
  <2>3. CASE q # r
    BY <2>1, <2>3, <1>0, <1>1, OthersKept DEF Tables
  <2>4. QED
    BY <2>2, <2>3
<1>5. t.database[r] = d \/ (t.database[r] = None /\ t.holders[r] = 0)
  BY <1>2 DEF RuntimeFor, Exact, Indexed, Unmade
<1>6. Indexed(u)
  <2> SUFFICES ASSUME NEW e \in Databases, NEW q \in Runtimes
               PROVE  u.registry[e] = q <=> (u.database[q] = e /\ u.holders[q] > 0)
    BY DEF Indexed
  <2>1. /\ t.registry[e] = q <=> (t.database[q] = e /\ t.holders[q] > 0)
        /\ t.registry[e] = r <=> (t.database[r] = e /\ t.holders[r] > 0)
        /\ t.registry[d] = q <=> (t.database[q] = d /\ t.holders[q] > 0)
    BY DEF Exact, Indexed
  <2>2. t.registry[d] # None => t.registry[d] = r
    BY DEF RuntimeFor
  <2>3. q # None /\ t.holders[q] \in Nat /\ t.holders[r] \in Nat
    BY <1>0, RegistryAssumption DEF Tables
  <2>4. CASE q = r
    <3>1. u.holders[q] > 0 /\ u.database[q] = d
      BY <2>3, <2>4, <1>0, <1>1 DEF Tables
    <3>2. u.registry[e] = q <=> e = d
      <4>1. CASE e = d
        BY <4>1, <2>4, <1>0, <1>1 DEF Tables
      <4>2. CASE e # d
        <5>1. u.registry[e] = t.registry[e]
          BY <4>2, <1>0, <1>1 DEF Tables
        <5>2. t.registry[e] # r
          BY <4>2, <2>1, <1>5, RegistryAssumption
        <5>3. QED
          BY <5>1, <5>2, <4>2, <2>4
      <4>3. QED
        BY <4>1, <4>2
    <3>3. QED
      BY <3>1, <3>2
  <2>5. CASE q # r
    <3>1. u.holders[q] = t.holders[q] /\ u.database[q] = t.database[q]
      BY <2>5, <1>0, <1>1 DEF Tables
    <3>2. CASE e = d
      <4>1. u.registry[e] = r
        BY <3>2, <1>0, <1>1 DEF Tables
      <4>2. t.registry[d] # q
        BY <2>2, <2>3, <2>5
      <4>3. QED
        BY <4>1, <4>2, <3>1, <3>2, <2>1, <2>5
    <3>3. CASE e # d
      BY <3>1, <3>3, <2>1, <1>0, <1>1 DEF Tables
    <3>4. QED
      BY <3>2, <3>3
  <2>6. QED
    BY <2>4, <2>5
<1>7. Unmade(u)
  BY <1>0, <1>1, <1>2 DEF Exact, Unmade, Tables
<1>8. QED
  BY <1>3, <1>4, <1>6, <1>7 DEF Exact

LEMMA BoundExact ==
    ASSUME NEW t, Exact(t), NEW s \in Sessions, NEW d \in Databases,
           NEW r \in Runtimes,
           OnDatabase(t, s, d) \/ RuntimeFor(Detached(t, s), d, r)
    PROVE  Exact(Bound(t, s, d, r))
<1>1. CASE OnDatabase(t, s, d)
  BY <1>1 DEF Bound
<1>2. CASE ~OnDatabase(t, s, d)
  <2>1. Exact(Detached(t, s)) /\ Detached(t, s).runtimeOf[s] = None
    BY DetachedExact
  <2>2. Exact(Joined(Detached(t, s), s, d, r))
    BY <1>2, <2>1, JoinedExact
  <2>3. QED
    BY <1>2, <2>2 DEF Bound
<1>3. QED
  BY <1>1, <1>2

-----------------------------------------------------------------------------
LEMMA RegistryInitExact == RegistryInit => Exact(Now)
<1> SUFFICES ASSUME RegistryInit PROVE Exact(Now)
  OBVIOUS
<1>1. Now \in Tables
  BY DEF RegistryInit, Now, Tables
<1>2. Counted(Now)
  <2> SUFFICES ASSUME NEW r \in Runtimes
               PROVE  holders[r] = Cardinality({s \in Sessions : runtimeOf[s] = r})
    BY DEF Counted, Now
  <2>1. {s \in Sessions : runtimeOf[s] = r} = {}
    BY RegistryAssumption DEF RegistryInit
  <2>2. QED
    BY <2>1, FS_EmptySet DEF RegistryInit
<1>3. Indexed(Now)
  BY RegistryAssumption DEF RegistryInit, Now, Indexed
<1>4. Unmade(Now)
  BY DEF RegistryInit, Now, Unmade
<1>5. QED
  BY <1>1, <1>2, <1>3, <1>4 DEF Exact

LEMMA BecomeExact ==
    ASSUME NEW t \in Tables, Exact(t), Become(t)
    PROVE  Exact(Now)'
<1>1. Now' = t
  BY DEF Become, Now, Tables
<1>2. QED
  BY <1>1 DEF Exact, Counted, Indexed, Unmade

LEMMA RegistryNextExact == Exact(Now) /\ [RegistryNext]_registryVars => Exact(Now)'
<1> SUFFICES ASSUME Exact(Now), [RegistryNext]_registryVars
             PROVE  Exact(Now)'
  OBVIOUS
<1>1. ASSUME NEW s \in Sessions, NEW d \in Databases, Bind(s, d)
      PROVE  Exact(Now)'
  <2>1. PICK r \in Runtimes :
            /\ OnDatabase(Now, s, d) \/ RuntimeFor(Detached(Now, s), d, r)
            /\ Become(Bound(Now, s, d, r))
    BY <1>1 DEF Bind
  <2>2. Exact(Bound(Now, s, d, r))
    BY <2>1, BoundExact
  <2>3. QED
    BY <2>1, <2>2, BecomeExact DEF Exact
<1>2. ASSUME NEW s \in Sessions, Unbind(s)
      PROVE  Exact(Now)'
  <2>1. Exact(Detached(Now, s))
    BY DetachedExact
  <2>2. QED
    BY <1>2, <2>1, BecomeExact DEF Unbind, Exact
<1>3. ASSUME NEW s \in Sessions, NEW d \in Databases, Rebind(s, d)
      PROVE  Exact(Now)'
  <2> DEFINE left == Detached(Now, s)
  <2>1. PICK r \in Runtimes :
            /\ RuntimeFor(left, d, r)
            /\ Become(Bound(left, s, d, r))
    BY <1>3 DEF Rebind
  <2>2. Exact(left) /\ left.runtimeOf[s] = None
    BY DetachedExact
  <2>3. Detached(left, s) = left
    BY <2>2 DEF Detached
  <2>4. Exact(Bound(left, s, d, r))
    <3> HIDE DEF left
    <3>1. QED
      BY <2>1, <2>2, <2>3, BoundExact
  <2>5. QED
    BY <2>1, <2>4, BecomeExact DEF Exact
<1>4. CASE UNCHANGED registryVars
  <2>1. Now' = Now
    BY <1>4 DEF registryVars, Now
  <2>2. QED
    BY <2>1 DEF Exact, Counted, Indexed, Unmade
<1>5. QED
  BY <1>1, <1>2, <1>3, <1>4 DEF RegistryNext

(* The inductive invariant of the registry.                                *)
THEOREM RegistryInductive == RegistrySpec => []Exact(Now)
<1>1. RegistryInit => Exact(Now)
  BY RegistryInitExact
<1>2. Exact(Now) /\ [RegistryNext]_registryVars => Exact(Now)'
  BY RegistryNextExact
<1>3. QED
  BY <1>1, <1>2, PTL DEF RegistrySpec

(* The holder count is the number of bound sessions, and the registry      *)
(* knows exactly the runtimes that are held, for any number of sessions,   *)
(* runtimes and databases.                                                 *)
THEOREM RegistryKnows == RegistrySpec => []RegistryExact
<1>1. Exact(Now) => RegistryExact
  BY DEF Exact, RegistryExact
<1>2. QED
  BY <1>1, RegistryInductive, PTL

-----------------------------------------------------------------------------
(* The running server.                                                     *)


(* The type invariant, by parts.                                           *)
SessionsTyped ==
    /\ born \in 0..MaxSessions
    /\ live \in [Keys -> Sessions \cup {None}]
    /\ spent \in SUBSET HandleKeys
    /\ idle \in [Sessions -> BOOLEAN]

ObjectsTyped ==
    /\ linked \in [Sessions -> Databases \cup {None}]
    /\ stateOf \in [Sessions -> Runtimes \cup {None}]
    /\ own \in [Sessions -> Calls \cup {None}]
    /\ managerOf \in [Runtimes -> Calls \cup {None}]
    /\ cache \in [Runtimes -> SUBSET Databases]
    /\ index \in [Runtimes -> SUBSET Databases]
    /\ engine \in [Calls -> Databases \cup {None}]

CallsTyped ==
    /\ binding \in [Sessions -> Calls \cup {None}]
    /\ writer \in [Runtimes -> Calls \cup {None}]
    /\ pc \in [Calls -> Points]
    /\ call \in [Calls -> Locals]
    /\ job \in [Calls -> Jobs]

EvictTyped ==
    /\ evicting \in SUBSET Keys
    /\ victim \in Keys \cup {None}
    /\ due \in SUBSET Calls
    /\ scans \in 0..MaxScans
    /\ overtaken \in BOOLEAN

(* A call that has yet to bind has made no runtime, and what a call needs  *)
(* next is set.                                                            *)
CallReady(c) ==
    /\ pc[c] \in {"new", "binding", "connecting", "clearing"} => database[c] = None
    /\ pc[c] = "binding" => call[c].sess \in Sessions
    /\ pc[c] \in {"connecting", "clearing"} =>
            call[c].target \in Databases /\ call[c].manager \in Calls
    /\ pc[c] \in {"clearing", "bound", "reading", "read", "published"} =>
            call[c].at \in Sessions
    /\ pc[c] = "clearing" => engine[call[c].manager] \in Databases
    /\ pc[c] = "reading" =>
            call[c].manager \in Calls /\ engine[call[c].manager] \in Databases
    /\ pc[c] = "restoring" => call[c].target \in Databases
    /\ pc[c] \in {"read", "published"} => call[c].data \in Databases
    /\ job[c].status = "running" => job[c].data \in Databases

CallsReady == \A c \in Calls : CallReady(c)

(* A held runtime has a manager, and managers of runtimes are connected.   *)
Connected ==
    \A r \in Runtimes :
        /\ holders[r] > 0 => managerOf[r] # None
        /\ managerOf[r] # None => engine[managerOf[r]] \in Databases

(* The names the evictor is about to release are live.                     *)
Listed ==
    /\ \A k \in evicting : live[k] \in Sessions
    /\ victim # None => live[victim] \in Sessions /\ victim \notin evicting

IInv ==
    /\ TypeOK
    /\ Exact(Now)
    /\ CallsReady
    /\ Connected
    /\ Listed

LEMMA Kinds ==
    /\ None \notin Calls /\ None \notin Databases /\ None \notin Sessions
    /\ None \notin Keys /\ Runtimes = Calls
BY RegistryAssumption, SessionAssumption

LEMMA Parts ==
    IInv => SessionsTyped /\ ObjectsTyped /\ CallsTyped /\ EvictTyped /\ RegistryTypeOK
BY DEF IInv, TypeOK, SessionsTyped, ObjectsTyped, CallsTyped, EvictTyped

LEMMA Together ==
    IInv /\ [RegistryNext]_registryVars /\ SessionsTyped' /\ ObjectsTyped' /\ CallsTyped'
        /\ EvictTyped' /\ CallsReady' /\ Connected' /\ Listed' => IInv'
<1> SUFFICES ASSUME IInv, [RegistryNext]_registryVars, SessionsTyped', ObjectsTyped',
                    CallsTyped', EvictTyped', CallsReady', Connected', Listed'
             PROVE  IInv'
  OBVIOUS
<1>1. Exact(Now)'
  BY RegistryNextExact DEF IInv
<1>2. RegistryTypeOK'
  BY <1>1 DEF Exact, RegistryTypeOK
<1>3. QED
  BY <1>1, <1>2 DEF IInv, TypeOK, SessionsTyped, ObjectsTyped, CallsTyped, EvictTyped

(* Resolving a name makes at most one session and drops none.              *)
LEMMA Resolved ==
    ASSUME SessionsTyped, NEW k, NEW s \in Sessions, Resolve(k, s) \/ Mint(k, s)
    PROVE  /\ SessionsTyped'
           /\ \A j \in Keys : live[j] # None => live'[j] # None
<1>1. born' \in 0..MaxSessions
  BY SessionAssumption DEF SessionsTyped, Resolve, Mint
<1>2. live' \in [Keys -> Sessions \cup {None}]
  BY DEF SessionsTyped, Resolve, Mint
<1>3. idle' \in [Sessions -> BOOLEAN] /\ spent' \in SUBSET HandleKeys
  BY DEF SessionsTyped, Resolve, Mint
<1>4. \A j \in Keys : live[j] # None => live'[j] # None
  BY Kinds DEF SessionsTyped, Resolve, Mint
<1>5. QED
  BY <1>1, <1>2, <1>3, <1>4 DEF SessionsTyped

(* What an action leaves alone stays as it was.                            *)
LEMMA Undisturbed ==
    IInv =>
        /\ UNCHANGED sessionVars => SessionsTyped'
        /\ UNCHANGED <<objectVars, engine>> => ObjectsTyped'
        /\ UNCHANGED lockVars /\ UNCHANGED <<pc, call, job>> => CallsTyped'
        /\ UNCHANGED evictVars => EvictTyped'
        /\ UNCHANGED registryVars /\ UNCHANGED <<objectVars, engine>> => Connected'
        /\ UNCHANGED live /\ UNCHANGED evictVars => Listed'
<1> SUFFICES ASSUME IInv
             PROVE  /\ UNCHANGED sessionVars => SessionsTyped'
                    /\ UNCHANGED <<objectVars, engine>> => ObjectsTyped'
                    /\ UNCHANGED lockVars /\ UNCHANGED <<pc, call, job>> => CallsTyped'
                    /\ UNCHANGED evictVars => EvictTyped'
                    /\ UNCHANGED registryVars /\ UNCHANGED <<objectVars, engine>> => Connected'
                    /\ UNCHANGED live /\ UNCHANGED evictVars => Listed'
  OBVIOUS
<1>1. UNCHANGED sessionVars => SessionsTyped'
  BY Parts DEF SessionsTyped, sessionVars
<1>2. UNCHANGED <<objectVars, engine>> => ObjectsTyped'
  BY Parts DEF ObjectsTyped, objectVars
<1>3. UNCHANGED lockVars /\ UNCHANGED <<pc, call, job>> => CallsTyped'
  BY Parts DEF CallsTyped, lockVars
<1>4. UNCHANGED evictVars => EvictTyped'
  BY Parts DEF EvictTyped, evictVars
<1>5. UNCHANGED registryVars /\ UNCHANGED <<objectVars, engine>> => Connected'
  BY DEF IInv, Connected, registryVars, objectVars
<1>6. UNCHANGED live /\ UNCHANGED evictVars => Listed'
  BY DEF IInv, Listed, evictVars
<1>7. QED
  BY <1>1, <1>2, <1>3, <1>4, <1>5, <1>6

(* A call that resolves its session takes nobody off the evictor's list.   *)
LEMMA ResolvedKeeps ==
    ASSUME IInv, NEW k, NEW s \in Sessions, Resolve(k, s) \/ Mint(k, s),
           UNCHANGED evictVars
    PROVE  SessionsTyped' /\ EvictTyped' /\ Listed'
<1>1. SessionsTyped' /\ EvictTyped'
  BY Parts, Resolved, Undisturbed
<1>2. \A j \in Keys : live[j] # None => live'[j] # None
  BY Parts, Resolved
<1>3. \A j \in Keys : live[j] \in Sessions => live'[j] \in Sessions
  BY <1>1, <1>2, Kinds DEF SessionsTyped
<1>4. Listed'
  BY <1>3, Parts, Kinds DEF IInv, Listed, EvictTyped, evictVars
<1>5. QED
  BY <1>1, <1>4

(* Only c moves.                                                           *)
LEMMA OneMoves ==
    ASSUME IInv, NEW c \in Calls, NEW p \in Points, NEW l \in Locals,
           pc' = [pc EXCEPT ![c] = p], call' = [call EXCEPT ![c] = l],
           UNCHANGED <<job, database, engine>>,
           CallReady(c)'
    PROVE  /\ pc' \in [Calls -> Points] /\ call' \in [Calls -> Locals]
           /\ CallsReady'
<1>1. pc' \in [Calls -> Points] /\ call' \in [Calls -> Locals]
  BY Parts DEF CallsTyped
<1>2. ASSUME NEW b \in Calls, b # c PROVE CallReady(b)'
  BY <1>2, Parts DEF IInv, CallsReady, CallReady, CallsTyped
<1>3. QED
  BY <1>1, <1>2 DEF CallsReady

(* An answered call holds no lock and nothing is asked of it.              *)
LEMMA Answered ==
    ASSUME IInv, NEW c \in Calls, Answer(c), UNCHANGED <<database, engine>>,
           job' \in [Calls -> Jobs],
           \A b \in Calls : job'[b].status = "running" => job'[b].data \in Databases
    PROVE  CallsTyped' /\ CallsReady'
<1>1. NoLocals \in Locals
  BY DEF NoLocals, Locals
<1>2. pc' \in [Calls -> Points] /\ call' \in [Calls -> Locals]
  BY <1>1, Parts DEF CallsTyped, Answer, Points
<1>3. binding' \in [Sessions -> Calls \cup {None}]
  BY Parts DEF CallsTyped, Answer
<1>4. writer' \in [Runtimes -> Calls \cup {None}]
  BY Parts DEF CallsTyped, Answer
<1>5. CallsReady'
  BY <1>2, Parts DEF Answer, IInv, CallsReady, CallReady, CallsTyped
<1>6. QED
  BY <1>2, <1>3, <1>4, <1>5 DEF CallsTyped

LEMMA JobsReady ==
    IInv => /\ job \in [Calls -> Jobs]
            /\ \A b \in Calls : job[b].status = "running" => job[b].data \in Databases
BY Parts DEF IInv, CallsTyped, CallsReady, CallReady

(* Adding a database to a table of what runtimes describe keeps its type.  *)
LEMMA LandedTyped ==
    ASSUME NEW table \in [Runtimes -> SUBSET Databases], NEW s, NEW d \in Databases
    PROVE  Landed(table, s, d) \in [Runtimes -> SUBSET Databases]
BY DEF Landed

(* Whoever is bound to a runtime holds it.                                 *)
LEMMA HeldCounts ==
    ASSUME Exact(Now), NEW s \in Sessions, runtimeOf[s] # None
    PROVE  runtimeOf[s] \in Runtimes /\ holders[runtimeOf[s]] > 0
<1> DEFINE r == runtimeOf[s]
<1>1. r \in Runtimes /\ runtimeOf \in [Sessions -> Runtimes \cup {None}]
  BY DEF Exact, Now, Tables
<1>2. holders[r] \in Nat /\ holders[r] = Cardinality(HoldersOf(runtimeOf, r))
  BY <1>1 DEF Exact, Now, Tables, Counted, HoldersOf
<1>3. s \in HoldersOf(runtimeOf, r) /\ IsFiniteSet(HoldersOf(runtimeOf, r))
  BY RegistryAssumption, FS_Subset DEF HoldersOf
<1>4. Cardinality(HoldersOf(runtimeOf, r)) # 0
  BY <1>3, FS_EmptySet
<1>5. QED
  BY <1>1, <1>2, <1>4

-----------------------------------------------------------------------------
(* The steps of a call that bind no session.                               *)

LEMMA StartConnectKeeps ==
    ASSUME IInv, NEW c \in Calls, NEW k \in Keys, NEW d \in Databases,
           StartConnect(c, k, d)
    PROVE  IInv'
<1>1. PICK s \in Sessions :
            /\ Resolve(k, s) \/ Mint(k, s)
            /\ call' = [call EXCEPT ![c].key = k, ![c].target = d, ![c].sess = s]
  BY DEF StartConnect
<1> DEFINE l == [call[c] EXCEPT !.key = k, !.target = d, !.sess = s]
<1>2. SessionsTyped' /\ EvictTyped' /\ Listed'
  BY <1>1, ResolvedKeeps DEF StartConnect
<1>3. call[c] \in Locals /\ pc[c] = "new"
  BY Parts DEF CallsTyped, StartConnect, Ready
<1>4. l \in Locals /\ l.sess = s
  BY <1>3 DEF Locals
<1>5. call' = [call EXCEPT ![c] = l] /\ pc' = [pc EXCEPT ![c] = "binding"]
  BY <1>1 DEF StartConnect
<1>6. CallReady(c)'
  BY <1>3, <1>4, <1>5, Parts DEF StartConnect, IInv, CallsReady, CallReady, CallsTyped,
     registryVars, Points
<1>7. CallsTyped' /\ CallsReady'
  BY <1>4, <1>5, <1>6, Parts, OneMoves
     DEF StartConnect, CallsTyped, lockVars, registryVars, Points
<1>8. QED
  BY <1>2, <1>7, Undisturbed, Together DEF StartConnect

LEMMA StartPublishKeeps ==
    ASSUME IInv, NEW c \in Calls, NEW k \in Keys, StartPublish(c, k)
    PROVE  IInv'
<1>1. PICK s \in Sessions :
            Resolve(k, s) /\ call' = [call EXCEPT ![c].key = k, ![c].sess = s]
  BY DEF StartPublish
<1> DEFINE l == [call[c] EXCEPT !.key = k, !.sess = s]
<1>2. SessionsTyped' /\ EvictTyped' /\ Listed'
  BY <1>1, ResolvedKeeps DEF StartPublish
<1>3. call[c] \in Locals /\ pc[c] = "new"
  BY Parts DEF CallsTyped, StartPublish, Ready
<1>4. l \in Locals /\ l.sess = s
  BY <1>3 DEF Locals
<1>5. call' = [call EXCEPT ![c] = l] /\ pc' = [pc EXCEPT ![c] = "binding"]
  BY <1>1 DEF StartPublish
<1>6. CallReady(c)'
  BY <1>3, <1>4, <1>5, Parts DEF StartPublish, IInv, CallsReady, CallReady, CallsTyped,
     registryVars, Points
<1>7. CallsTyped' /\ CallsReady'
  BY <1>4, <1>5, <1>6, Parts, OneMoves
     DEF StartPublish, CallsTyped, lockVars, registryVars, Points
<1>8. QED
  BY <1>2, <1>7, Undisturbed, Together DEF StartPublish

LEMMA RefuseAtTheDoorKeeps ==
    ASSUME IInv, NEW c \in Calls, NEW k \in Keys, RefuseAtTheDoor(c, k)
    PROVE  IInv'
<1>1. SessionsTyped' /\ EvictTyped' /\ Listed'
  BY Undisturbed DEF RefuseAtTheDoor, sessionVars
<1>2. call[c] \in Locals /\ call' = [call EXCEPT ![c] = call[c]]
  BY Parts DEF CallsTyped, RefuseAtTheDoor
<1>3. CallReady(c)'
  BY Parts DEF RefuseAtTheDoor, IInv, CallsReady, CallReady, CallsTyped, Points
<1>4. CallsTyped' /\ CallsReady'
  BY <1>2, <1>3, Parts, OneMoves
     DEF RefuseAtTheDoor, CallsTyped, lockVars, registryVars, Points
<1>5. QED
  BY <1>1, <1>4, Undisturbed, Together DEF RefuseAtTheDoor

LEMMA RefuseInsideKeeps ==
    ASSUME IInv, NEW c \in Calls, RefuseInside(c)
    PROVE  IInv'
<1>1. CallsTyped' /\ CallsReady'
  BY JobsReady, Answered DEF RefuseInside, registryVars
<1>2. QED
  BY <1>1, Undisturbed, Together DEF RefuseInside, sessionVars

LEMMA ConnectBeginsKeeps ==
    ASSUME IInv, NEW c \in Calls, ConnectBegins(c)
    PROVE  IInv'
<1>1. PICK s \in Sessions :
        /\ Resolve(call[c].key, s)
        /\ LET m == IF runtimeOf[s] = None /\ own[s] # None THEN own[s] ELSE c
           IN  /\ call' = [call EXCEPT ![c].manager = m]
               /\ own' = IF runtimeOf[s] = None THEN [own EXCEPT ![s] = m] ELSE own
  BY DEF ConnectBegins
<1> DEFINE m == IF runtimeOf[s] = None /\ own[s] # None THEN own[s] ELSE c
           l == [call[c] EXCEPT !.manager = m]
<1>2. SessionsTyped' /\ EvictTyped' /\ Listed'
  BY <1>1, ResolvedKeeps DEF ConnectBegins
<1>3. call[c] \in Locals /\ pc[c] = "binding" /\ m \in Calls
  BY Parts, Kinds DEF CallsTyped, ObjectsTyped, ConnectBegins, Ready
<1>4. ObjectsTyped'
  BY <1>1, <1>3, Parts, Kinds DEF ConnectBegins, ObjectsTyped
<1>5. Connected'
  BY DEF ConnectBegins, IInv, Connected, registryVars
<1>6. l \in Locals /\ l.manager = m /\ l.target = call[c].target
  BY <1>3 DEF Locals
<1>7. call' = [call EXCEPT ![c] = l] /\ pc' = [pc EXCEPT ![c] = "connecting"]
  BY <1>1 DEF ConnectBegins
<1>8. CallReady(c)'
  BY <1>3, <1>6, <1>7, Parts, Kinds DEF ConnectBegins, IInv, CallsReady, CallReady,
     CallsTyped, registryVars, Locals
<1>9. binding' \in [Sessions -> Calls \cup {None}]
  BY Parts DEF ConnectBegins, CallsTyped
<1>10. CallsTyped' /\ CallsReady'
  BY <1>6, <1>7, <1>8, <1>9, Parts, OneMoves
     DEF ConnectBegins, CallsTyped, registryVars, Points
<1>11. QED
  BY <1>2, <1>4, <1>5, <1>10, Together DEF ConnectBegins

LEMMA ConnectFailsKeeps ==
    ASSUME IInv, NEW c \in Calls, ConnectFails(c)
    PROVE  IInv'
<1>1. PICK s \in Sessions : Resolve(call[c].key, s)
  BY DEF ConnectFails
<1>2. SessionsTyped' /\ EvictTyped' /\ Listed'
  BY <1>1, ResolvedKeeps DEF ConnectFails
<1>3. CallsTyped' /\ CallsReady'
  BY JobsReady, Answered DEF ConnectFails, registryVars
<1>4. QED
  BY <1>2, <1>3, Undisturbed, Together DEF ConnectFails

LEMMA NothingToRestoreKeeps ==
    ASSUME IInv, NEW c \in Calls, NothingToRestore(c)
    PROVE  IInv'
<1>1. CallsTyped' /\ CallsReady'
  BY JobsReady, Answered DEF NothingToRestore, registryVars
<1>2. QED
  BY <1>1, Undisturbed, Together DEF NothingToRestore, sessionVars

LEMMA RestoreQueuesKeeps ==
    ASSUME IInv, NEW c \in Calls, RestoreQueues(c)
    PROVE  IInv'
<1> DEFINE l == [call[c] EXCEPT !.lock = runtimeOf[call[c].at]]
<1>1. call[c] \in Locals /\ pc[c] = "bound" /\ call[c].at \in Sessions
  BY Parts DEF CallsTyped, RestoreQueues, Ready, IInv, CallsReady, CallReady
<1>2. runtimeOf[call[c].at] \in Runtimes \cup {None}
  BY <1>1, Parts DEF RegistryTypeOK, Now, Tables
<1>3. l \in Locals
  BY <1>1, <1>2 DEF Locals
<1>4. call' = [call EXCEPT ![c] = l] /\ pc' = [pc EXCEPT ![c] = "waiting"]
  BY DEF RestoreQueues
<1>5. CallReady(c)'
  BY <1>1, <1>4, JobsReady, Parts DEF RestoreQueues, CallReady, CallsTyped
<1>6. CallsTyped' /\ CallsReady'
  BY <1>3, <1>4, <1>5, Parts, OneMoves
     DEF RestoreQueues, CallsTyped, lockVars, registryVars, Points
<1>7. QED
  BY <1>6, Undisturbed, Together DEF RestoreQueues, sessionVars

LEMMA RestoreBeginsKeeps ==
    ASSUME IInv, NEW c \in Calls, RestoreBegins(c)
    PROVE  IInv'
<1>1. call[c] \in Locals /\ call[c].target \in Databases
  BY Parts DEF CallsTyped, Locals, RestoreBegins
<1>2. call' = [call EXCEPT ![c] = call[c]] /\ pc' = [pc EXCEPT ![c] = "restoring"]
  BY Parts DEF RestoreBegins, CallsTyped
<1>3. CallReady(c)'
  BY <1>1, <1>2, JobsReady, Parts DEF RestoreBegins, CallReady, CallsTyped
<1>4. writer' \in [Runtimes -> Calls \cup {None}]
  BY Parts DEF RestoreBegins, TakeWriter, CallsTyped
<1>5. CallsTyped' /\ CallsReady'
  BY <1>1, <1>2, <1>3, <1>4, Parts, OneMoves
     DEF RestoreBegins, CallsTyped, registryVars, Points
<1>6. QED
  BY <1>5, Undisturbed, Together DEF RestoreBegins, sessionVars

LEMMA RestoreEndsKeeps ==
    ASSUME IInv, NEW c \in Calls, RestoreEnds(c)
    PROVE  IInv'
<1>1. call[c].target \in Databases
  BY DEF RestoreEnds, Ready, IInv, CallsReady, CallReady
<1>2. ObjectsTyped'
  BY <1>1, Parts, LandedTyped DEF RestoreEnds, ObjectsTyped
<1>3. Connected'
  BY DEF RestoreEnds, IInv, Connected, registryVars
<1>4. CallsTyped' /\ CallsReady'
  BY JobsReady, Answered DEF RestoreEnds, registryVars
<1>5. QED
  BY <1>2, <1>3, <1>4, Undisturbed, Together DEF RestoreEnds, sessionVars

LEMMA PublishQueuesKeeps ==
    ASSUME IInv, NEW c \in Calls, PublishQueues(c)
    PROVE  IInv'
<1> DEFINE l == [call[c] EXCEPT !.lock = runtimeOf[call[c].sess]]
<1>1. call[c] \in Locals /\ call[c].sess \in Sessions
  BY Parts DEF CallsTyped, PublishQueues, Ready, IInv, CallsReady, CallReady
<1>2. runtimeOf[call[c].sess] \in Runtimes \cup {None}
  BY <1>1, Parts DEF RegistryTypeOK, Now, Tables
<1>3. l \in Locals
  BY <1>1, <1>2 DEF Locals
<1>4. call' = [call EXCEPT ![c] = l] /\ pc' = [pc EXCEPT ![c] = "waiting"]
  BY DEF PublishQueues
<1>5. CallReady(c)'
  BY <1>1, <1>4, JobsReady, Parts DEF PublishQueues, CallReady, CallsTyped
<1>6. binding' \in [Sessions -> Calls \cup {None}]
  BY Parts DEF PublishQueues, CallsTyped
<1>7. CallsTyped' /\ CallsReady'
  BY <1>3, <1>4, <1>5, <1>6, Parts, OneMoves
     DEF PublishQueues, CallsTyped, registryVars, Points
<1>8. QED
  BY <1>7, Undisturbed, Together DEF PublishQueues, sessionVars

(* A session in no runtime is told to connect; any other is held by one    *)
(* whose manager is connected, since it holds it itself.                   *)
LEMMA PublishBeginsKeeps ==
    ASSUME IInv, NEW c \in Calls, PublishBegins(c)
    PROVE  IInv'
<1>1. PICK s \in Sessions :
        /\ Resolve(call[c].key, s)
        /\ \/ /\ runtimeOf[s] = None
              /\ WriterFree(c)
              /\ Answer(c)
              /\ own' = [own EXCEPT ![s] = IF @ = None THEN c ELSE @]
           \/ /\ runtimeOf[s] # None
              /\ TakeWriter(c)
              /\ pc' = [pc EXCEPT ![c] = "reading"]
              /\ call' = [call EXCEPT ![c].at = s, ![c].pin = runtimeOf[s],
                                     ![c].manager = managerOf[runtimeOf[s]]]
              /\ UNCHANGED <<own, binding>>
  BY DEF PublishBegins
<1>2. SessionsTyped' /\ EvictTyped' /\ Listed'
  BY <1>1, ResolvedKeeps DEF PublishBegins
<1>3. ObjectsTyped'
  <2>1. own' \in [Sessions -> Calls \cup {None}]
    BY <1>1, Parts DEF ObjectsTyped
  <2>2. QED
    BY <2>1, Parts DEF PublishBegins, ObjectsTyped
<1>4. Connected'
  BY DEF PublishBegins, IInv, Connected, registryVars
<1>5. CASE Answer(c)
  <2>1. CallsTyped' /\ CallsReady'
    BY <1>5, JobsReady, Answered DEF PublishBegins, registryVars
  <2>2. QED
    BY <1>2, <1>3, <1>4, <2>1, Together DEF PublishBegins
<1>6. CASE /\ runtimeOf[s] # None
           /\ TakeWriter(c)
           /\ pc' = [pc EXCEPT ![c] = "reading"]
           /\ call' = [call EXCEPT ![c].at = s, ![c].pin = runtimeOf[s],
                                  ![c].manager = managerOf[runtimeOf[s]]]
           /\ UNCHANGED <<own, binding>>
  <2> DEFINE r == runtimeOf[s]
             l == [call[c] EXCEPT !.at = s, !.pin = r, !.manager = managerOf[r]]
  <2>1. r \in Runtimes /\ holders[r] > 0
    BY <1>6, HeldCounts DEF IInv
  <2>2. managerOf[r] \in Calls /\ engine[managerOf[r]] \in Databases
    BY <2>1, Parts DEF IInv, Connected, ObjectsTyped
  <2>3. call[c] \in Locals
    BY Parts DEF CallsTyped
  <2>4. l \in Locals /\ l.at = s /\ l.manager = managerOf[r]
    BY <2>1, <2>2, <2>3 DEF Locals
  <2>5. call' = [call EXCEPT ![c] = l] /\ pc' = [pc EXCEPT ![c] = "reading"]
    BY <1>6
  <2>6. CallReady(c)'
    BY <2>2, <2>4, <2>5, JobsReady, Parts DEF PublishBegins, CallReady, CallsTyped
  <2>7. writer' \in [Runtimes -> Calls \cup {None}]
    BY <1>6, Parts DEF TakeWriter, CallsTyped
  <2>8. CallsTyped' /\ CallsReady'
    BY <1>6, <2>4, <2>5, <2>6, <2>7, Parts, OneMoves
       DEF PublishBegins, CallsTyped, registryVars, Points
  <2>9. QED
    BY <1>2, <1>3, <1>4, <2>8, Together DEF PublishBegins
<1>7. QED
  BY <1>1, <1>5, <1>6

LEMMA WorkerReadsKeeps ==
    ASSUME IInv, NEW c \in Calls, WorkerReads(c)
    PROVE  IInv'
<1> DEFINE l == [call[c] EXCEPT !.data = engine[call[c].manager]]
<1>1. /\ call[c] \in Locals
      /\ call[c].at \in Sessions
      /\ engine[call[c].manager] \in Databases
  BY Parts DEF CallsTyped, WorkerReads, Ready, IInv, CallsReady, CallReady
<1>2. l \in Locals /\ l.data \in Databases /\ l.at = call[c].at
  BY <1>1 DEF Locals
<1>3. call' = [call EXCEPT ![c] = l] /\ pc' = [pc EXCEPT ![c] = "read"]
  BY DEF WorkerReads
<1>4. CallReady(c)'
  BY <1>1, <1>2, <1>3, JobsReady, Parts DEF WorkerReads, CallReady, CallsTyped
<1>5. CallsTyped' /\ CallsReady'
  BY <1>2, <1>3, <1>4, Parts, OneMoves
     DEF WorkerReads, CallsTyped, lockVars, registryVars, Points
<1>6. QED
  BY <1>5, Undisturbed, Together DEF WorkerReads, sessionVars

LEMMA DiscardKeeps ==
    ASSUME IInv, NEW c \in Calls, Discard(c)
    PROVE  IInv'
<1>1. CallsTyped' /\ CallsReady'
  BY JobsReady, Answered DEF Discard, registryVars
<1>2. QED
  BY <1>1, Undisturbed, Together DEF Discard, sessionVars

LEMMA PublishKeeps ==
    ASSUME IInv, NEW c \in Calls, Publish(c)
    PROVE  IInv'
<1>1. call[c] \in Locals /\ call[c].data \in Databases /\ call[c].at \in Sessions
  BY Parts DEF CallsTyped, Publish, Ready, IInv, CallsReady, CallReady
<1>2. ObjectsTyped'
  BY <1>1, Parts, LandedTyped DEF Publish, ObjectsTyped
<1>3. Connected'
  BY DEF Publish, IInv, Connected, registryVars
<1>4. call' = [call EXCEPT ![c] = call[c]] /\ pc' = [pc EXCEPT ![c] = "published"]
  BY Parts DEF Publish, CallsTyped
<1>5. CallReady(c)'
  BY <1>1, <1>4, JobsReady, Parts DEF Publish, CallReady, CallsTyped
<1>6. CallsTyped' /\ CallsReady'
  BY <1>1, <1>4, <1>5, Parts, OneMoves
     DEF Publish, CallsTyped, lockVars, registryVars, Points
<1>7. QED
  BY <1>2, <1>3, <1>6, Undisturbed, Together DEF Publish, sessionVars

LEMMA PublishEndsKeeps ==
    ASSUME IInv, NEW c \in Calls, PublishEnds(c)
    PROVE  IInv'
<1> DEFINE task == [status |-> "running", at |-> call[c].at,
                    pin |-> stateOf[call[c].at], data |-> call[c].data]
<1>1. call[c].data \in Databases /\ call[c].at \in Sessions
  BY DEF PublishEnds, Ready, IInv, CallsReady, CallReady
<1>2. task \in Jobs
  BY <1>1, Parts DEF Jobs, ObjectsTyped
<1>3. job' = job \/ job' = [job EXCEPT ![c] = task]
  BY DEF PublishEnds
<1>4. /\ job' \in [Calls -> Jobs]
      /\ \A b \in Calls : job'[b].status = "running" => job'[b].data \in Databases
  BY <1>1, <1>2, <1>3, JobsReady
<1>5. CallsTyped' /\ CallsReady'
  BY <1>4, Answered DEF PublishEnds, registryVars
<1>6. QED
  BY <1>5, Undisturbed, Together DEF PublishEnds, sessionVars

-----------------------------------------------------------------------------
(* Background tasks.                                                       *)

LEMMA TaskEnds ==
    ASSUME IInv, NEW c \in Calls, job' = [job EXCEPT ![c] = Ended],
           UNCHANGED lockVars, UNCHANGED <<pc, call, database, engine>>
    PROVE  CallsTyped' /\ CallsReady'
<1>1. Ended \in Jobs /\ Ended.status = "ended"
  BY DEF Ended, NoJob, Jobs
<1>2. job' \in [Calls -> Jobs]
  BY <1>1, JobsReady
<1>3. CallsTyped'
  BY <1>2, Parts DEF CallsTyped, lockVars
<1>4. CallsReady'
  BY <1>1, JobsReady DEF IInv, CallsReady, CallReady
<1>5. QED
  BY <1>3, <1>4

LEMMA IndexInstalledKeeps ==
    ASSUME IInv, NEW c \in Calls, IndexInstalled(c)
    PROVE  IInv'
<1>1. job[c].data \in Databases
  BY DEF IndexInstalled, IInv, CallsReady, CallReady
<1>2. index' \in [Runtimes -> SUBSET Databases]
  BY <1>1, Parts DEF IndexInstalled, ObjectsTyped
<1>3. ObjectsTyped'
  BY <1>2, Parts DEF IndexInstalled, ObjectsTyped
<1>4. Connected'
  BY DEF IndexInstalled, IInv, Connected, registryVars
<1>5. CallsTyped' /\ CallsReady'
  BY TaskEnds DEF IndexInstalled, registryVars
<1>6. QED
  BY <1>3, <1>4, <1>5, Undisturbed, Together DEF IndexInstalled, sessionVars

LEMMA TaskStopsKeeps ==
    ASSUME IInv, NEW c \in Calls, TaskStops(c)
    PROVE  IInv'
<1>1. CallsTyped' /\ CallsReady'
  BY TaskEnds DEF TaskStops, registryVars
<1>2. QED
  BY <1>1, Undisturbed, Together DEF TaskStops, sessionVars

LEMMA ScanKeeps ==
    ASSUME IInv, Scan
    PROVE  IInv'
<1>1. PICK found \in SUBSET {k \in Keys : live[k] # None} :
        /\ evicting' = found
        /\ idle' = [s \in Sessions |-> idle[s] \/ \E k \in found : live[k] = s]
  BY DEF Scan
<1>2. SessionsTyped'
  BY <1>1, Parts DEF Scan, SessionsTyped
<1>3. scans' \in 0..MaxScans
  BY SessionAssumption, Parts DEF Scan, EvictTyped
<1>4. EvictTyped'
  BY <1>1, <1>3, Parts DEF Scan, EvictTyped
<1>5. Listed'
  BY <1>1, Parts DEF Scan, Listed, SessionsTyped
<1>6. CallsReady'
  BY DEF Scan, IInv, CallsReady, CallReady, registryVars
<1>7. QED
  BY <1>2, <1>4, <1>5, <1>6, Undisturbed, Together DEF Scan

-----------------------------------------------------------------------------
(* Leaving and binding, as the registry sees them.                         *)

HoldersWithout(s, q) == IF q = runtimeOf[s] THEN holders[q] - 1 ELSE holders[q]

(* What is left of the tables when s has gone.                             *)
LEMMA Left ==
    ASSUME IInv, NEW s \in Sessions
    PROVE  LET left == Detached(Now, s)
           IN  /\ Exact(left) /\ left.runtimeOf[s] = None
               /\ left.runtimeOf = [runtimeOf EXCEPT ![s] = None]
               /\ left.database = database
               /\ \A q \in Runtimes : left.holders[q] = HoldersWithout(s, q)
               /\ \A q \in Runtimes : left.holders[q] <= holders[q]
               /\ \A q \in Abandoned(s) : left.holders[q] <= 0
               /\ \A d \in Databases :
                    ~OnDatabase(Now, s, d) => left.registry[d] = registry[d]
<1> DEFINE left == Detached(Now, s)
<1>1. Exact(left) /\ left.runtimeOf[s] = None
  BY DetachedExact DEF IInv
<1>2. CASE runtimeOf[s] = None
  <2>1. left = Now /\ Abandoned(s) = {}
    BY <1>2 DEF Detached, Now, Abandoned, LastHolder
  <2>2. /\ runtimeOf \in [Sessions -> Runtimes \cup {None}]
        /\ \A q \in Runtimes : holders[q] \in Nat
    BY Parts DEF RegistryTypeOK, Now, Tables
  <2>3. /\ runtimeOf = [runtimeOf EXCEPT ![s] = None]
        /\ \A q \in Runtimes : holders[q] = HoldersWithout(s, q)
    BY <1>2, <2>2, Kinds, RegistryAssumption DEF HoldersWithout
  <2>4. /\ left.runtimeOf = runtimeOf /\ left.holders = holders
        /\ left.database = database /\ left.registry = registry
    BY <2>1 DEF Now
  <2>5. /\ left.runtimeOf = [runtimeOf EXCEPT ![s] = None]
        /\ \A q \in Runtimes : left.holders[q] = HoldersWithout(s, q)
        /\ \A q \in Runtimes : left.holders[q] <= holders[q]
    <3> HIDE DEF left
    <3>1. QED
      BY <2>2, <2>3, <2>4
  <2>6. /\ \A q \in Abandoned(s) : left.holders[q] <= 0
        /\ \A d \in Databases : left.registry[d] = registry[d]
    <3> HIDE DEF left
    <3>1. QED
      BY <2>1, <2>4
  <2>7. QED
    BY <1>1, <2>4, <2>5, <2>6
<1>3. CASE runtimeOf[s] # None
  <2> DEFINE r == runtimeOf[s]
  <2>1. Now \in Tables /\ Now.runtimeOf[s] # None
    BY <1>3, Parts DEF RegistryTypeOK, Now
  <2>2. /\ left.runtimeOf = [runtimeOf EXCEPT ![s] = None]
        /\ left.holders = [holders EXCEPT ![r] = holders[r] - 1]
        /\ left.database = database
        /\ left.registry = IF holders[r] - 1 <= 0
                           THEN [registry EXCEPT ![database[r]] = None]
                           ELSE registry
    BY <2>1, DetachedParts DEF Now
  <2>3. r \in Runtimes /\ holders \in [Runtimes -> Nat]
        /\ registry \in [Databases -> Runtimes \cup {None}]
    BY <1>3, <2>1 DEF Now, Tables
  <2>4. \A q \in Runtimes : left.holders[q] <= holders[q]
    BY <2>2, <2>3
  <2>5. \A q \in Abandoned(s) : left.holders[q] <= 0
    BY <2>2, <2>3, ZenonT(60) DEF Abandoned, LastHolder, Now
  <2>6. \A d \in Databases : ~OnDatabase(Now, s, d) => left.registry[d] = registry[d]
    BY <1>3, <2>2, <2>3 DEF OnDatabase, Now
  <2>7. \A q \in Runtimes : left.holders[q] = HoldersWithout(s, q)
    BY <2>2, <2>3 DEF HoldersWithout
  <2>8. QED
    BY <1>1, <2>2, <2>4, <2>5, <2>6, <2>7
<1>4. QED
  BY <1>2, <1>3

(* What r is to the others when c gives it to s for d ...                  *)
Chosen(c, s, d, clear, r) ==
    /\ r = c \/ database[r] = d
    /\ ~clear /\ OnDatabase(Now, s, d) => r = runtimeOf[s]
    /\ database'[r] = d
    /\ holders'[r] > 0
    /\ runtimeOf' = [runtimeOf EXCEPT ![s] = r]
    /\ \A q \in Runtimes \ {r} :
         /\ database'[q] = database[q]
         /\ holders'[q] <= holders[q]
         /\ holders'[q] = HoldersWithout(s, q)
         /\ clear /\ q \in Abandoned(s) => holders'[q] <= 0

(* ... and what s shares from then on.                                     *)
Shared(c, s, clear, r, healthy) ==
    /\ managerOf' = [(IF clear THEN ManagersLeft(s) ELSE managerOf) EXCEPT
                        ![r] = ManagerKept(@, call[c].manager, healthy)]
    /\ stateOf' = [stateOf EXCEPT ![s] = r]
    /\ cache' = [Emptied(cache, s, clear) EXCEPT
                    ![r] = IF holders'[r] > 1 THEN @ ELSE {}]

(* The runtime a call gives its session has the database already or is the *)
(* call's own, still unmade; the others keep their database and lose       *)
(* holders only.                                                           *)
LEMMA BindToBinds ==
    ASSUME IInv, NEW c \in Calls, NEW s \in Sessions, NEW d \in Databases,
           NEW clear \in BOOLEAN, BindTo(c, s, d, clear), database[c] = None
    PROVE  /\ [RegistryNext]_registryVars
           /\ \E r \in Runtimes, healthy \in BOOLEAN :
                Chosen(c, s, d, clear, r) /\ Shared(c, s, clear, r, healthy)
<1> DEFINE left == Detached(Now, s)
           old == IF clear THEN left ELSE Now
<1>1. PICK r \in Runtimes, healthy \in BOOLEAN :
        /\ r = IF OnDatabase(old, s, d) THEN old.runtimeOf[s]
               ELSE RuntimeChosen(old, c, d)
        /\ Become(Bound(old, s, d, r))
        /\ Shared(c, s, clear, r, healthy)
  BY DEF BindTo, Shared
<1>2. /\ Exact(left) /\ left.runtimeOf[s] = None
      /\ left.runtimeOf = [runtimeOf EXCEPT ![s] = None]
      /\ left.database = database
      /\ \A q \in Runtimes : left.holders[q] = HoldersWithout(s, q)
      /\ \A q \in Runtimes : left.holders[q] <= holders[q]
      /\ \A q \in Abandoned(s) : left.holders[q] <= 0
      /\ ~OnDatabase(Now, s, d) => left.registry[d] = registry[d]
  BY Left
<1>3. CASE OnDatabase(old, s, d)
  <2>1. ~clear /\ OnDatabase(Now, s, d)
    BY <1>2, <1>3 DEF OnDatabase
  <2>2. r = runtimeOf[s] /\ Become(Now)
    BY <1>1, <1>3, <2>1 DEF Bound, Now
  <2>3. UNCHANGED registryVars
    BY <2>2 DEF Become, Now, registryVars
  <2>4. /\ database[r] = d /\ runtimeOf = [runtimeOf EXCEPT ![s] = r]
        /\ \A q \in Runtimes : holders[q] \in Nat
    BY <2>1, <2>2, Parts DEF OnDatabase, Now, RegistryTypeOK, Tables
  <2>5. \A q \in Runtimes \ {r} : HoldersWithout(s, q) = holders[q]
    BY <2>2 DEF HoldersWithout
  <2>6. holders[r] > 0
    BY <2>1, <2>2, HeldCounts DEF IInv, OnDatabase, Now
  <2>7. Chosen(c, s, d, clear, r)
    BY <2>1, <2>2, <2>3, <2>4, <2>5, <2>6 DEF registryVars, Chosen
  <2>8. QED
    BY <1>1, <2>3, <2>7
<1>4. CASE ~OnDatabase(old, s, d)
  <2>1. Detached(left, s) = left /\ Detached(old, s) = left
    BY <1>2 DEF Detached
  <2>2. Become(Joined(left, s, d, r))
    BY <1>1, <1>4, <2>1 DEF Bound
  <2>3. r = IF left.registry[d] = None THEN c ELSE left.registry[d]
    <3>1. old.registry[d] = left.registry[d]
      BY <1>2, <1>4 DEF Now
    <3>2. QED
      BY <1>1, <1>4, <3>1 DEF RuntimeChosen
  <2>4. RuntimeFor(left, d, r)
    BY <1>2, <2>3 DEF RuntimeFor
  <2>5. RegistryNext
    <3>1. CASE clear
      <4>1. Rebind(s, d)
        <5>1. Become(Bound(left, s, d, r))
          BY <1>1, <3>1
        <5>2. RuntimeFor(Detached(Now, s), d, r) /\ Become(Bound(Detached(Now, s), s, d, r))
          BY <2>4, <5>1
        <5>3. QED
          BY <5>2 DEF Rebind
      <4>2. QED
        BY <4>1 DEF RegistryNext
    <3>2. CASE ~clear
      <4>1. Bind(s, d)
        <5>1. Become(Bound(Now, s, d, r))
          BY <1>1, <3>2
        <5>2. QED
          BY <2>4, <5>1 DEF Bind
      <4>2. QED
        BY <4>1 DEF RegistryNext
    <3>3. QED
      BY <3>1, <3>2
  <2>6. left \in Tables /\ Indexed(left)
    BY <1>2 DEF Exact
  <2>7. \A q \in Runtimes \ {r} : holders'[q] = left.holders[q] /\ database'[q] = database[q]
    BY <1>2, <2>2, <2>6 DEF Become, Joined, Tables
  <2>8. r = c \/ database[r] = d
    BY <1>2, <2>3, <2>6 DEF Indexed
  <2>9. database'[r] = d /\ holders'[r] > 0
    BY <2>2, <2>6 DEF Become, Joined, Tables
  <2>10. runtimeOf' = [runtimeOf EXCEPT ![s] = r]
    <3>1. runtimeOf' = [left.runtimeOf EXCEPT ![s] = r]
      BY <2>2 DEF Become, Joined
    <3>2. runtimeOf \in [Sessions -> Runtimes \cup {None}]
      BY Parts DEF RegistryTypeOK, Now, Tables
    <3>3. QED
      BY <1>2, <3>1, <3>2
  <2>11. Chosen(c, s, d, clear, r)
    BY <1>2, <1>4, <2>7, <2>8, <2>9, <2>10 DEF Chosen
  <2>12. QED
    BY <1>1, <2>5, <2>11
<1>5. QED
  BY <1>3, <1>4

(* Cancelling tasks starts none.                                           *)
LEMMA CancelAllReady ==
    ASSUME IInv, NEW tasks
    PROVE  /\ CancelAll(tasks) \in [Calls -> Jobs]
           /\ \A b \in Calls : CancelAll(tasks)[b].status = "running" =>
                CancelAll(tasks)[b].data \in Databases
<1>1. \A b \in Calls : [job[b] EXCEPT !.status = "cancelled"] \in Jobs
  BY JobsReady DEF Jobs
<1>2. CancelAll(tasks) \in [Calls -> Jobs]
  BY <1>1, JobsReady DEF CancelAll
<1>3. \A b \in Calls : CancelAll(tasks)[b].status = "running" =>
            CancelAll(tasks)[b].data \in Databases
  <2> SUFFICES ASSUME NEW b \in Calls, CancelAll(tasks)[b].status = "running"
               PROVE  CancelAll(tasks)[b].data \in Databases
    OBVIOUS
  <2>1. CASE b \in tasks
    <3>1. CancelAll(tasks)[b].status = "cancelled"
      BY <2>1, JobsReady DEF CancelAll, Jobs
    <3>2. QED
      BY <3>1
  <2>2. CASE b \notin tasks
    BY <2>2, JobsReady DEF CancelAll
  <2>3. QED
    BY <2>1, <2>2
<1>4. QED
  BY <1>2, <1>3

(* Whoever binds a session with a connected manager keeps what the others  *)
(* rely on.                                                                *)
LEMMA BindToKeeps ==
    ASSUME IInv, NEW c \in Calls, NEW s \in Sessions, NEW d \in Databases,
           NEW clear \in BOOLEAN, BindTo(c, s, d, clear), database[c] = None,
           call[c].manager \in Calls,
           engine' \in [Calls -> Databases \cup {None}],
           engine'[call[c].manager] \in Databases,
           \A m \in Calls : engine[m] \in Databases => engine'[m] \in Databases,
           NEW l \in Locals, l.at \in Sessions, call' = [call EXCEPT ![c] = l],
           UNCHANGED lockVars
    PROVE  /\ [RegistryNext]_registryVars
           /\ ObjectsTyped' /\ CallsTyped' /\ CallsReady' /\ Connected'
<1> DEFINE managers == IF clear THEN ManagersLeft(s) ELSE managerOf
           m == call[c].manager
<1>0. [RegistryNext]_registryVars
  BY BindToBinds
<1>1. PICK r \in Runtimes, healthy \in BOOLEAN :
        Chosen(c, s, d, clear, r) /\ Shared(c, s, clear, r, healthy)
  BY BindToBinds
<1>2. managers \in [Runtimes -> Calls \cup {None}]
  BY Parts DEF ObjectsTyped, ManagersLeft
<1>3. managerOf' = [managers EXCEPT ![r] = ManagerKept(managers[r], m, healthy)]
  BY <1>1 DEF Shared
<1>4. ManagerKept(managers[r], m, healthy) \in {managers[r], m} \ {None}
  BY Kinds DEF ManagerKept
<1>5. ObjectsTyped'
  <2>1. /\ linked' \in [Sessions -> Databases \cup {None}]
        /\ own' \in [Sessions -> Calls \cup {None}]
    BY Parts DEF BindTo, ObjectsTyped
  <2>2. stateOf' \in [Sessions -> Runtimes \cup {None}]
    BY <1>1, Parts DEF Shared, ObjectsTyped
  <2>3. managerOf' \in [Runtimes -> Calls \cup {None}]
    BY <1>2, <1>3, <1>4
  <2>4. \A table \in [Runtimes -> SUBSET Databases] :
            Emptied(table, s, clear) \in [Runtimes -> SUBSET Databases]
    BY DEF Emptied
  <2>5. cache' \in [Runtimes -> SUBSET Databases]
    BY <1>1, <2>4, Parts DEF Shared, ObjectsTyped
  <2>6. index' \in [Runtimes -> SUBSET Databases]
    BY <2>4, Parts DEF BindTo, ObjectsTyped
  <2>7. QED
    BY <2>1, <2>2, <2>3, <2>5, <2>6 DEF ObjectsTyped
<1>6. /\ job' \in [Calls -> Jobs]
      /\ \A b \in Calls : job'[b].status = "running" => job'[b].data \in Databases
  <2>1. job' = job \/ \E tasks : job' = CancelAll(tasks)
    BY DEF BindTo, TasksLeft
  <2>2. QED
    BY <2>1, JobsReady, CancelAllReady
<1>7. pc' = [pc EXCEPT ![c] = "bound"]
  BY DEF BindTo
<1>8. CallsTyped'
  BY <1>6, <1>7, Parts DEF CallsTyped, lockVars, Points
<1>9. CallsReady'
  <2> SUFFICES ASSUME NEW b \in Calls PROVE CallReady(b)'
    BY DEF CallsReady
  <2>1. CASE b = c
    <3>1. pc'[c] = "bound" /\ call'[c] = l
      BY <1>7, Parts DEF CallsTyped
    <3>2. QED
      BY <2>1, <3>1, <1>6 DEF CallReady
  <2>2. CASE b # c
    <3>1. pc'[b] = pc[b] /\ call'[b] = call[b] /\ CallReady(b) /\ call[b] \in Locals
      BY <2>2, <1>7, Parts DEF CallsTyped, IInv, CallsReady
    <3>2. database[b] = None => database'[b] = None
      BY <2>2, <1>1, Kinds DEF Chosen
    <3>3. engine[call[b].manager] \in Databases /\ call[b].manager \in Calls
            => engine'[call[b].manager] \in Databases
      OBVIOUS
    <3>4. pc[b] = "clearing" => call[b].manager \in Calls
      BY <3>1 DEF CallReady
    <3>5. QED
      BY <3>1, <3>2, <3>3, <3>4, <1>6 DEF CallReady
  <2>3. QED
    BY <2>1, <2>2
<1>10. Connected'
  <2> SUFFICES ASSUME NEW q \in Runtimes
               PROVE  /\ holders'[q] > 0 => managerOf'[q] # None
                      /\ managerOf'[q] # None => engine'[managerOf'[q]] \in Databases
    BY DEF Connected
  <2>1. /\ holders[q] > 0 => managerOf[q] # None
        /\ managerOf[q] # None => managerOf[q] \in Calls /\ engine[managerOf[q]] \in Databases
    BY Parts DEF IInv, Connected, ObjectsTyped
  <2>2. managers[q] = managerOf[q] \/ (clear /\ q \in Abandoned(s) /\ managers[q] = None)
    BY DEF ManagersLeft
  <2>3. CASE q = r
    <3>1. managerOf'[q] \in {managers[q], m} \ {None}
      BY <2>3, <1>2, <1>3, <1>4
    <3>2. QED
      BY <3>1, <2>1, <2>2
  <2>4. CASE q # r
    <3>1. managerOf'[q] = managers[q]
      BY <2>4, <1>2, <1>3
    <3>2. holders[q] \in Nat /\ holders'[q] <= holders[q]
          /\ (clear /\ q \in Abandoned(s) => holders'[q] <= 0)
      BY <2>4, <1>1, Parts DEF Chosen, RegistryTypeOK, Now, Tables
    <3>3. holders'[q] \in Nat
      <4>1. Exact(Now)'
        BY <1>0, RegistryNextExact DEF IInv
      <4>2. QED
        BY <4>1 DEF Exact, Now, Tables
    <3>4. QED
      BY <3>1, <3>2, <3>3, <2>1, <2>2
  <2>5. QED
    BY <2>3, <2>4
<1>11. QED
  BY <1>0, <1>5, <1>8, <1>9, <1>10

LEMMA ConnectSucceedsKeeps ==
    ASSUME IInv, NEW c \in Calls, ConnectSucceeds(c)
    PROVE  IInv' /\ [RegistryNext]_registryVars
<1> DEFINE d == call[c].target
           m == call[c].manager
<1>1. PICK s \in Sessions :
        /\ Resolve(call[c].key, s)
        /\ \/ /\ Changes(s, d)
              /\ Cancellable(s) # {}
              /\ call' = [call EXCEPT ![c].at = s, ![c].awaited = Cancellable(s)]
              /\ job' = CancelAll(Cancellable(s))
              /\ pc' = [pc EXCEPT ![c] = "clearing"]
              /\ UNCHANGED <<registryVars, objectVars>>
           \/ /\ Changes(s, d) => Cancellable(s) = {}
              /\ call' = [call EXCEPT ![c].at = s]
              /\ BindTo(c, s, d, Changes(s, d))
  BY DEF ConnectSucceeds
<1>2. SessionsTyped' /\ EvictTyped' /\ Listed'
  BY <1>1, ResolvedKeeps DEF ConnectSucceeds
<1>3. /\ call[c] \in Locals /\ d \in Databases /\ m \in Calls
      /\ database[c] = None /\ pc[c] = "connecting"
  BY Parts DEF CallsTyped, ConnectSucceeds, Ready, IInv, CallsReady, CallReady
<1>4. engine' = [engine EXCEPT ![m] = d]
  BY DEF ConnectSucceeds
<1>5. /\ engine' \in [Calls -> Databases \cup {None}]
      /\ engine'[m] \in Databases
      /\ \A e \in Calls : engine[e] \in Databases => engine'[e] \in Databases
  BY <1>3, <1>4, Parts DEF ObjectsTyped
<1>6. CASE /\ call' = [call EXCEPT ![c].at = s, ![c].awaited = Cancellable(s)]
           /\ job' = CancelAll(Cancellable(s))
           /\ pc' = [pc EXCEPT ![c] = "clearing"]
           /\ UNCHANGED <<registryVars, objectVars>>
  <2> DEFINE l == [call[c] EXCEPT !.at = s, !.awaited = Cancellable(s)]
  <2>1. Cancellable(s) \in SUBSET Calls
    BY DEF Cancellable, InitTasks
  <2>2. l \in Locals /\ l.at = s /\ l.target = d /\ l.manager = m
    BY <1>3, <2>1, ZenonT(60) DEF Locals
  <2>3. call' = [call EXCEPT ![c] = l]
    BY <1>6
  <2>4. /\ job' \in [Calls -> Jobs]
        /\ \A b \in Calls : job'[b].status = "running" => job'[b].data \in Databases
    BY <1>6, CancelAllReady
  <2>5. CallsTyped'
    BY <1>6, <2>2, <2>3, <2>4, Parts DEF ConnectSucceeds, CallsTyped, lockVars, Points
  <2>6. ObjectsTyped'
    BY <1>5, <1>6, Parts DEF ObjectsTyped, objectVars
  <2>7. CallsReady'
    <3> SUFFICES ASSUME NEW b \in Calls PROVE CallReady(b)'
      BY DEF CallsReady
    <3>1. database' = database
      BY <1>6 DEF registryVars
    <3>2. CASE b = c
      <4>1. pc'[b] = "clearing" /\ call'[b] = l
        BY <1>6, <2>3, <3>2, Parts DEF CallsTyped
      <4>2. QED
        BY <3>1, <3>2, <4>1, <2>2, <2>4, <1>3, <1>5 DEF CallReady
    <3>3. CASE b # c
      <4>1. pc'[b] = pc[b] /\ call'[b] = call[b] /\ CallReady(b)
        BY <1>6, <2>3, <3>3, Parts DEF CallsTyped, IInv, CallsReady
      <4>2. pc[b] = "clearing" => call[b].manager \in Calls
        BY <4>1 DEF CallReady
      <4>3. QED
        BY <1>5, <2>4, <3>1, <4>1, <4>2 DEF CallReady
    <3>4. QED
      BY <3>2, <3>3
  <2>8. Connected'
    BY <1>5, <1>6, Parts DEF IInv, Connected, ObjectsTyped, registryVars, objectVars
  <2>9. QED
    BY <1>2, <1>6, <2>5, <2>6, <2>7, <2>8, Together
<1>7. CASE /\ call' = [call EXCEPT ![c].at = s]
           /\ BindTo(c, s, d, Changes(s, d))
  <2> DEFINE l == [call[c] EXCEPT !.at = s]
             clear == Changes(s, d)
  <2>1. l \in Locals /\ l.at \in Sessions
    BY <1>3 DEF Locals
  <2>2. call' = [call EXCEPT ![c] = l]
    BY <1>7
  <2>3. clear \in BOOLEAN
    BY DEF Changes
  <2>4. BindTo(c, s, d, clear) /\ UNCHANGED lockVars
    BY <1>7 DEF ConnectSucceeds
  <2> HIDE DEF l, clear
  <2>5. /\ [RegistryNext]_registryVars
        /\ ObjectsTyped' /\ CallsTyped' /\ CallsReady' /\ Connected'
    BY <1>3, <1>5, <2>1, <2>2, <2>3, <2>4, BindToKeeps
  <2>6. QED
    BY <1>2, <2>5, Together
<1>8. QED
  BY <1>1, <1>6, <1>7

LEMMA ClearedThenBoundKeeps ==
    ASSUME IInv, NEW c \in Calls, ClearedThenBound(c)
    PROVE  IInv' /\ [RegistryNext]_registryVars
<1> DEFINE s == call[c].at
           d == call[c].target
<1>1. /\ call[c] \in Locals /\ d \in Databases /\ call[c].manager \in Calls
      /\ s \in Sessions /\ database[c] = None /\ engine[call[c].manager] \in Databases
  BY Parts DEF CallsTyped, ClearedThenBound, Ready, IInv, CallsReady, CallReady
<1>2. call' = [call EXCEPT ![c] = call[c]] /\ engine' = engine
  BY Parts DEF CallsTyped, ClearedThenBound
<1>3. engine' \in [Calls -> Databases \cup {None}]
  BY <1>2, Parts DEF ObjectsTyped
<1>4. BindTo(c, s, d, TRUE) /\ UNCHANGED lockVars
  BY DEF ClearedThenBound
<1>5. /\ [RegistryNext]_registryVars
      /\ ObjectsTyped' /\ CallsTyped' /\ CallsReady' /\ Connected'
  BY <1>1, <1>2, <1>3, <1>4, BindToKeeps
<1>6. SessionsTyped' /\ EvictTyped' /\ Listed'
  BY Undisturbed DEF ClearedThenBound, sessionVars
<1>7. QED
  BY <1>5, <1>6, Together

(* A release takes one live session out of the registry.                   *)
LEMMA ReleaseKeeps ==
    ASSUME IInv, NEW k \in Keys, live[k] \in Sessions, Release(k),
           UNCHANGED lockVars, UNCHANGED <<engine, pc, call>>
    PROVE  /\ [RegistryNext]_registryVars
           /\ SessionsTyped' /\ ObjectsTyped' /\ CallsTyped' /\ CallsReady' /\ Connected'
           /\ overtaken' \in BOOLEAN
           /\ \A j \in Keys \ {k} : live'[j] = live[j]
<1> DEFINE s == live[k]
           left == Detached(Now, s)
<1>1. /\ Exact(left)
      /\ left.database = database
      /\ \A q \in Runtimes : left.holders[q] <= holders[q]
      /\ \A q \in Abandoned(s) : left.holders[q] <= 0
  BY Left
<1>2. Unbind(s) /\ managerOf' = ManagersLeft(s) /\ job' = TasksLeft(s)
  BY DEF Release
<1>3. RegistryNext
  BY <1>2 DEF RegistryNext
<1>4. holders' = left.holders /\ database' = database
  BY <1>1, <1>2 DEF Unbind, Become
<1>5. SessionsTyped' /\ \A j \in Keys \ {k} : live'[j] = live[j]
  BY Parts DEF Release, SessionsTyped
<1>6. managerOf' \in [Runtimes -> Calls \cup {None}]
  BY <1>2, Parts DEF ObjectsTyped, ManagersLeft
<1>7. ObjectsTyped'
  BY <1>6, Parts DEF Release, ObjectsTyped
<1>8. /\ job' \in [Calls -> Jobs]
      /\ \A b \in Calls : job'[b].status = "running" => job'[b].data \in Databases
  BY <1>2, CancelAllReady DEF TasksLeft
<1>9. CallsTyped'
  BY <1>8, Parts DEF CallsTyped, lockVars
<1>10. CallsReady'
  BY <1>4, <1>8 DEF IInv, CallsReady, CallReady
<1>11. Connected'
  <2> SUFFICES ASSUME NEW q \in Runtimes
               PROVE  /\ holders'[q] > 0 => managerOf'[q] # None
                      /\ managerOf'[q] # None => engine'[managerOf'[q]] \in Databases
    BY DEF Connected
  <2>1. /\ holders[q] > 0 => managerOf[q] # None
        /\ managerOf[q] # None => engine[managerOf[q]] \in Databases
    BY DEF IInv, Connected
  <2>2. managerOf'[q] = managerOf[q] \/ (q \in Abandoned(s) /\ managerOf'[q] = None)
    BY <1>2 DEF ManagersLeft
  <2>3. holders[q] \in Nat /\ left.holders[q] \in Nat
    BY <1>1, Parts DEF Exact, RegistryTypeOK, Now, Tables
  <2>4. QED
    BY <1>1, <1>4, <2>1, <2>2, <2>3
<1>12. overtaken' \in BOOLEAN
  <2> DEFINE o == \E c \in Calls : InFlight(c) /\ s \in {call[c].sess, call[c].at}
  <2>1. overtaken' = (overtaken \/ o)
    BY DEF Release
  <2>2. o \in BOOLEAN /\ overtaken \in BOOLEAN
    BY Parts DEF EvictTyped
  <2> HIDE DEF o
  <2>3. QED
    BY <2>1, <2>2
<1>13. QED
  BY <1>3, <1>5, <1>7, <1>9, <1>10, <1>11, <1>12

LEMMA EvictNextKeeps ==
    ASSUME IInv, NEW k \in Keys, EvictNext(k)
    PROVE  IInv' /\ [RegistryNext]_registryVars
<1>1. /\ victim = None /\ k \in evicting /\ evicting' = evicting \ {k}
      /\ UNCHANGED lockVars /\ UNCHANGED <<scans, engine, pc, call>>
  BY DEF EvictNext
<1>2. live[k] \in Sessions
  BY <1>1 DEF IInv, Listed
<1>3. CASE Release(k) /\ UNCHANGED <<victim, due>>
  <2>1. /\ [RegistryNext]_registryVars
        /\ SessionsTyped' /\ ObjectsTyped' /\ CallsTyped' /\ CallsReady' /\ Connected'
        /\ overtaken' \in BOOLEAN
        /\ \A j \in Keys \ {k} : live'[j] = live[j]
    BY <1>1, <1>2, <1>3, ReleaseKeeps
  <2>2. EvictTyped'
    BY <1>1, <1>3, <2>1, Parts DEF EvictTyped
  <2>3. Listed'
    BY <1>1, <1>3, <2>1, Parts DEF IInv, Listed, EvictTyped
  <2>4. QED
    BY <2>1, <2>2, <2>3, Together
<1>4. CASE /\ victim' = k
           /\ due' = Cancellable(live[k])
           /\ job' = CancelAll(due')
           /\ UNCHANGED <<registryVars, sessionVars, objectVars, overtaken>>
  <2>1. due' \in SUBSET Calls
    BY <1>4 DEF Cancellable, InitTasks
  <2>2. EvictTyped'
    BY <1>1, <1>4, <2>1, Parts DEF EvictTyped
  <2>3. /\ job' \in [Calls -> Jobs]
        /\ \A b \in Calls : job'[b].status = "running" => job'[b].data \in Databases
    BY <1>4, CancelAllReady
  <2>4. CallsTyped'
    BY <1>1, <2>3, Parts DEF CallsTyped, lockVars
  <2>5. CallsReady'
    BY <1>1, <1>4, <2>3 DEF IInv, CallsReady, CallReady, registryVars
  <2>6. Listed'
    BY <1>1, <1>2, <1>4 DEF IInv, Listed, sessionVars
  <2>7. QED
    BY <1>1, <1>4, <2>2, <2>4, <2>5, <2>6, Undisturbed, Together
<1>5. QED
  BY <1>3, <1>4 DEF EvictNext

LEMMA EvictReleaseKeeps ==
    ASSUME IInv, EvictRelease
    PROVE  IInv' /\ [RegistryNext]_registryVars
<1>1. /\ victim # None /\ Release(victim) /\ victim' = None /\ due' = {}
      /\ evicting' = evicting /\ UNCHANGED lockVars
      /\ UNCHANGED <<scans, engine, pc, call>>
  BY DEF EvictRelease
<1>2. victim \in Keys /\ live[victim] \in Sessions /\ victim \notin evicting
  BY <1>1, Parts DEF IInv, Listed, EvictTyped
<1>3. /\ [RegistryNext]_registryVars
      /\ SessionsTyped' /\ ObjectsTyped' /\ CallsTyped' /\ CallsReady' /\ Connected'
      /\ overtaken' \in BOOLEAN
      /\ \A j \in Keys \ {victim} : live'[j] = live[j]
  BY <1>1, <1>2, ReleaseKeeps
<1>4. EvictTyped'
  BY <1>1, <1>3, Parts DEF EvictTyped
<1>5. Listed'
  BY <1>1, <1>2, <1>3, Parts DEF IInv, Listed, EvictTyped
<1>6. QED
  BY <1>3, <1>4, <1>5, Together

-----------------------------------------------------------------------------
LEMMA SessionInit == Init => IInv
<1> SUFFICES ASSUME Init PROVE IInv
  OBVIOUS
<1>1. Exact(Now)
  BY RegistryInitExact DEF Init
<1>2. SessionsTyped /\ ObjectsTyped /\ EvictTyped
  <2>1. SessionsTyped
    BY SessionAssumption DEF Init, SessionsTyped
  <2>2. ObjectsTyped
    BY DEF Init, ObjectsTyped
  <2>3. EvictTyped
    <3>1. scans \in 0..MaxScans
      BY SessionAssumption DEF Init
    <3>2. overtaken \in BOOLEAN
      BY DEF Init
    <3>3. QED
      BY <3>1, <3>2 DEF Init, EvictTyped
  <2>4. QED
    BY <2>1, <2>2, <2>3
<1>3. NoLocals \in Locals /\ NoJob \in Jobs /\ NoJob.status = "none"
  BY DEF NoLocals, Locals, NoJob, Jobs
<1>4. CallsTyped
  BY <1>3 DEF Init, CallsTyped, Points
<1>5. CallsReady
  BY <1>3, Kinds DEF Init, RegistryInit, CallsReady, CallReady
<1>6. Connected /\ Listed
  BY Kinds DEF Init, RegistryInit, Connected, Listed
<1>7. QED
  BY <1>1, <1>2, <1>4, <1>5, <1>6
     DEF IInv, TypeOK, SessionsTyped, ObjectsTyped, CallsTyped, EvictTyped, Exact,
         RegistryTypeOK

(* Every step is a step of the registry or leaves it alone.                *)
LEMMA SessionStep == IInv /\ [Next]_vars => IInv' /\ [RegistryNext]_registryVars
<1> SUFFICES ASSUME IInv, [Next]_vars
             PROVE  IInv' /\ [RegistryNext]_registryVars
  OBVIOUS
<1>1. ASSUME NEW c \in Calls, CallNext(c)
      PROVE  IInv' /\ [RegistryNext]_registryVars
  <2>1. ASSUME NEW k \in Keys, NEW d \in Databases, StartConnect(c, k, d)
        PROVE  IInv' /\ [RegistryNext]_registryVars
    BY <2>1, StartConnectKeeps DEF StartConnect
  <2>2. ASSUME NEW k \in Keys, StartPublish(c, k) \/ RefuseAtTheDoor(c, k)
        PROVE  IInv' /\ [RegistryNext]_registryVars
    BY <2>2, StartPublishKeeps, RefuseAtTheDoorKeeps DEF StartPublish, RefuseAtTheDoor
  <2>3. CASE RefuseInside(c)
    BY <2>3, RefuseInsideKeeps DEF RefuseInside
  <2>4. CASE ConnectBegins(c)
    BY <2>4, ConnectBeginsKeeps DEF ConnectBegins
  <2>5. CASE ConnectFails(c)
    BY <2>5, ConnectFailsKeeps DEF ConnectFails
  <2>6. CASE ConnectSucceeds(c)
    BY <2>6, ConnectSucceedsKeeps
  <2>7. CASE ClearedThenBound(c)
    BY <2>7, ClearedThenBoundKeeps
  <2>8. CASE NothingToRestore(c)
    BY <2>8, NothingToRestoreKeeps DEF NothingToRestore
  <2>9. CASE RestoreQueues(c)
    BY <2>9, RestoreQueuesKeeps DEF RestoreQueues
  <2>10. CASE RestoreBegins(c)
    BY <2>10, RestoreBeginsKeeps DEF RestoreBegins
  <2>11. CASE RestoreEnds(c)
    BY <2>11, RestoreEndsKeeps DEF RestoreEnds
  <2>12. CASE PublishQueues(c)
    BY <2>12, PublishQueuesKeeps DEF PublishQueues
  <2>13. CASE PublishBegins(c)
    BY <2>13, PublishBeginsKeeps DEF PublishBegins
  <2>14. CASE WorkerReads(c)
    BY <2>14, WorkerReadsKeeps DEF WorkerReads
  <2>15. CASE Discard(c)
    BY <2>15, DiscardKeeps DEF Discard
  <2>16. CASE Publish(c)
    BY <2>16, PublishKeeps DEF Publish
  <2>17. CASE PublishEnds(c)
    BY <2>17, PublishEndsKeeps DEF PublishEnds
  <2>18. QED
    BY <1>1, <2>1, <2>2, <2>3, <2>4, <2>5, <2>6, <2>7, <2>8, <2>9, <2>10, <2>11,
       <2>12, <2>13, <2>14, <2>15, <2>16, <2>17 DEF CallNext
<1>2. ASSUME NEW c \in Calls, TaskNext(c)
      PROVE  IInv' /\ [RegistryNext]_registryVars
  BY <1>2, IndexInstalledKeeps, TaskStopsKeeps DEF TaskNext, IndexInstalled, TaskStops
<1>3. CASE EvictorNext
  BY <1>3, ScanKeeps, EvictNextKeeps, EvictReleaseKeeps DEF EvictorNext, Scan
<1>4. CASE UNCHANGED vars
  <2>1. UNCHANGED registryVars
    BY <1>4 DEF vars
  <2>2. /\ UNCHANGED sessionVars /\ UNCHANGED <<objectVars, engine>>
        /\ UNCHANGED lockVars /\ UNCHANGED <<pc, call, job>> /\ UNCHANGED evictVars
        /\ UNCHANGED live
    BY <1>4 DEF vars, sessionVars
  <2>3. CallsReady'
    BY <2>1, <2>2 DEF IInv, CallsReady, CallReady, registryVars
  <2>4. QED
    BY <2>1, <2>2, <2>3, Undisturbed, Together
<1>5. QED
  BY <1>1, <1>2, <1>3, <1>4 DEF Next, AllAnswered

-----------------------------------------------------------------------------
(* The inductive invariant of the running server: types, the exact         *)
(* registry, and what calls and the evictor have still to rely on.         *)
THEOREM SessionInductive == Spec => []IInv
BY SessionInit, SessionStep, PTL DEF Spec

(* Calls, tasks and evictions keep every variable in its type.             *)
THEOREM SessionTypes == Spec => []TypeOK
<1>1. IInv => TypeOK
  BY DEF IInv
<1>2. QED
  BY <1>1, SessionInductive, PTL

(* The server implements the registry: a step of a call, of a background   *)
(* task or of the evictor binds, moves or takes out one session, or leaves *)
(* the registry alone.                                                     *)
THEOREM SessionsKeepRegistry == Spec => RegistryKept
<1>1. Init => RegistryInit
  BY DEF Init
<1>2. IInv /\ [Next]_vars => [RegistryNext]_registryVars
  BY SessionStep
<1>3. QED
  BY <1>1, <1>2, SessionInductive, PTL DEF Spec, RegistryKept, RegistrySpec

(* The holder count is exact, and the registry knows exactly the runtimes  *)
(* that sessions hold, whatever calls, tasks and evictions interleave.     *)
THEOREM SessionsCounted == Spec => []RegistryExact
BY SessionsKeepRegistry, RegistryKnows, PTL DEF RegistryKept

-----------------------------------------------------------------------------
(***************************************************************************)
(* What SessionRuntime's calls may rely on as long as no session is        *)
(* released with a call of its in flight: its session keeps its name and   *)
(* its runtime, the runtime its manager, the manager its database.         *)
(***************************************************************************)

-----------------------------------------------------------------------------
(* What holds of every behaviour, overtaken or not.                        *)

(* No two names share a session, a new session takes a number nobody has,  *)
(* and a handle that is live was minted.                                   *)
Named ==
    /\ \A k \in Keys : live[k] # None => live[k] <= born
    /\ \A k, j \in Keys : live[k] # None /\ live[j] = live[k] => j = k
    /\ \A k \in HandleKeys : live[k] # None => k \in spent

(* A call past the binding lock holds it.                                  *)
Bindings ==
    \A c \in Calls : pc[c] \notin {"new", "done"} =>
        /\ call[c].key \in Keys
        /\ call[c].sess \in Sessions
        /\ pc[c] # "binding" => binding[call[c].sess] = c

(* What a bound session says of its connection is what the registry says.  *)
Rows ==
    \A s \in Sessions : runtimeOf[s] # None =>
        /\ stateOf[s] = runtimeOf[s]
        /\ linked[s] = database[runtimeOf[s]]
        /\ own[s] = None

(* The manager leaves with the last holder.                                *)
Managed == \A r \in Runtimes : managerOf[r] # None => holders[r] > 0

Steady == Named /\ Bindings /\ Rows /\ Managed

-----------------------------------------------------------------------------
LEMMA ResolvedNamed ==
    ASSUME IInv, Named, NEW k \in Keys, NEW s \in Sessions, Resolve(k, s) \/ Mint(k, s)
    PROVE  /\ Named'
           /\ live'[k] = s
           /\ \A j \in Keys : live[j] # None => live'[j] = live[j]
<1>1. /\ live \in [Keys -> Sessions \cup {None}] /\ born \in Nat
      /\ Sessions = 1..MaxSessions /\ MaxSessions \in Nat /\ HandleKeys \subseteq Keys
      /\ None \notin Sessions
  BY Parts, SessionAssumption, Kinds DEF SessionsTyped
<1>2. \A j \in Keys : live[j] # None => live[j] \in Nat /\ live[j] <= born
  BY <1>1 DEF Named
<1>3. CASE live[k] # None /\ s = live[k] /\ UNCHANGED <<born, live>> /\ spent' = spent
  BY <1>3 DEF Named
<1>4. CASE /\ live[k] = None
           /\ s = born + 1 /\ born' = s
           /\ live' = [live EXCEPT ![k] = s]
           /\ k \in HandleKeys => k \in spent'
           /\ spent \subseteq spent'
  <2>1. \A j \in Keys : live'[j] = IF j = k THEN s ELSE live[j]
    BY <1>1, <1>4
  <2>2. \A j \in Keys : live[j] # None => live[j] # s /\ live[j] <= born'
    BY <1>1, <1>2, <1>4
  <2>3. \A j \in Keys : live'[j] # None => live'[j] <= born'
    BY <1>1, <1>4, <2>1, <2>2
  <2>4. \A j, i \in Keys : live'[j] # None /\ live'[i] = live'[j] => i = j
    <3>1. s # None
      BY <1>1
    <3>2. QED
      BY <2>1, <2>2, <3>1 DEF Named
  <2>5. \A j \in HandleKeys : live'[j] # None => j \in spent'
    BY <1>1, <1>4, <2>1 DEF Named
  <2>6. QED
    BY <1>4, <2>1, <2>3, <2>4, <2>5 DEF Named
<1>5. QED
  <2>1. Mint(k, s) => live[k] = None
    BY <1>1 DEF Mint, Named
  <2>2. CASE Resolve(k, s)
    BY <2>2, <1>3, <1>4 DEF Resolve
  <2>3. CASE Mint(k, s)
    BY <2>1, <2>3, <1>4 DEF Mint
  <2>4. QED
    BY <2>2, <2>3

LEMMA BindingsKept ==
    ASSUME IInv, Bindings, NEW c \in Calls, NEW p, pc' = [pc EXCEPT ![c] = p],
           \A b \in Calls \ {c} : call'[b].key = call[b].key /\ call'[b].sess = call[b].sess,
           \A s \in Sessions : binding[s] \notin {None, c} => binding'[s] = binding[s],
           p \notin {"new", "done"} =>
                /\ call'[c].key \in Keys
                /\ call'[c].sess \in Sessions
                /\ p # "binding" => binding'[call'[c].sess] = c
    PROVE  Bindings'
<1>1. ASSUME NEW b \in Calls, pc'[b] \notin {"new", "done"}
      PROVE  /\ call'[b].key \in Keys
             /\ call'[b].sess \in Sessions
             /\ pc'[b] # "binding" => binding'[call'[b].sess] = b
  <2>1. pc \in [Calls -> Points]
    BY Parts DEF CallsTyped
  <2>2. CASE b = c
    BY <1>1, <2>1, <2>2
  <2>3. CASE b # c
    <3>1. pc'[b] = pc[b] /\ call'[b].key = call[b].key /\ call'[b].sess = call[b].sess
      BY <2>1, <2>3
    <3>2. pc[b] # "binding" => binding[call[b].sess] = b
      BY <1>1, <3>1 DEF Bindings
    <3>3. QED
      BY <1>1, <2>3, <3>1, <3>2, Kinds DEF Bindings
  <2>4. QED
    BY <2>2, <2>3
<1>2. QED
  BY <1>1 DEF Bindings

(* An answered call needs no lock.                                         *)
LEMMA AnswerBindings ==
    ASSUME IInv, Bindings, NEW c \in Calls, Answer(c)
    PROVE  Bindings'
<1>1. \A b \in Calls \ {c} : call'[b] = call[b]
  BY Parts DEF Answer, CallsTyped
<1>2. pc' = [pc EXCEPT ![c] = "done"]
  BY DEF Answer
<1>3. \A s \in Sessions : binding[s] \notin {None, c} => binding'[s] = binding[s]
  BY DEF Answer
<1>4. QED
  BY <1>1, <1>2, <1>3, BindingsKept

(* Only c moves on, with the binding lock it has.                          *)
LEMMA MovesBindings ==
    ASSUME IInv, Bindings, NEW c \in Calls, NEW p \in Points, NEW l \in Locals,
           pc[c] \notin {"new", "binding", "done"},
           pc' = [pc EXCEPT ![c] = p], call' = [call EXCEPT ![c] = l],
           l.key = call[c].key, l.sess = call[c].sess, UNCHANGED binding
    PROVE  Bindings'
<1>1. \A b \in Calls \ {c} : call'[b] = call[b]
  BY Parts DEF CallsTyped
<1>2. call'[c] = l
  BY Parts DEF CallsTyped
<1>3. QED
  BY <1>1, <1>2, BindingsKept DEF Bindings

LEMMA SteadyParts ==
    ASSUME Steady
    PROVE  /\ UNCHANGED <<born, live, spent>> => Named'
           /\ UNCHANGED <<pc, call, binding>> => Bindings'
           /\ UNCHANGED <<registryVars, stateOf, linked, own>> => Rows'
           /\ UNCHANGED <<registryVars, managerOf>> => Managed'
<1>1. UNCHANGED <<born, live, spent>> => Named'
  BY DEF Steady, Named
<1>2. UNCHANGED <<pc, call, binding>> => Bindings'
  BY DEF Steady, Bindings
<1>3. UNCHANGED <<registryVars, stateOf, linked, own>> => Rows'
  BY DEF Steady, Rows, registryVars
<1>4. UNCHANGED <<registryVars, managerOf>> => Managed'
  BY DEF Steady, Managed, registryVars
<1>5. QED
  BY <1>1, <1>2, <1>3, <1>4

-----------------------------------------------------------------------------
LEMMA StartSteady ==
    ASSUME IInv, Steady, NEW c \in Calls, NEW k \in Keys,
           (\E d \in Databases : StartConnect(c, k, d)) \/ StartPublish(c, k)
    PROVE  Steady'
<1>1. PICK s \in Sessions, d \in Databases \cup {None} :
        /\ Resolve(k, s) \/ Mint(k, s)
        /\ \/ call' = [call EXCEPT ![c].key = k, ![c].target = d, ![c].sess = s]
           \/ call' = [call EXCEPT ![c].key = k, ![c].sess = s]
  BY DEF StartConnect, StartPublish
<1>2. Named'
  BY <1>1, ResolvedNamed DEF Steady
<1>3. call \in [Calls -> Locals]
  BY Parts DEF CallsTyped
<1>4. call'[c].key = k /\ call'[c].sess = s /\ \A b \in Calls \ {c} : call'[b] = call[b]
  BY <1>1, <1>3 DEF Locals
<1>5. pc' = [pc EXCEPT ![c] = "binding"] /\ binding' = binding
  BY DEF StartConnect, StartPublish, lockVars
<1>6. Bindings'
  BY <1>4, <1>5, BindingsKept DEF Steady
<1>7. QED
  BY <1>2, <1>6, SteadyParts DEF StartConnect, StartPublish, objectVars, Steady

LEMMA RefuseAtTheDoorSteady ==
    ASSUME IInv, Steady, NEW c \in Calls, NEW k \in Keys, RefuseAtTheDoor(c, k)
    PROVE  Steady'
<1>1. Bindings'
  BY BindingsKept DEF RefuseAtTheDoor, lockVars, Steady
<1>2. QED
  BY <1>1, SteadyParts DEF RefuseAtTheDoor, sessionVars, objectVars, Steady

LEMMA RefuseInsideSteady ==
    ASSUME IInv, Steady, NEW c \in Calls, RefuseInside(c)
    PROVE  Steady'
<1>1. Bindings'
  BY AnswerBindings DEF RefuseInside, Steady
<1>2. QED
  BY <1>1, SteadyParts DEF RefuseInside, sessionVars, objectVars, Steady

LEMMA ConnectBeginsSteady ==
    ASSUME IInv, Steady, NEW c \in Calls, ConnectBegins(c)
    PROVE  Steady'
<1> DEFINE M(s) == IF runtimeOf[s] = None /\ own[s] # None THEN own[s] ELSE c
<1>1. PICK s \in Sessions :
        /\ Resolve(call[c].key, s)
        /\ call' = [call EXCEPT ![c].manager = M(s)]
        /\ own' = IF runtimeOf[s] = None THEN [own EXCEPT ![s] = M(s)] ELSE own
  BY DEF ConnectBegins
<1>2. /\ call[c].key \in Keys /\ call[c].sess \in Sessions
      /\ pc[c] = "binding" /\ binding[call[c].sess] = None
  BY DEF ConnectBegins, Ready, Steady, Bindings
<1>3. Named'
  BY <1>1, <1>2, ResolvedNamed DEF Steady
<1>4. /\ call \in [Calls -> Locals] /\ own \in [Sessions -> Calls \cup {None}]
      /\ binding \in [Sessions -> Calls \cup {None}]
  BY Parts DEF CallsTyped, ObjectsTyped
<1>5. /\ call'[c].key = call[c].key /\ call'[c].sess = call[c].sess
      /\ \A b \in Calls \ {c} : call'[b] = call[b]
  BY <1>1, <1>4 DEF Locals
<1>6. /\ pc' = [pc EXCEPT ![c] = "connecting"]
      /\ binding' = [binding EXCEPT ![call[c].sess] = c]
  BY DEF ConnectBegins
<1>7. Bindings'
  BY <1>2, <1>4, <1>5, <1>6, BindingsKept DEF Steady
<1>8. Rows'
  BY <1>1, <1>4 DEF ConnectBegins, Steady, Rows, registryVars
<1>9. QED
  BY <1>3, <1>7, <1>8, SteadyParts DEF ConnectBegins, Steady

LEMMA ConnectFailsSteady ==
    ASSUME IInv, Steady, NEW c \in Calls, ConnectFails(c)
    PROVE  Steady'
<1>1. PICK s \in Sessions : Resolve(call[c].key, s)
  BY DEF ConnectFails
<1>2. call[c].key \in Keys
  BY DEF ConnectFails, Ready, Steady, Bindings
<1>3. Named'
  BY <1>1, <1>2, ResolvedNamed DEF Steady
<1>4. Bindings'
  BY AnswerBindings DEF ConnectFails, Steady
<1>5. QED
  BY <1>3, <1>4, SteadyParts DEF ConnectFails, objectVars, Steady

(* Steps that answer the call and touch nothing a bound session shows.     *)
LEMMA AnswersSteady ==
    ASSUME IInv, Steady, NEW c \in Calls,
           NothingToRestore(c) \/ RestoreEnds(c) \/ Discard(c) \/ PublishEnds(c)
    PROVE  Steady'
<1>1. /\ Answer(c)
      /\ UNCHANGED <<registryVars, sessionVars, linked, stateOf, own, managerOf>>
  BY DEF NothingToRestore, RestoreEnds, Discard, PublishEnds, objectVars
<1>2. Bindings'
  BY <1>1, AnswerBindings DEF Steady
<1>3. QED
  BY <1>1, <1>2, SteadyParts DEF sessionVars, Steady

(* Steps that take the call on.                                            *)
LEMMA MovesSteady ==
    ASSUME IInv, Steady, NEW c \in Calls,
           RestoreQueues(c) \/ RestoreBegins(c) \/ WorkerReads(c) \/ Publish(c)
    PROVE  Steady'
<1>1. call \in [Calls -> Locals]
  BY Parts DEF CallsTyped
<1>2. \E p \in Points, l \in Locals :
        /\ pc[c] \notin {"new", "binding", "done"}
        /\ pc' = [pc EXCEPT ![c] = p] /\ call' = [call EXCEPT ![c] = l]
        /\ l.key = call[c].key /\ l.sess = call[c].sess
  <2>1. CASE RestoreQueues(c)
    <3> DEFINE l == [call[c] EXCEPT !.lock = runtimeOf[call[c].at]]
    <3>1. /\ pc[c] = "bound" /\ pc' = [pc EXCEPT ![c] = "waiting"]
          /\ call' = [call EXCEPT ![c] = l]
      BY <2>1 DEF RestoreQueues, Ready
    <3>2. call[c].at \in Sessions
      BY <3>1 DEF IInv, CallsReady, CallReady
    <3>3. runtimeOf[call[c].at] \in Runtimes \cup {None}
      BY <3>2, Parts DEF RegistryTypeOK, Now, Tables
    <3>4. l \in Locals /\ l.key = call[c].key /\ l.sess = call[c].sess
      BY <1>1, <3>3 DEF Locals
    <3>5. QED
      BY <3>1, <3>4 DEF Points
  <2>2. CASE RestoreBegins(c)
    <3>1. call' = [call EXCEPT ![c] = call[c]] /\ call[c] \in Locals
      BY <1>1, <2>2 DEF RestoreBegins
    <3>2. QED
      BY <2>2, <3>1 DEF RestoreBegins, Ready, Points
  <2>3. CASE WorkerReads(c)
    <3> DEFINE l == [call[c] EXCEPT !.data = engine[call[c].manager]]
    <3>1. /\ pc[c] = "reading" /\ pc' = [pc EXCEPT ![c] = "read"]
          /\ call' = [call EXCEPT ![c] = l]
      BY <2>3 DEF WorkerReads, Ready
    <3>2. engine[call[c].manager] \in Databases
      BY <3>1 DEF IInv, CallsReady, CallReady
    <3>3. l \in Locals /\ l.key = call[c].key /\ l.sess = call[c].sess
      BY <1>1, <3>2 DEF Locals
    <3>4. QED
      BY <3>1, <3>3 DEF Points
  <2>4. CASE Publish(c)
    <3>1. call' = [call EXCEPT ![c] = call[c]] /\ call[c] \in Locals
      BY <1>1, <2>4 DEF Publish
    <3>2. QED
      BY <2>4, <3>1 DEF Publish, Ready, Points
  <2>5. QED
    BY <2>1, <2>2, <2>3, <2>4
<1>3. /\ binding' = binding
      /\ UNCHANGED <<registryVars, sessionVars, linked, stateOf, own, managerOf>>
  BY DEF RestoreQueues, RestoreBegins, WorkerReads, Publish, lockVars, objectVars
<1>4. Bindings'
  BY <1>2, <1>3, MovesBindings DEF Steady
<1>5. QED
  BY <1>3, <1>4, SteadyParts DEF sessionVars, Steady

LEMMA PublishQueuesSteady ==
    ASSUME IInv, Steady, NEW c \in Calls, PublishQueues(c)
    PROVE  Steady'
<1>1. /\ call[c].key \in Keys /\ call[c].sess \in Sessions
      /\ pc[c] = "binding" /\ binding[call[c].sess] = None
  BY DEF PublishQueues, Ready, Steady, Bindings
<1>2. call \in [Calls -> Locals] /\ binding \in [Sessions -> Calls \cup {None}]
  BY Parts DEF CallsTyped
<1>3. /\ call'[c].key = call[c].key /\ call'[c].sess = call[c].sess
      /\ \A b \in Calls \ {c} : call'[b] = call[b]
  BY <1>2 DEF PublishQueues, Locals
<1>4. /\ pc' = [pc EXCEPT ![c] = "waiting"]
      /\ binding' = [binding EXCEPT ![call[c].sess] = c]
  BY DEF PublishQueues
<1>5. Bindings'
  BY <1>1, <1>2, <1>3, <1>4, BindingsKept DEF Steady
<1>6. QED
  BY <1>5, SteadyParts DEF PublishQueues, sessionVars, objectVars, Steady

LEMMA PublishBeginsSteady ==
    ASSUME IInv, Steady, NEW c \in Calls, PublishBegins(c)
    PROVE  Steady'
<1>1. PICK s \in Sessions :
        /\ Resolve(call[c].key, s)
        /\ \/ /\ runtimeOf[s] = None
              /\ Answer(c)
              /\ own' = [own EXCEPT ![s] = IF @ = None THEN c ELSE @]
           \/ /\ pc' = [pc EXCEPT ![c] = "reading"]
              /\ call' = [call EXCEPT ![c].at = s, ![c].pin = runtimeOf[s],
                                     ![c].manager = managerOf[runtimeOf[s]]]
              /\ UNCHANGED <<own, binding>>
  BY DEF PublishBegins
<1>2. call[c].key \in Keys /\ pc[c] = "waiting"
  BY DEF PublishBegins, Ready, Steady, Bindings
<1>3. Named'
  BY <1>1, <1>2, ResolvedNamed DEF Steady
<1>4. call \in [Calls -> Locals] /\ own \in [Sessions -> Calls \cup {None}]
  BY Parts DEF CallsTyped, ObjectsTyped
<1>5. Rows'
  BY <1>1, <1>4 DEF PublishBegins, Steady, Rows, registryVars
<1>6. Bindings'
  <2>1. CASE Answer(c)
    BY <2>1, AnswerBindings DEF Steady
  <2>2. CASE /\ pc' = [pc EXCEPT ![c] = "reading"]
             /\ call' = [call EXCEPT ![c].at = s, ![c].pin = runtimeOf[s],
                                    ![c].manager = managerOf[runtimeOf[s]]]
             /\ binding' = binding
    <3>1. /\ call'[c].key = call[c].key /\ call'[c].sess = call[c].sess
          /\ \A b \in Calls \ {c} : call'[b] = call[b]
      BY <1>4, <2>2 DEF Locals
    <3>2. QED
      BY <1>2, <2>2, <3>1, BindingsKept DEF Steady, Bindings
  <2>3. QED
    BY <1>1, <2>1, <2>2
<1>7. QED
  BY <1>3, <1>5, <1>6, SteadyParts DEF PublishBegins, Steady

LEMMA TasksSteady ==
    ASSUME IInv, Steady, NEW c \in Calls, TaskNext(c)
    PROVE  Steady'
BY SteadyParts
   DEF TaskNext, IndexInstalled, TaskStops, sessionVars, objectVars, lockVars, Steady

LEMMA ScanSteady ==
    ASSUME IInv, Steady, Scan
    PROVE  Steady'
BY SteadyParts DEF Scan, objectVars, lockVars, Steady

LEMMA BindToSteady ==
    ASSUME IInv, Steady, NEW c \in Calls, NEW s \in Sessions, NEW d \in Databases,
           NEW clear \in BOOLEAN, BindTo(c, s, d, clear), database[c] = None,
           Changes(s, d) => clear
    PROVE  Rows' /\ Managed'
<1>1. PICK r \in Runtimes, healthy \in BOOLEAN :
        Chosen(c, s, d, clear, r) /\ Shared(c, s, clear, r, healthy)
  BY BindToBinds
<1>2. /\ runtimeOf \in [Sessions -> Runtimes \cup {None}]
      /\ stateOf \in [Sessions -> Runtimes \cup {None}]
      /\ linked \in [Sessions -> Databases \cup {None}]
      /\ own \in [Sessions -> Calls \cup {None}]
      /\ database \in [Runtimes -> Databases \cup {None}]
      /\ \A q \in Runtimes : holders[q] \in Nat /\ (database[q] = None => holders[q] = 0)
      /\ managerOf \in [Runtimes -> Calls \cup {None}]
  BY Parts DEF IInv, Exact, Unmade, RegistryTypeOK, Now, Tables, ObjectsTyped
<1>3. /\ runtimeOf' = [runtimeOf EXCEPT ![s] = r] /\ database'[r] = d
      /\ stateOf' = [stateOf EXCEPT ![s] = r]
      /\ linked' = [linked EXCEPT ![s] = d]
      /\ own' = [own EXCEPT ![s] = None]
      /\ holders'[r] > 0
  BY <1>1 DEF Chosen, Shared, BindTo
<1>4. Rows'
  <2> SUFFICES ASSUME NEW t \in Sessions, runtimeOf'[t] # None
               PROVE  /\ stateOf'[t] = runtimeOf'[t]
                      /\ linked'[t] = database'[runtimeOf'[t]]
                      /\ own'[t] = None
    BY DEF Rows
  <2>1. CASE t = s
    BY <1>2, <1>3, <2>1
  <2>2. CASE t # s
    <3> DEFINE q == runtimeOf[t]
    <3>1. /\ runtimeOf'[t] = q /\ stateOf'[t] = stateOf[t]
          /\ linked'[t] = linked[t] /\ own'[t] = own[t] /\ q \in Runtimes
      BY <1>2, <1>3, <2>2
    <3>2. stateOf[t] = q /\ linked[t] = database[q] /\ own[t] = None
      BY <3>1 DEF Steady, Rows
    <3>3. database[q] # None
      BY <1>2, <3>1, HeldCounts DEF IInv
    <3>4. database'[q] = database[q]
      BY <1>1, <1>3, <3>1, <3>3 DEF Chosen
    <3>5. QED
      BY <3>1, <3>2, <3>4
  <2>3. QED
    BY <2>1, <2>2
<1>5. Managed'
  <2> SUFFICES ASSUME NEW q \in Runtimes, q # r, managerOf'[q] # None
               PROVE  holders'[q] > 0
    BY <1>3 DEF Managed
  <2> DEFINE managers == IF clear THEN ManagersLeft(s) ELSE managerOf
  <2>1. managerOf'[q] = managers[q]
    BY <1>1, <1>2 DEF Shared, ManagersLeft
  <2>2. managerOf[q] # None /\ (clear => q \notin Abandoned(s))
    BY <2>1 DEF ManagersLeft
  <2>3. holders[q] \in Nat /\ holders[q] > 0
    BY <1>2, <2>2 DEF Steady, Managed
  <2>4. holders'[q] = HoldersWithout(s, q)
    BY <1>1 DEF Chosen
  <2>5. CASE q # runtimeOf[s]
    BY <2>3, <2>4, <2>5 DEF HoldersWithout
  <2>6. CASE q = runtimeOf[s]
    <3>1. runtimeOf[s] # None
      BY <2>6, Kinds
    <3>2. clear
      <4>1. linked[s] = database[q] /\ database[q] # None
        BY <1>2, <2>3, <2>6, <3>1 DEF Steady, Rows
      <4>2. ~OnDatabase(Now, s, d) \/ clear
        BY <1>1, <2>6 DEF Chosen
      <4>3. linked[s] # d \/ clear
        BY <2>6, <3>1, <4>1, <4>2 DEF OnDatabase, Now
      <4>4. QED
        BY <4>1, <4>3 DEF Changes
    <3>3. ~(holders[q] - 1 <= 0)
      BY <2>2, <2>6, <3>1, <3>2 DEF Abandoned, LastHolder, Now
    <3>4. QED
      BY <2>3, <2>4, <2>6, <3>3 DEF HoldersWithout
  <2>7. QED
    BY <2>5, <2>6
<1>6. QED
  BY <1>4, <1>5

LEMMA ConnectSucceedsSteady ==
    ASSUME IInv, Steady, NEW c \in Calls, ConnectSucceeds(c)
    PROVE  Steady'
<1> DEFINE d == call[c].target
<1>1. PICK s \in Sessions :
        /\ Resolve(call[c].key, s)
        /\ \/ /\ call' = [call EXCEPT ![c].at = s, ![c].awaited = Cancellable(s)]
              /\ pc' = [pc EXCEPT ![c] = "clearing"]
              /\ UNCHANGED <<registryVars, objectVars>>
           \/ /\ call' = [call EXCEPT ![c].at = s]
              /\ BindTo(c, s, d, Changes(s, d))
  BY DEF ConnectSucceeds
<1>2. /\ pc[c] = "connecting" /\ d \in Databases /\ database[c] = None
      /\ call[c].key \in Keys
  BY DEF ConnectSucceeds, Ready, IInv, CallsReady, CallReady, Steady, Bindings
<1>3. Named'
  BY <1>1, <1>2, ResolvedNamed DEF Steady
<1>4. call \in [Calls -> Locals]
  BY Parts DEF CallsTyped
<1>5. /\ call'[c].key = call[c].key /\ call'[c].sess = call[c].sess
      /\ \A b \in Calls \ {c} : call'[b] = call[b]
  BY <1>1, <1>4 DEF Locals
<1>6. /\ binding' = binding
      /\ pc' = [pc EXCEPT ![c] = "clearing"] \/ pc' = [pc EXCEPT ![c] = "bound"]
  BY <1>1 DEF ConnectSucceeds, lockVars, BindTo
<1>7. Bindings'
  BY <1>2, <1>5, <1>6, BindingsKept DEF Steady, Bindings
<1>8. Rows' /\ Managed'
  <2>1. CASE UNCHANGED <<registryVars, objectVars>>
    BY <2>1, SteadyParts DEF objectVars, Steady
  <2>2. CASE BindTo(c, s, d, Changes(s, d))
    <3>1. Changes(s, d) \in BOOLEAN
      BY DEF Changes
    <3>2. QED
      BY <1>2, <2>2, <3>1, BindToSteady
  <2>3. QED
    BY <1>1, <2>1, <2>2
<1>9. QED
  BY <1>3, <1>7, <1>8 DEF Steady

LEMMA ClearedThenBoundSteady ==
    ASSUME IInv, Steady, NEW c \in Calls, ClearedThenBound(c)
    PROVE  Steady'
<1>1. /\ pc[c] = "clearing" /\ call[c].target \in Databases /\ database[c] = None
      /\ call[c].at \in Sessions /\ call[c] \in Locals
  BY Parts DEF ClearedThenBound, Ready, IInv, CallsReady, CallReady, CallsTyped
<1>2. BindTo(c, call[c].at, call[c].target, TRUE)
  BY DEF ClearedThenBound
<1>3. Rows' /\ Managed'
  BY <1>1, <1>2, BindToSteady
<1>4. Bindings'
  <2>1. pc' = [pc EXCEPT ![c] = "bound"] /\ call' = call /\ binding' = binding
    BY <1>2 DEF BindTo, ClearedThenBound, lockVars
  <2>2. /\ call[c].key \in Keys /\ call[c].sess \in Sessions
        /\ binding[call[c].sess] = c
    BY <1>1 DEF Steady, Bindings
  <2>3. QED
    BY <2>1, <2>2, BindingsKept DEF Steady
<1>5. QED
  BY <1>3, <1>4, SteadyParts DEF ClearedThenBound, sessionVars, Steady

(* Who leaves takes the manager along if nobody else holds the runtime.    *)
LEMMA ReleaseSteady ==
    ASSUME IInv, Steady, NEW k \in Keys, live[k] \in Sessions, Release(k),
           UNCHANGED lockVars, UNCHANGED <<engine, pc, call>>
    PROVE  Steady'
<1> DEFINE s == live[k]
           left == Detached(Now, s)
<1>1. /\ left.runtimeOf = [runtimeOf EXCEPT ![s] = None]
      /\ left.database = database
      /\ \A q \in Runtimes : left.holders[q] = HoldersWithout(s, q)
  BY Left
<1>2. /\ runtimeOf' = left.runtimeOf /\ database' = left.database
      /\ holders' = left.holders /\ managerOf' = ManagersLeft(s)
  BY DEF Release, Unbind, Become
<1>3. Named'
  <2>1. \A j \in Keys : live'[j] = IF j = k THEN None ELSE live[j]
    BY Parts DEF Release, SessionsTyped
  <2>2. UNCHANGED <<born, spent>>
    BY DEF Release
  <2>3. QED
    BY <2>1, <2>2, SessionAssumption DEF Steady, Named
<1>4. Bindings'
  BY DEF lockVars, Steady, Bindings
<1>5. Rows'
  <2>1. runtimeOf \in [Sessions -> Runtimes \cup {None}]
    BY Parts DEF RegistryTypeOK, Now, Tables
  <2>2. UNCHANGED <<stateOf, linked, own>>
    BY DEF Release
  <2>3. QED
    BY <1>1, <1>2, <2>1, <2>2 DEF Steady, Rows
<1>6. Managed'
  <2> SUFFICES ASSUME NEW q \in Runtimes, managerOf'[q] # None
               PROVE  holders'[q] > 0
    BY DEF Managed
  <2>1. managerOf[q] # None /\ q \notin Abandoned(s)
    BY <1>2 DEF ManagersLeft
  <2>2. holders[q] \in Nat /\ holders[q] > 0
    BY <2>1, Parts DEF Steady, Managed, RegistryTypeOK, Now, Tables
  <2>3. holders'[q] = HoldersWithout(s, q)
    BY <1>1, <1>2
  <2>4. q = runtimeOf[s] => ~(holders[q] - 1 <= 0)
    BY <2>1, Kinds DEF Abandoned, LastHolder, Now
  <2>5. QED
    BY <2>2, <2>3, <2>4 DEF HoldersWithout
<1>7. QED
  BY <1>3, <1>4, <1>5, <1>6 DEF Steady

LEMMA EvictorSteady ==
    ASSUME IInv, Steady, EvictorNext
    PROVE  Steady'
<1>1. CASE Scan
  BY <1>1, ScanSteady
<1>2. CASE EvictRelease
  <2>1. /\ victim \in Keys /\ live[victim] \in Sessions /\ Release(victim)
        /\ UNCHANGED lockVars /\ UNCHANGED <<engine, pc, call>>
    BY <1>2, Parts DEF EvictRelease, IInv, Listed, EvictTyped
  <2>2. QED
    BY <2>1, ReleaseSteady
<1>3. ASSUME NEW k \in Keys, EvictNext(k) PROVE Steady'
  <2>1. live[k] \in Sessions /\ UNCHANGED lockVars /\ UNCHANGED <<engine, pc, call>>
    BY <1>3 DEF EvictNext, IInv, Listed
  <2>2. CASE Release(k)
    BY <2>1, <2>2, ReleaseSteady
  <2>3. CASE UNCHANGED <<registryVars, sessionVars, objectVars>>
    BY <2>1, <2>3, SteadyParts DEF sessionVars, objectVars, lockVars, Steady
  <2>4. QED
    BY <1>3, <2>2, <2>3 DEF EvictNext
<1>4. QED
  BY <1>1, <1>2, <1>3 DEF EvictorNext

LEMMA SteadyInit == Init => Steady
<1> SUFFICES ASSUME Init PROVE Steady
  OBVIOUS
<1>1. Named /\ Rows
  BY SessionAssumption DEF Init, RegistryInit, Named, Rows
<1>2. Bindings /\ Managed
  BY DEF Init, Bindings, Managed
<1>3. QED
  BY <1>1, <1>2 DEF Steady

LEMMA SteadyStep == IInv /\ Steady /\ [Next]_vars => Steady'
<1> SUFFICES ASSUME IInv, Steady, [Next]_vars
             PROVE  Steady'
  OBVIOUS
<1>1. ASSUME NEW c \in Calls, CallNext(c) PROVE Steady'
  BY <1>1, StartSteady, RefuseAtTheDoorSteady, RefuseInsideSteady, ConnectBeginsSteady,
     ConnectFailsSteady, ConnectSucceedsSteady, ClearedThenBoundSteady, AnswersSteady,
     MovesSteady, PublishQueuesSteady, PublishBeginsSteady DEF CallNext
<1>2. CASE UNCHANGED vars
  BY <1>2, SteadyParts DEF vars, sessionVars, objectVars, lockVars, Steady
<1>3. QED
  BY <1>1, <1>2, TasksSteady, EvictorSteady DEF Next, AllAnswered

-----------------------------------------------------------------------------
(* What holds as long as no session was overtaken.                         *)

(* A call's session is still the live session of the call's name ...       *)
AtHome(c) ==
    pc[c] \notin {"new", "done"} => live[call[c].key] = call[c].sess

(* ... the one the call works on ...                                       *)
Settled(c) ==
    /\ pc[c] \in {"clearing", "bound", "restoring", "reading", "read", "published"} =>
            call[c].at = call[c].sess
    /\ pc[c] = "waiting" /\ call[c].target # None => call[c].at = call[c].sess

(* ... and which stays in the runtime whose lock the call takes.           *)
Seated(c) ==
    LET s == call[c].sess
    IN  /\ pc[c] \in {"bound", "restoring"} =>
                runtimeOf[s] # None /\ linked[s] = call[c].target
        /\ pc[c] = "waiting" /\ call[c].target # None =>
                runtimeOf[s] # None /\ linked[s] = call[c].target
        /\ pc[c] \in {"waiting", "restoring"} => call[c].lock = runtimeOf[s]
        /\ pc[c] = "restoring" => writer[call[c].lock] = c
        /\ pc[c] \in {"reading", "read", "published"} =>
                /\ runtimeOf[s] # None
                /\ call[c].pin = runtimeOf[s]
                /\ writer[call[c].pin] = c

(* What the call or its task holds was read from that runtime's database.  *)
Tuned(c) ==
    /\ pc[c] = "clearing" => engine[call[c].manager] = call[c].target
    /\ pc[c] = "reading" => engine[call[c].manager] = database[call[c].pin]
    /\ pc[c] \in {"read", "published"} => call[c].data = database[call[c].pin]
    /\ job[c].status = "running" =>
            job[c].pin \in Runtimes /\ job[c].data = database[job[c].pin]

Serves(c) == AtHome(c) /\ Settled(c) /\ Seated(c) /\ Tuned(c)

(* The manager m may be connected anew on behalf of s; somebody reads      *)
(* through m; the call m has shown its manager to nobody.                  *)
Keeps(s, m) ==
    \/ own[s] = m
    \/ \E c \in Calls : /\ pc[c] \in {"connecting", "clearing"}
                        /\ call[c].sess = s /\ call[c].manager = m

Uses(m) ==
    \/ \E r \in Runtimes : managerOf[r] = m
    \/ \E c \in Calls : pc[c] = "reading" /\ call[c].manager = m

Unseen(m) ==
    pc[m] \in {"new", "binding"} \/ (pc[m] = "waiting" /\ call[m].target = None)

(* A manager that is connected anew serves one session, and nobody reads   *)
(* through it.                                                             *)
Apart ==
    \A m \in Calls :
        /\ \A s, t \in Sessions : Keeps(s, m) /\ Keeps(t, m) => s = t
        /\ \A s \in Sessions : Keeps(s, m) => ~Uses(m) /\ ~Unseen(m)
        /\ Uses(m) => ~Unseen(m)

Matched == \A r \in Runtimes : holders[r] > 0 => engine[managerOf[r]] = database[r]

Landing == \A r \in Runtimes : cache[r] \cup index[r] \subseteq {database[r]}

HeldLive == \A s \in Sessions : runtimeOf[s] # None => \E k \in Keys : live[k] = s

Calm ==
    /\ \A c \in Calls : Serves(c)
    /\ Apart
    /\ Matched
    /\ Landing
    /\ HeldLive

CalmInv == IInv /\ Steady /\ (~overtaken => Calm)

-----------------------------------------------------------------------------
LEMMA Typed ==
    IInv => /\ runtimeOf \in [Sessions -> Runtimes \cup {None}]
            /\ database \in [Runtimes -> Databases \cup {None}]
            /\ \A q \in Runtimes : holders[q] \in Nat /\ (database[q] = None => holders[q] = 0)
            /\ stateOf \in [Sessions -> Runtimes \cup {None}]
            /\ linked \in [Sessions -> Databases \cup {None}]
            /\ own \in [Sessions -> Calls \cup {None}]
            /\ managerOf \in [Runtimes -> Calls \cup {None}]
            /\ cache \in [Runtimes -> SUBSET Databases]
            /\ index \in [Runtimes -> SUBSET Databases]
            /\ engine \in [Calls -> Databases \cup {None}]
            /\ live \in [Keys -> Sessions \cup {None}]
            /\ binding \in [Sessions -> Calls \cup {None}]
            /\ writer \in [Runtimes -> Calls \cup {None}]
            /\ pc \in [Calls -> Points]
            /\ call \in [Calls -> Locals]
            /\ job \in [Calls -> Jobs]
BY Parts DEF IInv, Exact, Unmade, RegistryTypeOK, Now, Tables, SessionsTyped, ObjectsTyped,
   CallsTyped

(* A session that is bound is in a runtime that was made.                  *)
LEMMA BoundMade ==
    ASSUME IInv, NEW s \in Sessions, runtimeOf[s] # None
    PROVE  /\ runtimeOf[s] \in Runtimes
           /\ holders[runtimeOf[s]] > 0
           /\ database[runtimeOf[s]] \in Databases
<1>1. runtimeOf[s] \in Runtimes /\ holders[runtimeOf[s]] > 0
  BY HeldCounts DEF IInv
<1>2. QED
  BY <1>1, Typed

(* A call that resolves its session finds the one it started on.           *)
LEMMA SameSession ==
    ASSUME IInv, Steady, Calm, NEW c \in Calls, pc[c] \notin {"new", "done"},
           NEW s \in Sessions, Resolve(call[c].key, s)
    PROVE  s = call[c].sess /\ UNCHANGED live
<1>1. live[call[c].key] = call[c].sess /\ call[c].sess \in Sessions
  BY DEF Calm, Serves, AtHome, Steady, Bindings
<1>2. QED
  BY <1>1, Kinds DEF Resolve

(* The other calls go on as before: their names, their sessions, the locks *)
(* they hold and the managers they read through are left to them.          *)
LEMMA OthersServe ==
    ASSUME IInv, Steady, NEW b \in Calls, Serves(b),
           pc'[b] = pc[b], call'[b] = call[b],
           job'[b] = job[b] \/ job'[b].status # "running",
           pc[b] \notin {"new", "done"} => live'[call[b].key] = live[call[b].key],
           pc[b] \notin {"new", "binding", "connecting", "clearing", "done"} =>
                /\ runtimeOf'[call[b].sess] = runtimeOf[call[b].sess]
                /\ linked'[call[b].sess] = linked[call[b].sess],
           \A r \in Runtimes : writer[r] = b => writer'[r] = b,
           \A r \in Runtimes : database[r] # None => database'[r] = database[r],
           pc[b] \in {"clearing", "reading"} =>
                engine'[call[b].manager] = engine[call[b].manager]
    PROVE  Serves(b)'
<1>1. call[b] \in Locals /\ pc[b] \in Points
  BY Typed
<1>2. AtHome(b)'
  BY DEF Serves, AtHome
<1>3. Settled(b)'
  BY DEF Serves, Settled
<1>4. Seated(b)'
  <2>1. pc[b] \notin {"new", "done"} => call[b].sess \in Sessions
    BY DEF Steady, Bindings
  <2>2. pc[b] \in {"restoring", "reading", "read", "published"} =>
            runtimeOf[call[b].sess] \in Runtimes
    BY <2>1, BoundMade DEF Serves, Seated
  <2>3. pc[b] \in {"reading", "read", "published"} => writer'[call[b].pin] = b
    BY <2>2 DEF Serves, Seated
  <2>4. pc[b] = "restoring" => writer'[call[b].lock] = b
    BY <2>2 DEF Serves, Seated
  <2>5. QED
    BY <2>3, <2>4 DEF Serves, Seated
<1>5. Tuned(b)'
  <2>1. pc[b] \in {"reading", "read", "published"} =>
            call[b].pin \in Runtimes /\ database[call[b].pin] # None
    <3>1. call[b].sess \in Sessions \/ pc[b] \in {"new", "done"}
      BY DEF Steady, Bindings
    <3>2. QED
      BY <3>1, BoundMade, Kinds DEF Serves, Seated
  <2>2. pc[b] \in {"reading", "read", "published"} =>
            database'[call[b].pin] = database[call[b].pin]
    BY <2>1
  <2>3. job[b].status = "running" => database'[job[b].pin] = database[job[b].pin]
    <3>1. job[b].status = "running" => job[b].data # None
      BY JobsReady, Kinds
    <3>2. QED
      BY <3>1 DEF Serves, Tuned
  <2>4. QED
    BY <2>2, <2>3 DEF Serves, Tuned
<1>6. QED
  BY <1>2, <1>3, <1>4, <1>5 DEF Serves

(* The managers stay apart when nobody starts to keep or to use one.       *)
LEMMA ApartKept ==
    ASSUME Apart,
           \A m \in Calls :
             /\ \A s \in Sessions : Keeps(s, m)' => Keeps(s, m)
             /\ Uses(m)' => Uses(m)
             /\ Unseen(m)' => Unseen(m)
    PROVE  Apart'
BY DEF Apart

(* The shared state stays as it is while nobody binds, leaves, connects,   *)
(* or publishes.                                                           *)
LEMMA SharedKept ==
    ASSUME Calm, UNCHANGED registryVars
    PROVE  /\ UNCHANGED <<managerOf, engine>> => Matched'
           /\ UNCHANGED <<cache, index>> => Landing'
           /\ (\A k \in Keys : live[k] # None => live'[k] = live[k])
                /\ None \notin Sessions => HeldLive'
<1>1. UNCHANGED <<managerOf, engine>> => Matched'
  BY DEF Calm, Matched, registryVars
<1>2. UNCHANGED <<cache, index>> => Landing'
  BY DEF Calm, Landing, registryVars
<1>3. ASSUME \A k \in Keys : live[k] # None => live'[k] = live[k], None \notin Sessions
      PROVE  HeldLive'
  BY <1>3 DEF Calm, HeldLive, registryVars
<1>4. QED
  BY <1>1, <1>2, <1>3

LEMMA QuietOthers ==
    ASSUME IInv, Steady, Calm, NEW c \in Calls, NEW b \in Calls, b # c,
           UNCHANGED <<registryVars, linked, engine>>,
           \A k \in Keys : live[k] # None => live'[k] = live[k],
           pc'[b] = pc[b], call'[b] = call[b], job'[b] = job[b],
           \A r \in Runtimes : writer[r] \notin {None, c} => writer'[r] = writer[r]
    PROVE  Serves(b)'
<1>1. Serves(b)
  BY DEF Calm
<1>2. pc[b] \notin {"new", "done"} => live'[call[b].key] = live[call[b].key]
  BY <1>1, Kinds DEF Serves, AtHome, Steady, Bindings
<1>3. \A r \in Runtimes : writer[r] = b => writer'[r] = b
  BY Kinds
<1>4. UNCHANGED <<runtimeOf, database>>
  BY DEF registryVars
<1>5. QED
  BY <1>1, <1>2, <1>3, <1>4, OthersServe

(* An answered call asks for nothing, and its manager is nobody's business.*)
LEMMA AnswerCalm ==
    ASSUME IInv, Steady, Calm, NEW c \in Calls, Answer(c),
           UNCHANGED <<registryVars, linked, managerOf, engine>>,
           \A k \in Keys : live[k] # None => live'[k] = live[k],
           \A b \in Calls \ {c} : job'[b] = job[b],
           job'[c].status = "running" =>
                job'[c].pin \in Runtimes /\ job'[c].data = database[job'[c].pin]
    PROVE  /\ \A b \in Calls : Serves(b)'
           /\ Matched' /\ HeldLive'
           /\ \A m \in Calls : (Uses(m)' => Uses(m)) /\ (Unseen(m)' => Unseen(m) /\ m # c)
           /\ own' = own => Apart'
<1>1. /\ \A b \in Calls \ {c} : pc'[b] = pc[b] /\ call'[b] = call[b]
      /\ pc'[c] = "done"
      /\ \A r \in Runtimes : writer[r] \notin {None, c} => writer'[r] = writer[r]
  BY Typed DEF Answer
<1>2. \A b \in Calls \ {c} : Serves(b)'
  BY <1>1, QuietOthers
<1>3. Serves(c)'
  BY <1>1 DEF Serves, AtHome, Settled, Seated, Tuned, registryVars
<1>4. \A m \in Calls : (Uses(m)' => Uses(m)) /\ (Unseen(m)' => Unseen(m) /\ m # c)
  <2>1. \A m \in Calls : Uses(m)' => Uses(m)
    BY <1>1 DEF Uses
  <2>2. \A m \in Calls : Unseen(m)' => Unseen(m) /\ m # c
    BY <1>1 DEF Unseen
  <2>3. QED
    BY <2>1, <2>2
<1>5. own' = own => \A m \in Calls : \A s \in Sessions : Keeps(s, m)' => Keeps(s, m)
  BY <1>1 DEF Keeps
<1>6. own' = own => Apart'
  BY <1>4, <1>5, ApartKept DEF Calm
<1>7. Matched' /\ HeldLive'
  BY SharedKept, Kinds
<1>8. QED
  BY <1>2, <1>3, <1>4, <1>6, <1>7

-----------------------------------------------------------------------------
LEMMA StartCalm ==
    ASSUME IInv, Steady, Calm, NEW c \in Calls, NEW k \in Keys,
           (\E d \in Databases : StartConnect(c, k, d)) \/ StartPublish(c, k)
    PROVE  Calm'
<1>1. PICK s \in Sessions, d \in Databases \cup {None} :
        /\ Resolve(k, s) \/ Mint(k, s)
        /\ \/ call' = [call EXCEPT ![c].key = k, ![c].target = d, ![c].sess = s]
           \/ call' = [call EXCEPT ![c].key = k, ![c].sess = s]
  BY DEF StartConnect, StartPublish
<1>2. live'[k] = s /\ \A j \in Keys : live[j] # None => live'[j] = live[j]
  BY <1>1, ResolvedNamed DEF Steady
<1>3. /\ pc[c] = "new" /\ pc' = [pc EXCEPT ![c] = "binding"]
      /\ UNCHANGED <<registryVars, linked, own, managerOf, cache, index, writer, engine,
                     job>>
  BY DEF StartConnect, StartPublish, Ready, objectVars, lockVars
<1>4. /\ call'[c].key = k /\ call'[c].sess = s
      /\ \A b \in Calls \ {c} : call'[b] = call[b] /\ pc'[b] = pc[b]
      /\ pc'[c] = "binding"
  BY <1>1, <1>3, Typed DEF Locals
<1>5. \A b \in Calls \ {c} : Serves(b)'
  BY <1>2, <1>3, <1>4, QuietOthers
<1>6. Serves(c)'
  <2>1. Tuned(c)'
    BY <1>3, <1>4 DEF Calm, Serves, Tuned, registryVars
  <2>2. QED
    BY <1>2, <1>4, <2>1 DEF Serves, AtHome, Settled, Seated
<1>7. Apart'
  <2>1. \A m \in Calls : \A t \in Sessions : Keeps(t, m)' => Keeps(t, m)
    BY <1>3, <1>4 DEF Keeps
  <2>2. \A m \in Calls : Uses(m)' => Uses(m)
    BY <1>3, <1>4 DEF Uses
  <2>3. \A m \in Calls : Unseen(m)' => Unseen(m)
    BY <1>3, <1>4 DEF Unseen
  <2>4. QED
    BY <2>1, <2>2, <2>3, ApartKept DEF Calm
<1>8. Matched' /\ Landing' /\ HeldLive'
  BY <1>2, <1>3, SharedKept, Kinds
<1>9. QED
  BY <1>5, <1>6, <1>7, <1>8 DEF Calm

LEMMA RefuseAtTheDoorCalm ==
    ASSUME IInv, Steady, Calm, NEW c \in Calls, NEW k \in Keys, RefuseAtTheDoor(c, k)
    PROVE  Calm'
<1>1. /\ \A b \in Calls \ {c} : pc'[b] = pc[b]
      /\ pc'[c] = "done"
      /\ UNCHANGED <<registryVars, sessionVars, objectVars, lockVars, engine, call, job>>
  BY Typed DEF RefuseAtTheDoor
<1>2. UNCHANGED <<live, linked, own, managerOf, cache, index, writer>>
  BY <1>1 DEF sessionVars, objectVars, lockVars
<1>3. \A b \in Calls \ {c} : Serves(b)'
  BY <1>1, <1>2, QuietOthers
<1>4. Serves(c)'
  BY <1>1 DEF Calm, Serves, AtHome, Settled, Seated, Tuned, registryVars
<1>5. Apart'
  <2>1. \A m \in Calls : \A t \in Sessions : Keeps(t, m)' => Keeps(t, m)
    BY <1>1, <1>2 DEF Keeps
  <2>2. \A m \in Calls : (Uses(m)' => Uses(m)) /\ (Unseen(m)' => Unseen(m))
    BY <1>1, <1>2 DEF Uses, Unseen
  <2>3. QED
    BY <2>1, <2>2, ApartKept DEF Calm
<1>6. QED
  BY <1>1, <1>2, <1>3, <1>4, <1>5, SharedKept, Kinds DEF Calm

(* Answers that neither resolve nor publish.                               *)
LEMMA AnswersCalm ==
    ASSUME IInv, Steady, Calm, NEW c \in Calls,
           RefuseInside(c) \/ NothingToRestore(c) \/ Discard(c)
    PROVE  Calm'
<1>1. Answer(c) /\ UNCHANGED <<registryVars, sessionVars, objectVars, engine, job>>
  BY DEF RefuseInside, NothingToRestore, Discard
<1>2. UNCHANGED <<live, linked, own, managerOf, cache, index>>
  BY <1>1 DEF sessionVars, objectVars
<1>3. job[c].status = "running" =>
        job[c].pin \in Runtimes /\ job[c].data = database[job[c].pin]
  BY DEF Calm, Serves, Tuned
<1>4. QED
  BY <1>1, <1>2, <1>3, AnswerCalm, SharedKept DEF Calm

LEMMA ConnectFailsCalm ==
    ASSUME IInv, Steady, Calm, NEW c \in Calls, ConnectFails(c)
    PROVE  Calm'
<1>1. PICK s \in Sessions : Resolve(call[c].key, s)
  BY DEF ConnectFails
<1>2. pc[c] = "connecting"
  BY DEF ConnectFails, Ready
<1>3. UNCHANGED live
  BY <1>1, <1>2, SameSession
<1>4. /\ Answer(c) /\ UNCHANGED <<registryVars, engine, job>>
      /\ UNCHANGED <<linked, own, managerOf, cache, index>>
  BY DEF ConnectFails, objectVars
<1>5. job[c].status = "running" =>
        job[c].pin \in Runtimes /\ job[c].data = database[job[c].pin]
  BY DEF Calm, Serves, Tuned
<1>6. QED
  BY <1>3, <1>4, <1>5, AnswerCalm, SharedKept DEF Calm

(* The workspace lands in the runtime of the database it belongs to.       *)
LEMMA RestoreEndsCalm ==
    ASSUME IInv, Steady, Calm, NEW c \in Calls, RestoreEnds(c)
    PROVE  Calm'
<1> DEFINE s == call[c].sess
<1>1. /\ Answer(c) /\ UNCHANGED <<registryVars, sessionVars, engine, job>>
      /\ UNCHANGED <<linked, own, managerOf, index>>
      /\ cache' = Landed(cache, call[c].at, call[c].target)
      /\ pc[c] = "restoring"
  BY DEF RestoreEnds, Ready
<1>2. job[c].status = "running" =>
        job[c].pin \in Runtimes /\ job[c].data = database[job[c].pin]
  BY DEF Calm, Serves, Tuned
<1>3. live' = live
  BY <1>1 DEF sessionVars
<1>4. s \in Sessions /\ call[c].at = s /\ runtimeOf[s] # None /\ linked[s] = call[c].target
  BY <1>1 DEF Steady, Bindings, Calm, Serves, Settled, Seated
<1>5. stateOf[s] = runtimeOf[s] /\ database[stateOf[s]] = call[c].target
  BY <1>4 DEF Steady, Rows
<1>6. Landing'
  BY <1>1, <1>4, <1>5 DEF Landed, Calm, Landing, registryVars
<1>7. QED
  BY <1>1, <1>2, <1>3, <1>6, AnswerCalm DEF Calm

(* The task is left to the runtime the results were computed from.         *)
LEMMA PublishEndsCalm ==
    ASSUME IInv, Steady, Calm, NEW c \in Calls, PublishEnds(c)
    PROVE  Calm'
<1> DEFINE s == call[c].sess
           task == [status |-> "running", at |-> call[c].at,
                    pin |-> stateOf[call[c].at], data |-> call[c].data]
<1>1. /\ Answer(c) /\ UNCHANGED <<registryVars, sessionVars, objectVars, engine>>
      /\ pc[c] = "published"
      /\ job' = job \/ job' = [job EXCEPT ![c] = task]
  BY DEF PublishEnds, Ready
<1>2. UNCHANGED <<live, linked, own, managerOf, cache, index>>
  BY <1>1 DEF sessionVars, objectVars
<1>3. /\ s \in Sessions /\ call[c].at = s /\ runtimeOf[s] # None
      /\ call[c].pin = runtimeOf[s] /\ call[c].data = database[call[c].pin]
  BY <1>1 DEF Steady, Bindings, Calm, Serves, Settled, Seated, Tuned
<1>4. stateOf[s] = call[c].pin /\ call[c].pin \in Runtimes
  BY <1>3, BoundMade DEF Steady, Rows
<1>5. task.pin \in Runtimes /\ task.data = database[task.pin]
  BY <1>3, <1>4
<1>6. job[c].status = "running" =>
        job[c].pin \in Runtimes /\ job[c].data = database[job[c].pin]
  BY DEF Calm, Serves, Tuned
<1> HIDE DEF task
<1>7. /\ \A b \in Calls \ {c} : job'[b] = job[b]
      /\ job'[c].status = "running" =>
            job'[c].pin \in Runtimes /\ job'[c].data = database[job'[c].pin]
  BY <1>1, <1>5, <1>6, Typed
<1>8. QED
  BY <1>1, <1>2, <1>7, AnswerCalm, SharedKept DEF Calm

(* A manager that nobody has seen may be given to one session.             *)
LEMMA ApartGrows ==
    ASSUME Apart, NEW c \in Calls, NEW s \in Sessions, Unseen(c),
           \A m \in Calls :
             /\ \A t \in Sessions : Keeps(t, m)' => Keeps(t, m) \/ (t = s /\ m = c)
             /\ Uses(m)' => Uses(m)
             /\ Unseen(m)' => Unseen(m) /\ m # c
    PROVE  Apart'
<1> SUFFICES ASSUME NEW m \in Calls
             PROVE  /\ \A t, u \in Sessions : Keeps(t, m)' /\ Keeps(u, m)' => t = u
                    /\ \A t \in Sessions : Keeps(t, m)' => ~Uses(m)' /\ ~Unseen(m)'
                    /\ Uses(m)' => ~Unseen(m)'
  BY DEF Apart
<1>1. CASE m = c
  <2>1. (\A t \in Sessions : ~Keeps(t, c)) /\ ~Uses(c)
    BY DEF Apart
  <2>2. QED
    BY <1>1, <2>1
<1>2. CASE m # c
  BY <1>2 DEF Apart
<1>3. QED
  BY <1>1, <1>2

LEMMA ConnectBeginsCalm ==
    ASSUME IInv, Steady, Calm, NEW c \in Calls, ConnectBegins(c)
    PROVE  Calm'
<1>1. PICK s \in Sessions :
        /\ Resolve(call[c].key, s)
        /\ LET m == IF runtimeOf[s] = None /\ own[s] # None THEN own[s] ELSE c
           IN  /\ call' = [call EXCEPT ![c].manager = m]
               /\ own' = IF runtimeOf[s] = None THEN [own EXCEPT ![s] = m] ELSE own
  BY DEF ConnectBegins
<1> DEFINE m == IF runtimeOf[s] = None /\ own[s] # None THEN own[s] ELSE c
<1>2. /\ pc[c] = "binding" /\ pc' = [pc EXCEPT ![c] = "connecting"]
      /\ UNCHANGED <<registryVars, linked, managerOf, cache, index, writer, engine, job>>
  BY DEF ConnectBegins, Ready
<1>3. s = call[c].sess /\ UNCHANGED live
  BY <1>1, <1>2, SameSession
<1>4. /\ call'[c].key = call[c].key /\ call'[c].sess = s /\ call'[c].manager = m
      /\ \A b \in Calls \ {c} : call'[b] = call[b] /\ pc'[b] = pc[b]
      /\ pc'[c] = "connecting"
  BY <1>1, <1>2, <1>3, Typed DEF Locals
<1>5. \A b \in Calls \ {c} : Serves(b)'
  BY <1>2, <1>3, <1>4, QuietOthers
<1>6. Serves(c)'
  <2>1. AtHome(c)'
    BY <1>2, <1>3, <1>4 DEF Calm, Serves, AtHome
  <2>2. Tuned(c)'
    BY <1>2, <1>4 DEF Calm, Serves, Tuned, registryVars
  <2>3. QED
    BY <1>4, <2>1, <2>2 DEF Serves, Settled, Seated
<1>7. Apart'
  <2>1. \A t \in Sessions : own'[t] = own[t] \/ (t = s /\ own'[t] = m)
    BY <1>1, Typed
  <2>2. m = c \/ own[s] = m
    OBVIOUS
  <2> HIDE DEF m
  <2>3. \A x \in Calls : \A t \in Sessions :
            Keeps(t, x)' => Keeps(t, x) \/ (t = s /\ x = c)
    BY <1>4, <2>1, <2>2 DEF Keeps
  <2>4. \A x \in Calls : Uses(x)' => Uses(x)
    BY <1>2, <1>4 DEF Uses
  <2>5. Unseen(c) /\ \A x \in Calls : Unseen(x)' => Unseen(x) /\ x # c
    BY <1>2, <1>4 DEF Unseen
  <2>6. QED
    BY <2>3, <2>4, <2>5, ApartGrows DEF Calm
<1>8. QED
  BY <1>2, <1>3, <1>5, <1>6, <1>7, SharedKept, Kinds DEF Calm

(* The queue for the runtime's lock.                                       *)
LEMMA QueuesCalm ==
    ASSUME IInv, Steady, Calm, NEW c \in Calls, PublishQueues(c) \/ RestoreQueues(c)
    PROVE  Calm'
<1> DEFINE s == call[c].sess
<1>1. /\ pc[c] \in {"binding", "bound"} /\ pc' = [pc EXCEPT ![c] = "waiting"]
      /\ pc[c] = "binding" => call[c].target = None
      /\ pc[c] = "bound" => call[c].at = s
      /\ call' = [call EXCEPT ![c].lock = runtimeOf[s]]
      /\ UNCHANGED <<registryVars, sessionVars, objectVars, writer, engine, job>>
  BY DEF PublishQueues, RestoreQueues, Ready, lockVars, Calm, Serves, Settled
<1>2. UNCHANGED <<live, linked, own, managerOf, cache, index, runtimeOf>>
  BY <1>1 DEF sessionVars, objectVars, registryVars
<1>3. /\ call'[c].key = call[c].key /\ call'[c].sess = s /\ call'[c].target = call[c].target
      /\ call'[c].at = call[c].at /\ call'[c].lock = runtimeOf[s]
      /\ \A b \in Calls \ {c} : call'[b] = call[b] /\ pc'[b] = pc[b]
      /\ pc'[c] = "waiting"
  BY <1>1, Typed DEF Locals
<1>4. \A b \in Calls \ {c} : Serves(b)'
  BY <1>1, <1>2, <1>3, QuietOthers
<1>5. Serves(c)'
  <2>1. AtHome(c)'
    BY <1>1, <1>2, <1>3 DEF Calm, Serves, AtHome
  <2>2. Settled(c)'
    BY <1>1, <1>3 DEF Settled
  <2>3. Seated(c)'
    BY <1>1, <1>2, <1>3 DEF Calm, Serves, Seated
  <2>4. Tuned(c)'
    BY <1>1, <1>3 DEF Calm, Serves, Tuned, registryVars
  <2>5. QED
    BY <2>1, <2>2, <2>3, <2>4 DEF Serves
<1>6. Apart'
  <2>1. \A m \in Calls : \A t \in Sessions : Keeps(t, m)' => Keeps(t, m)
    BY <1>2, <1>3 DEF Keeps
  <2>2. \A m \in Calls : Uses(m)' => Uses(m)
    BY <1>2, <1>3 DEF Uses
  <2>3. \A m \in Calls : Unseen(m)' => Unseen(m)
    <3>1. pc[c] = "bound" => call[c].target # None
      <4>1. pc[c] = "bound" => runtimeOf[s] # None /\ linked[s] = call[c].target /\ s \in Sessions
        BY DEF Calm, Serves, Seated, Steady, Bindings
      <4>2. pc[c] = "bound" => database[runtimeOf[s]] \in Databases
        BY <4>1, BoundMade
      <4>3. QED
        BY <4>1, <4>2, Kinds DEF Steady, Rows
    <3>2. QED
      BY <1>1, <1>3, <3>1 DEF Unseen
  <2>4. QED
    BY <2>1, <2>2, <2>3, ApartKept DEF Calm
<1>7. QED
  BY <1>1, <1>2, <1>4, <1>5, <1>6, SharedKept, Kinds DEF Calm

(* Whoever takes the lock of a runtime takes it from nobody.               *)
LEMMA WriterTaken ==
    ASSUME NEW c \in Calls, TakeWriter(c)
    PROVE  /\ \A r \in Runtimes : writer[r] \notin {None, c} => writer'[r] = writer[r]
           /\ call[c].lock \in Runtimes => writer'[call[c].lock] = c
BY Kinds DEF TakeWriter, WriterFree

LEMMA RestoreBeginsCalm ==
    ASSUME IInv, Steady, Calm, NEW c \in Calls, RestoreBegins(c)
    PROVE  Calm'
<1> DEFINE s == call[c].sess
<1>1. /\ pc[c] = "waiting" /\ call[c].target # None /\ TakeWriter(c)
      /\ UNCHANGED <<registryVars, sessionVars, objectVars, engine, call, job>>
  BY DEF RestoreBegins, Ready
<1>2. UNCHANGED <<live, linked, own, managerOf, cache, index, runtimeOf>>
  BY <1>1 DEF sessionVars, objectVars, registryVars
<1>3. pc'[c] = "restoring" /\ \A b \in Calls \ {c} : pc'[b] = pc[b]
  BY Typed DEF RestoreBegins
<1>4. \A b \in Calls \ {c} : Serves(b)'
  BY <1>1, <1>2, <1>3, WriterTaken, QuietOthers
<1>5. Serves(c)'
  <2>1. /\ s \in Sessions /\ call[c].at = s /\ runtimeOf[s] # None
        /\ linked[s] = call[c].target /\ call[c].lock = runtimeOf[s]
    BY <1>1 DEF Steady, Bindings, Calm, Serves, Settled, Seated
  <2>2. writer'[call[c].lock] = c
    BY <1>1, <2>1, BoundMade, WriterTaken
  <2>3. Seated(c)'
    BY <1>1, <1>2, <1>3, <2>1, <2>2 DEF Seated
  <2>4. AtHome(c)' /\ Settled(c)' /\ Tuned(c)'
    BY <1>1, <1>2, <1>3, <2>1 DEF Calm, Serves, AtHome, Settled, Tuned, registryVars
  <2>5. QED
    BY <2>3, <2>4 DEF Serves
<1>6. Apart'
  <2>1. \A m \in Calls : \A t \in Sessions : Keeps(t, m)' => Keeps(t, m)
    BY <1>1, <1>2, <1>3 DEF Keeps
  <2>2. \A m \in Calls : (Uses(m)' => Uses(m)) /\ (Unseen(m)' => Unseen(m))
    BY <1>1, <1>2, <1>3 DEF Uses, Unseen
  <2>3. QED
    BY <2>1, <2>2, ApartKept DEF Calm
<1>7. QED
  BY <1>1, <1>2, <1>4, <1>5, <1>6, SharedKept, Kinds DEF Calm

(* A publishing call pins the runtime whose lock it takes.                 *)
LEMMA PublishBeginsCalm ==
    ASSUME IInv, Steady, Calm, NEW c \in Calls, PublishBegins(c)
    PROVE  Calm'
<1>1. PICK s \in Sessions :
        /\ Resolve(call[c].key, s)
        /\ \/ /\ runtimeOf[s] = None
              /\ Answer(c)
              /\ own' = [own EXCEPT ![s] = IF @ = None THEN c ELSE @]
           \/ /\ runtimeOf[s] # None
              /\ TakeWriter(c)
              /\ pc' = [pc EXCEPT ![c] = "reading"]
              /\ call' = [call EXCEPT ![c].at = s, ![c].pin = runtimeOf[s],
                                     ![c].manager = managerOf[runtimeOf[s]]]
              /\ UNCHANGED <<own, binding>>
  BY DEF PublishBegins
<1>2. /\ pc[c] = "waiting" /\ call[c].target = None
      /\ UNCHANGED <<registryVars, linked, managerOf, cache, index, engine, job>>
  BY DEF PublishBegins, Ready
<1>3. s = call[c].sess /\ UNCHANGED live
  BY <1>1, <1>2, SameSession
<1>4. job[c].status = "running" =>
        job[c].pin \in Runtimes /\ job[c].data = database[job[c].pin]
  BY DEF Calm, Serves, Tuned
<1>5. CASE /\ Answer(c)
           /\ own' = [own EXCEPT ![s] = IF @ = None THEN c ELSE @]
  <2>1. /\ \A b \in Calls : Serves(b)'
        /\ Matched' /\ HeldLive'
        /\ \A m \in Calls : (Uses(m)' => Uses(m)) /\ (Unseen(m)' => Unseen(m) /\ m # c)
    BY <1>2, <1>3, <1>4, <1>5, AnswerCalm
  <2>2. \A b \in Calls \ {c} : pc'[b] = pc[b] /\ call'[b] = call[b]
    BY <1>5, Typed DEF Answer
  <2>3. pc'[c] = "done"
    BY <1>5, Typed DEF Answer
  <2>4. \A t \in Sessions : own'[t] = own[t] \/ (t = s /\ own'[t] = c)
    BY <1>5, Typed
  <2>5. \A m \in Calls : \A t \in Sessions :
            Keeps(t, m)' => Keeps(t, m) \/ (t = s /\ m = c)
    BY <2>2, <2>3, <2>4 DEF Keeps
  <2>6. Unseen(c)
    BY <1>2 DEF Unseen
  <2>7. Apart'
    BY <2>1, <2>5, <2>6, ApartGrows DEF Calm
  <2>8. QED
    BY <1>2, <2>1, <2>7, SharedKept DEF Calm
<1>6. CASE /\ runtimeOf[s] # None
           /\ TakeWriter(c)
           /\ pc' = [pc EXCEPT ![c] = "reading"]
           /\ call' = [call EXCEPT ![c].at = s, ![c].pin = runtimeOf[s],
                                  ![c].manager = managerOf[runtimeOf[s]]]
           /\ own' = own
  <2> DEFINE r == runtimeOf[s]
  <2>1. /\ pc'[c] = "reading"
        /\ call'[c].key = call[c].key /\ call'[c].sess = s /\ call'[c].at = s
        /\ call'[c].pin = r /\ call'[c].manager = managerOf[r]
        /\ \A b \in Calls \ {c} : pc'[b] = pc[b] /\ call'[b] = call[b]
    BY <1>3, <1>6, Typed DEF Locals
  <2>2. r \in Runtimes /\ holders[r] > 0 /\ call[c].lock = r
    BY <1>2, <1>3, <1>6, BoundMade DEF Calm, Serves, Seated
  <2>3. engine[managerOf[r]] = database[r]
    BY <2>2 DEF Calm, Matched
  <2>4. writer'[r] = c
    BY <1>6, <2>2, WriterTaken
  <2>5. \A b \in Calls \ {c} : Serves(b)'
    BY <1>2, <1>3, <1>6, <2>1, WriterTaken, QuietOthers
  <2>6. Serves(c)'
    <3>1. AtHome(c)' /\ Settled(c)'
      BY <1>2, <1>3, <2>1 DEF Calm, Serves, AtHome, Settled
    <3>2. Seated(c)'
      BY <1>2, <1>6, <2>1, <2>4 DEF Seated, registryVars
    <3>3. Tuned(c)'
      BY <1>2, <1>4, <2>1, <2>3 DEF Tuned, registryVars
    <3>4. QED
      BY <3>1, <3>2, <3>3 DEF Serves
  <2>7. Apart'
    <3>1. \A m \in Calls : \A t \in Sessions : Keeps(t, m)' => Keeps(t, m)
      BY <1>6, <2>1 DEF Keeps
    <3>2. \A m \in Calls : Uses(m)' => Uses(m)
      BY <1>2, <2>1, <2>2 DEF Uses
    <3>3. \A m \in Calls : Unseen(m)' => Unseen(m)
      BY <2>1 DEF Unseen
    <3>4. QED
      BY <3>1, <3>2, <3>3, ApartKept DEF Calm
  <2>8. QED
    BY <1>2, <1>3, <2>5, <2>6, <2>7, SharedKept, Kinds DEF Calm
<1>7. QED
  BY <1>1, <1>5, <1>6

LEMMA WorkerReadsCalm ==
    ASSUME IInv, Steady, Calm, NEW c \in Calls, WorkerReads(c)
    PROVE  Calm'
<1>1. /\ pc[c] = "reading" /\ pc' = [pc EXCEPT ![c] = "read"]
      /\ call' = [call EXCEPT ![c].data = engine[call[c].manager]]
      /\ UNCHANGED <<registryVars, sessionVars, objectVars, lockVars, engine, job>>
  BY DEF WorkerReads, Ready
<1>2. UNCHANGED <<live, linked, own, managerOf, cache, index, runtimeOf, database, writer>>
  BY <1>1 DEF sessionVars, objectVars, registryVars, lockVars
<1>3. /\ pc'[c] = "read"
      /\ call'[c].key = call[c].key /\ call'[c].sess = call[c].sess
      /\ call'[c].at = call[c].at /\ call'[c].pin = call[c].pin
      /\ call'[c].data = engine[call[c].manager]
      /\ \A b \in Calls \ {c} : pc'[b] = pc[b] /\ call'[b] = call[b]
  BY <1>1, Typed DEF Locals
<1>4. \A b \in Calls \ {c} : Serves(b)'
  BY <1>1, <1>2, <1>3, QuietOthers
<1>5. Serves(c)'
  <2>1. AtHome(c)' /\ Settled(c)'
    BY <1>1, <1>2, <1>3 DEF Calm, Serves, AtHome, Settled
  <2>2. Seated(c)'
    BY <1>1, <1>2, <1>3 DEF Calm, Serves, Seated
  <2>3. Tuned(c)'
    BY <1>1, <1>2, <1>3 DEF Calm, Serves, Tuned
  <2>4. QED
    BY <2>1, <2>2, <2>3 DEF Serves
<1>6. Apart'
  <2>1. \A m \in Calls : \A t \in Sessions : Keeps(t, m)' => Keeps(t, m)
    BY <1>2, <1>3 DEF Keeps
  <2>2. \A m \in Calls : (Uses(m)' => Uses(m)) /\ (Unseen(m)' => Unseen(m))
    BY <1>2, <1>3 DEF Uses, Unseen
  <2>3. QED
    BY <2>1, <2>2, ApartKept DEF Calm
<1>7. QED
  BY <1>1, <1>2, <1>4, <1>5, <1>6, SharedKept, Kinds DEF Calm

(* The results land in the runtime they were computed from.                *)
LEMMA PublishCalm ==
    ASSUME IInv, Steady, Calm, NEW c \in Calls, Publish(c)
    PROVE  Calm'
<1> DEFINE s == call[c].sess
<1>1. /\ pc[c] = "read" /\ pc' = [pc EXCEPT ![c] = "published"]
      /\ cache' = Landed(cache, call[c].at, call[c].data)
      /\ UNCHANGED <<registryVars, sessionVars, linked, own, managerOf, index, lockVars,
                     engine, call, job>>
  BY DEF Publish, Ready
<1>2. UNCHANGED <<live, runtimeOf, database, writer>>
  BY <1>1 DEF sessionVars, registryVars, lockVars
<1>3. pc'[c] = "published" /\ \A b \in Calls \ {c} : pc'[b] = pc[b]
  BY <1>1, Typed
<1>4. \A b \in Calls \ {c} : Serves(b)'
  BY <1>1, <1>2, <1>3, QuietOthers
<1>5. Serves(c)'
  <2>1. AtHome(c)' /\ Settled(c)'
    BY <1>1, <1>2, <1>3 DEF Calm, Serves, AtHome, Settled
  <2>2. Seated(c)' /\ Tuned(c)'
    BY <1>1, <1>2, <1>3 DEF Calm, Serves, Seated, Tuned
  <2>3. QED
    BY <2>1, <2>2 DEF Serves
<1>6. Apart'
  <2>1. \A m \in Calls : \A t \in Sessions : Keeps(t, m)' => Keeps(t, m)
    BY <1>1, <1>3 DEF Keeps
  <2>2. \A m \in Calls : (Uses(m)' => Uses(m)) /\ (Unseen(m)' => Unseen(m))
    BY <1>1, <1>3 DEF Uses, Unseen
  <2>3. QED
    BY <2>1, <2>2, ApartKept DEF Calm
<1>7. Landing'
  <2>1. /\ s \in Sessions /\ call[c].at = s /\ runtimeOf[s] # None
        /\ call[c].pin = runtimeOf[s] /\ call[c].data = database[call[c].pin]
    BY <1>1 DEF Steady, Bindings, Calm, Serves, Settled, Seated, Tuned
  <2>2. stateOf[s] = runtimeOf[s] /\ database[stateOf[s]] = call[c].data
    BY <2>1 DEF Steady, Rows
  <2>3. QED
    BY <1>1, <1>2, <2>1, <2>2 DEF Landed, Calm, Landing
<1>8. QED
  BY <1>1, <1>2, <1>4, <1>5, <1>6, <1>7, SharedKept, Kinds DEF Calm

-----------------------------------------------------------------------------
(* Background tasks and the scan.                                          *)

(* A step that moves no call and no manager, and starts no task.           *)
LEMMA TasksServe ==
    ASSUME IInv, Steady, Calm,
           UNCHANGED <<registryVars, live, linked, own, managerOf, writer, engine, pc, call>>,
           \A b \in Calls : job'[b] = job[b] \/ job'[b].status # "running"
    PROVE  /\ \A b \in Calls : Serves(b)'
           /\ Apart' /\ Matched' /\ HeldLive'
<1>1. UNCHANGED <<runtimeOf, database>>
  BY DEF registryVars
<1>2. \A b \in Calls : Serves(b)'
  BY <1>1, OthersServe DEF Calm
<1>3. Apart'
  <2>1. \A m \in Calls : \A t \in Sessions : Keeps(t, m)' => Keeps(t, m)
    BY DEF Keeps
  <2>2. \A m \in Calls : (Uses(m)' => Uses(m)) /\ (Unseen(m)' => Unseen(m))
    BY DEF Uses, Unseen
  <2>3. QED
    BY <2>1, <2>2, ApartKept DEF Calm
<1>4. QED
  BY <1>2, <1>3, SharedKept, Kinds

LEMMA TasksCalm ==
    ASSUME IInv, Steady, Calm, NEW c \in Calls, TaskNext(c)
    PROVE  Calm'
<1>1. /\ UNCHANGED <<registryVars, live, linked, own, managerOf, writer, engine, pc, call>>
      /\ job' = [job EXCEPT ![c] = Ended] /\ cache' = cache
  BY DEF TaskNext, IndexInstalled, TaskStops, sessionVars, objectVars, lockVars
<1>2. \A b \in Calls : job'[b] = job[b] \/ job'[b].status # "running"
  BY <1>1, Typed DEF Ended, NoJob
<1>3. \A b \in Calls : Serves(b)' /\ Apart' /\ Matched' /\ HeldLive'
  BY <1>1, <1>2, TasksServe
<1>4. Landing'
  <2>1. CASE IndexInstalled(c)
    <3>1. /\ job[c].status = "running"
          /\ index' = [index EXCEPT ![job[c].pin] = index[job[c].pin] \cup {job[c].data}]
      BY <2>1 DEF IndexInstalled
    <3>2. job[c].pin \in Runtimes /\ job[c].data = database[job[c].pin]
      BY <3>1 DEF Calm, Serves, Tuned
    <3>3. QED
      BY <1>1, <3>1, <3>2, Typed DEF Calm, Landing, registryVars
  <2>2. CASE TaskStops(c)
    BY <2>2, SharedKept DEF TaskStops, objectVars
  <2>3. QED
    BY <2>1, <2>2 DEF TaskNext
<1>5. QED
  BY <1>3, <1>4 DEF Calm

LEMMA ScanCalm ==
    ASSUME IInv, Steady, Calm, Scan
    PROVE  Calm'
<1>1. /\ UNCHANGED <<registryVars, live, linked, own, managerOf, writer, engine, pc, call>>
      /\ UNCHANGED <<job, cache, index>>
  BY DEF Scan, objectVars, lockVars
<1>2. QED
  BY <1>1, TasksServe, SharedKept DEF Calm

(* Cancelling starts no task.                                              *)
LEMMA CancelledRun ==
    ASSUME IInv, NEW tasks, job' = CancelAll(tasks), NEW b \in Calls
    PROVE  job'[b] = job[b] \/ job'[b].status # "running"
<1>1. CASE b \in tasks
  <2>1. job'[b].status = "cancelled"
    BY <1>1, Typed DEF CancelAll, Jobs
  <2>2. QED
    BY <2>1
<1>2. CASE b \notin tasks
  BY <1>2 DEF CancelAll
<1>3. QED
  BY <1>1, <1>2

-----------------------------------------------------------------------------
(* Connecting and binding.                                                 *)

(* The manager a call connects is its session's, and no other call's.      *)
LEMMA OwnManager ==
    ASSUME IInv, Steady, Calm, NEW c \in Calls, pc[c] \in {"connecting", "clearing"}
    PROVE  /\ call[c].sess \in Sessions /\ call[c].manager \in Calls
           /\ ~Unseen(call[c].manager)
           /\ \A r \in Runtimes : managerOf[r] # call[c].manager
           /\ \A t \in Sessions : Keeps(t, call[c].manager) => t = call[c].sess
           /\ \A b \in Calls \ {c} :
                /\ pc[b] \in {"connecting", "clearing", "reading"} =>
                        call[b].manager # call[c].manager
                /\ pc[b] \notin {"new", "binding", "done"} => call[b].sess # call[c].sess
<1> DEFINE m == call[c].manager
           s == call[c].sess
<1>1. s \in Sessions /\ m \in Calls /\ binding[s] = c
  BY DEF IInv, CallsReady, CallReady, Steady, Bindings
<1>2. Keeps(s, m)
  BY DEF Keeps
<1>3. ~Uses(m) /\ ~Unseen(m) /\ \A t \in Sessions : Keeps(t, m) => t = s
  BY <1>1, <1>2 DEF Calm, Apart
<1>4. \A b \in Calls \ {c} : pc[b] \notin {"new", "binding", "done"} => call[b].sess # s
  BY <1>1 DEF Steady, Bindings
<1>5. ASSUME NEW b \in Calls \ {c}, pc[b] \in {"connecting", "clearing"},
             call[b].manager = m
      PROVE  FALSE
  <2>1. call[b].sess \in Sessions /\ Keeps(call[b].sess, m)
    BY <1>5 DEF Keeps, Steady, Bindings
  <2>2. QED
    BY <1>3, <1>4, <1>5, <2>1
<1>6. \A b \in Calls : pc[b] = "reading" => call[b].manager # m
  BY <1>3 DEF Uses
<1>7. \A r \in Runtimes : managerOf[r] # m
  BY <1>3 DEF Uses
<1>8. QED
  BY <1>1, <1>3, <1>4, <1>5, <1>6, <1>7

(* A session is bound while its call holds the binding lock: the runtime   *)
(* gets the call's manager, or keeps one that is connected to it.          *)
LEMMA BindToCalm ==
    ASSUME IInv, Steady, Calm, NEW c \in Calls, pc[c] \in {"connecting", "clearing"},
           NEW s \in Sessions, s = call[c].sess, NEW d \in Databases, d = call[c].target,
           NEW clear \in BOOLEAN, BindTo(c, s, d, clear),
           engine'[call[c].manager] = d,
           \A m \in Calls : m # call[c].manager => engine'[m] = engine[m],
           call'[c].key = call[c].key, call'[c].sess = s, call'[c].target = d,
           call'[c].at = s,
           \A b \in Calls \ {c} : call'[b] = call[b],
           UNCHANGED <<live, writer>>
    PROVE  Calm'
<1> DEFINE m == call[c].manager
<1>1. database[c] = None
  BY DEF IInv, CallsReady, CallReady
<1>2. PICK r \in Runtimes, healthy \in BOOLEAN :
        Chosen(c, s, d, clear, r) /\ Shared(c, s, clear, r, healthy)
  BY <1>1, BindToBinds
<1>3. /\ runtimeOf'[s] = r /\ database'[r] = d /\ linked'[s] = d /\ own'[s] = None
      /\ \A t \in Sessions \ {s} : /\ runtimeOf'[t] = runtimeOf[t]
                                   /\ linked'[t] = linked[t] /\ own'[t] = own[t]
  BY <1>2, Typed, ZenonT(60) DEF Chosen, BindTo
<1>4. pc'[c] = "bound" /\ \A b \in Calls \ {c} : pc'[b] = pc[b]
  BY Typed, ZenonT(60) DEF BindTo
<1>5. \A b \in Calls : job'[b] = job[b] \/ job'[b].status # "running"
  BY CancelledRun DEF BindTo, TasksLeft
<1>6. /\ m \in Calls /\ ~Unseen(m)
      /\ \A q \in Runtimes : managerOf[q] # m
      /\ \A t \in Sessions : Keeps(t, m) => t = s
      /\ \A b \in Calls \ {c} :
            /\ pc[b] \in {"connecting", "clearing", "reading"} => call[b].manager # m
            /\ pc[b] \notin {"new", "binding", "done"} => call[b].sess # s
  BY OwnManager
<1>7. \A q \in Runtimes : database[q] # None => database'[q] = database[q]
  BY <1>1, <1>2, <1>3 DEF Chosen
<1>8. ASSUME NEW b \in Calls \ {c} PROVE Serves(b)'
  <2>1. pc[b] \in {"clearing", "reading"} => engine'[call[b].manager] = engine[call[b].manager]
    BY <1>6 DEF IInv, CallsReady, CallReady
  <2>2. pc[b] \notin {"new", "binding", "connecting", "clearing", "done"} =>
            /\ runtimeOf'[call[b].sess] = runtimeOf[call[b].sess]
            /\ linked'[call[b].sess] = linked[call[b].sess]
    BY <1>3, <1>6 DEF Steady, Bindings
  <2>3. QED
    BY <1>4, <1>5, <1>7, <2>1, <2>2, OthersServe DEF Calm
<1>9. Serves(c)'
  <2>1. AtHome(c)'
    BY DEF Calm, Serves, AtHome
  <2>2. Settled(c)'
    BY <1>4 DEF Settled
  <2>3. Seated(c)'
    BY <1>3, <1>4, Kinds DEF Seated
  <2>4. Tuned(c)'
    <3>1. job[c].status = "running" => job[c].data # None
      BY JobsReady, Kinds
    <3>2. job[c].status = "running" =>
            job[c].pin \in Runtimes /\ job[c].data = database'[job[c].pin]
      BY <1>7, <3>1 DEF Calm, Serves, Tuned
    <3>3. QED
      BY <1>4, <1>5, <3>2 DEF Tuned
  <2>5. QED
    BY <2>1, <2>2, <2>3, <2>4 DEF Serves
<1>10. \A q \in Runtimes : managerOf'[q] \in {managerOf[q], None} \/ (q = r /\ managerOf'[q] = m)
  BY <1>2, Typed DEF Shared, ManagerKept, ManagersLeft
<1>11. Apart'
  <2>1. ASSUME NEW x \in Calls, NEW t \in Sessions, Keeps(t, x)'
        PROVE  Keeps(t, x) /\ x # m
    <3>1. CASE own'[t] = x
      <4>1. t # s /\ own[t] = x
        BY <1>3, <3>1, Kinds
      <4>2. QED
        BY <1>6, <4>1 DEF Keeps
    <3>2. CASE \E b \in Calls : /\ pc'[b] \in {"connecting", "clearing"}
                                /\ call'[b].sess = t /\ call'[b].manager = x
      BY <1>4, <1>6, <3>2 DEF Keeps
    <3>3. QED
      BY <2>1, <3>1, <3>2 DEF Keeps
  <2>2. ASSUME NEW x \in Calls, Uses(x)'
        PROVE  Uses(x) \/ x = m
    <3>1. CASE \E q \in Runtimes : managerOf'[q] = x
      BY <1>10, <3>1, Kinds DEF Uses
    <3>2. CASE \E b \in Calls : pc'[b] = "reading" /\ call'[b].manager = x
      BY <1>4, <3>2 DEF Uses
    <3>3. QED
      BY <2>2, <3>1, <3>2 DEF Uses
  <2>3. \A x \in Calls : Unseen(x)' => Unseen(x)
    BY <1>4 DEF Unseen
  <2>4. QED
    BY <1>6, <2>1, <2>2, <2>3 DEF Calm, Apart
<1>12. Matched'
  <2> SUFFICES ASSUME NEW q \in Runtimes, holders'[q] > 0
               PROVE  engine'[managerOf'[q]] = database'[q]
    BY DEF Matched
  <2>1. ASSUME managerOf'[q] = managerOf[q], managerOf[q] # None
        PROVE  engine'[managerOf'[q]] = database'[q]
    <3>1. holders[q] > 0 /\ engine[managerOf[q]] = database[q]
      BY <2>1 DEF Steady, Managed, Calm, Matched
    <3>2. database[q] # None
      BY <3>1, Typed
    <3>3. managerOf[q] \in Calls /\ managerOf[q] # m
      BY <1>6, <2>1, Typed
    <3>4. QED
      BY <1>7, <2>1, <3>1, <3>2, <3>3
  <2>2. CASE q = r
    <3>1. managerOf'[r] \in {managerOf[r], m} \ {None}
      BY <1>2, <1>6, Typed, Kinds DEF Shared, ManagerKept, ManagersLeft
    <3>2. QED
      BY <1>3, <2>1, <2>2, <3>1
  <2>3. CASE q # r
    <3>1. holders'[q] <= holders[q] /\ (clear => q \notin Abandoned(s))
      <4>1. holders'[q] <= holders[q] /\ (clear /\ q \in Abandoned(s) => holders'[q] <= 0)
        BY <1>2, <2>3 DEF Chosen
      <4>2. holders[q] \in Nat /\ holders'[q] \in {holders[q], holders[q] - 1}
        BY <1>2, <2>3, Typed DEF Chosen, HoldersWithout
      <4>3. QED
        BY <4>1, <4>2
    <3>2. managerOf'[q] = managerOf[q]
      BY <1>2, <2>3, <3>1, Typed DEF Shared, ManagersLeft
    <3>3. holders[q] > 0
      <4>1. holders[q] \in Nat /\ holders'[q] \in {holders[q], holders[q] - 1}
        BY <1>2, <2>3, Typed DEF Chosen, HoldersWithout
      <4>2. QED
        BY <4>1
    <3>4. QED
      BY <2>1, <3>2, <3>3 DEF IInv, Connected
  <2>4. QED
    BY <2>2, <2>3
<1>13. Landing'
  <2> SUFFICES ASSUME NEW q \in Runtimes PROVE cache'[q] \cup index'[q] \subseteq {database'[q]}
    BY DEF Landing
  <2>1. cache'[q] \subseteq cache[q] /\ index'[q] \subseteq index[q]
    BY <1>2, Typed DEF Shared, BindTo, Emptied
  <2>2. cache[q] \cup index[q] \subseteq {database[q]}
    BY DEF Calm, Landing
  <2>3. CASE database[q] # None
    BY <1>7, <2>1, <2>2, <2>3
  <2>4. CASE database[q] = None
    BY <2>1, <2>2, <2>4, Typed, Kinds
  <2>5. QED
    BY <2>3, <2>4
<1>14. HeldLive'
  <2>1. live[call[c].key] = s /\ call[c].key \in Keys
    BY DEF Calm, Serves, AtHome, Steady, Bindings
  <2>2. QED
    BY <1>3, <2>1 DEF Calm, HeldLive
<1>15. QED
  BY <1>8, <1>9, <1>11, <1>12, <1>13, <1>14 DEF Calm

LEMMA ConnectSucceedsCalm ==
    ASSUME IInv, Steady, Calm, NEW c \in Calls, ConnectSucceeds(c)
    PROVE  Calm'
<1> DEFINE d == call[c].target
           m == call[c].manager
<1>1. PICK s \in Sessions :
        /\ Resolve(call[c].key, s)
        /\ \/ /\ Changes(s, d)
              /\ call' = [call EXCEPT ![c].at = s, ![c].awaited = Cancellable(s)]
              /\ job' = CancelAll(Cancellable(s))
              /\ pc' = [pc EXCEPT ![c] = "clearing"]
              /\ UNCHANGED <<registryVars, objectVars>>
           \/ /\ call' = [call EXCEPT ![c].at = s]
              /\ BindTo(c, s, d, Changes(s, d))
  BY DEF ConnectSucceeds
<1>2. /\ pc[c] = "connecting" /\ d \in Databases /\ m \in Calls
      /\ writer' = writer /\ engine' = [engine EXCEPT ![m] = d]
  BY DEF ConnectSucceeds, Ready, IInv, CallsReady, CallReady, lockVars
<1>3. s = call[c].sess /\ UNCHANGED live
  BY <1>1, <1>2, SameSession
<1>4. engine'[m] = d /\ \A x \in Calls : x # m => engine'[x] = engine[x]
  BY <1>2, Typed
<1>5. /\ call'[c].key = call[c].key /\ call'[c].sess = s /\ call'[c].target = d
      /\ call'[c].at = s /\ call'[c].manager = m
      /\ \A b \in Calls \ {c} : call'[b] = call[b]
  BY <1>1, <1>3, Typed DEF Locals
<1>6. CASE BindTo(c, s, d, Changes(s, d))
  <2>1. Changes(s, d) \in BOOLEAN
    BY DEF Changes
  <2>2. QED
    BY <1>2, <1>3, <1>4, <1>5, <1>6, <2>1, BindToCalm
<1>7. CASE /\ job' = CancelAll(Cancellable(s))
           /\ pc' = [pc EXCEPT ![c] = "clearing"]
           /\ UNCHANGED <<registryVars, objectVars>>
  <2>1. pc'[c] = "clearing" /\ \A b \in Calls \ {c} : pc'[b] = pc[b]
    BY <1>7, Typed
  <2>2. UNCHANGED <<linked, own, managerOf, cache, index, runtimeOf, database>>
    BY <1>7 DEF registryVars, objectVars
  <2>3. \A b \in Calls : job'[b] = job[b] \/ job'[b].status # "running"
    BY <1>7, CancelledRun
  <2>4. /\ \A q \in Runtimes : managerOf[q] # m
        /\ \A b \in Calls \ {c} :
             pc[b] \in {"connecting", "clearing", "reading"} => call[b].manager # m
    BY <1>2, OwnManager
  <2>5. ASSUME NEW b \in Calls \ {c} PROVE Serves(b)'
    <3>1. pc[b] \in {"clearing", "reading"} =>
            engine'[call[b].manager] = engine[call[b].manager]
      BY <1>4, <2>4 DEF IInv, CallsReady, CallReady
    <3>2. QED
      BY <1>2, <1>3, <1>5, <2>1, <2>2, <2>3, <3>1, OthersServe DEF Calm
  <2>6. Serves(c)'
    <3>1. AtHome(c)'
      BY <1>2, <1>3, <1>5 DEF Calm, Serves, AtHome
    <3>2. Settled(c)' /\ Seated(c)'
      BY <1>5, <2>1 DEF Settled, Seated
    <3>3. Tuned(c)'
      BY <1>4, <1>5, <2>1, <2>2, <2>3 DEF Calm, Serves, Tuned
    <3>4. QED
      BY <3>1, <3>2, <3>3 DEF Serves
  <2>7. Apart'
    <3>1. \A x \in Calls : \A t \in Sessions : Keeps(t, x)' => Keeps(t, x)
      BY <1>2, <1>3, <1>5, <2>1, <2>2 DEF Keeps
    <3>2. \A x \in Calls : Uses(x)' => Uses(x)
      BY <1>5, <2>1, <2>2 DEF Uses
    <3>3. \A x \in Calls : Unseen(x)' => Unseen(x)
      BY <1>5, <2>1 DEF Unseen
    <3>4. QED
      BY <3>1, <3>2, <3>3, ApartKept DEF Calm
  <2>8. Matched'
    <3> SUFFICES ASSUME NEW q \in Runtimes, holders[q] > 0
                 PROVE  engine'[managerOf[q]] = database[q]
      BY <1>7, <2>2 DEF Matched, registryVars
    <3>1. managerOf[q] \in Calls /\ managerOf[q] # m
      BY <2>4, Typed DEF IInv, Connected
    <3>2. QED
      BY <1>4, <3>1 DEF Calm, Matched
  <2>9. QED
    BY <1>3, <1>7, <2>2, <2>5, <2>6, <2>7, <2>8, SharedKept, Kinds DEF Calm
<1>8. QED
  BY <1>1, <1>6, <1>7

LEMMA ClearedThenBoundCalm ==
    ASSUME IInv, Steady, Calm, NEW c \in Calls, ClearedThenBound(c)
    PROVE  Calm'
<1> DEFINE s == call[c].sess
           d == call[c].target
<1>1. /\ pc[c] = "clearing" /\ BindTo(c, call[c].at, d, TRUE)
      /\ UNCHANGED <<sessionVars, lockVars, engine, call>>
  BY DEF ClearedThenBound, Ready
<1>2. UNCHANGED <<live, writer>>
  BY <1>1 DEF sessionVars, lockVars
<1>3. /\ call[c].at = s /\ s \in Sessions /\ d \in Databases
      /\ engine[call[c].manager] = d
  BY <1>1 DEF Calm, Serves, Settled, Tuned, Steady, Bindings, IInv, CallsReady, CallReady
<1>4. QED
  BY <1>1, <1>2, <1>3, BindToCalm

-----------------------------------------------------------------------------
(* A session that is released takes nothing from the calls in flight: they *)
(* are other sessions'.                                                    *)
LEMMA ReleaseCalm ==
    ASSUME IInv, Steady, Calm, NEW k \in Keys, live[k] \in Sessions, Release(k),
           UNCHANGED lockVars, UNCHANGED <<engine, pc, call>>, ~overtaken'
    PROVE  Calm'
<1> DEFINE s == live[k]
           left == Detached(Now, s)
<1>1. /\ left.runtimeOf = [runtimeOf EXCEPT ![s] = None]
      /\ left.database = database
      /\ \A q \in Runtimes : left.holders[q] = HoldersWithout(s, q)
      /\ \A q \in Abandoned(s) : left.holders[q] <= 0
  BY Left
<1>2. /\ runtimeOf' = left.runtimeOf /\ database' = left.database
      /\ holders' = left.holders /\ managerOf' = ManagersLeft(s)
      /\ job' = TasksLeft(s) /\ live' = [live EXCEPT ![k] = None]
      /\ UNCHANGED <<linked, own, cache, index>>
  BY DEF Release, Unbind, Become
<1> HIDE DEF left
<1>3. \A b \in Calls : pc[b] \notin {"new", "done"} => call[b].sess # s
  <2>1. ~(\E b \in Calls : InFlight(b) /\ s \in {call[b].sess, call[b].at})
    BY DEF Release
  <2>2. QED
    BY <2>1 DEF InFlight
<1>4. \A b \in Calls : job'[b] = job[b] \/ job'[b].status # "running"
  BY <1>2, CancelledRun DEF TasksLeft
<1>5. ASSUME NEW b \in Calls PROVE Serves(b)'
  <2>1. pc[b] \notin {"new", "done"} =>
            /\ live'[call[b].key] = live[call[b].key]
            /\ runtimeOf'[call[b].sess] = runtimeOf[call[b].sess]
    <3>1. pc[b] \notin {"new", "done"} =>
            /\ call[b].key \in Keys /\ call[b].sess \in Sessions
            /\ live[call[b].key] = call[b].sess
      BY DEF Calm, Serves, AtHome, Steady, Bindings
    <3>2. QED
      BY <1>1, <1>2, <1>3, <3>1, Typed
  <2>2. UNCHANGED <<writer, database, engine, linked>>
    BY <1>1, <1>2 DEF lockVars
  <2>3. QED
    BY <1>4, <2>1, <2>2, OthersServe DEF Calm
<1>6. \A q \in Runtimes : managerOf'[q] = IF q \in Abandoned(s) THEN None ELSE managerOf[q]
  BY <1>2 DEF ManagersLeft
<1>7. Apart'
  <2>1. \A m \in Calls : \A t \in Sessions : Keeps(t, m)' => Keeps(t, m)
    BY <1>2 DEF Keeps
  <2>2. \A m \in Calls : Uses(m)' => Uses(m)
    BY <1>6, Kinds DEF Uses
  <2>3. \A m \in Calls : Unseen(m)' => Unseen(m)
    BY DEF Unseen
  <2>4. QED
    BY <2>1, <2>2, <2>3, ApartKept DEF Calm
<1>8. Matched'
  <2> SUFFICES ASSUME NEW q \in Runtimes, holders'[q] > 0
               PROVE  engine[managerOf'[q]] = database'[q]
    BY DEF Matched
  <2>1. holders[q] \in Nat /\ holders'[q] = HoldersWithout(s, q)
    BY <1>1, <1>2, Typed
  <2>2. holders[q] > 0
    BY <2>1 DEF HoldersWithout
  <2>3. q \notin Abandoned(s)
    <3>1. holders'[q] \in Int
      BY <2>1 DEF HoldersWithout
    <3>2. QED
      BY <1>1, <1>2, <3>1
  <2>4. QED
    BY <1>1, <1>2, <1>6, <2>2, <2>3 DEF Calm, Matched
<1>9. Landing'
  BY <1>1, <1>2 DEF Calm, Landing
<1>10. HeldLive'
  <2> SUFFICES ASSUME NEW t \in Sessions, runtimeOf'[t] # None
               PROVE  \E j \in Keys : live'[j] = t
    BY DEF HeldLive
  <2>1. t # s /\ runtimeOf[t] # None
    BY <1>1, <1>2, Typed
  <2>2. PICK j \in Keys : live[j] = t
    BY <2>1 DEF Calm, HeldLive
  <2>3. live'[j] = t
    BY <1>2, <2>1, <2>2, Typed
  <2>4. QED
    BY <2>3
<1>11. QED
  BY <1>5, <1>7, <1>8, <1>9, <1>10 DEF Calm

LEMMA EvictorCalm ==
    ASSUME IInv, Steady, Calm, EvictorNext, ~overtaken'
    PROVE  Calm'
<1>1. CASE Scan
  BY <1>1, ScanCalm
<1>2. CASE EvictRelease
  <2>1. /\ victim \in Keys /\ live[victim] \in Sessions /\ Release(victim)
        /\ UNCHANGED lockVars /\ UNCHANGED <<engine, pc, call>>
    BY <1>2, Parts DEF EvictRelease, IInv, Listed, EvictTyped
  <2>2. QED
    BY <2>1, ReleaseCalm
<1>3. ASSUME NEW k \in Keys, EvictNext(k) PROVE Calm'
  <2>1. live[k] \in Sessions /\ UNCHANGED lockVars /\ UNCHANGED <<engine, pc, call>>
    BY <1>3 DEF EvictNext, IInv, Listed
  <2>2. CASE Release(k)
    BY <2>1, <2>2, ReleaseCalm
  <2>3. CASE /\ job' = CancelAll(due')
             /\ UNCHANGED <<registryVars, sessionVars, objectVars>>
    <3>1. \A b \in Calls : job'[b] = job[b] \/ job'[b].status # "running"
      BY <2>3, CancelledRun
    <3>2. /\ UNCHANGED <<registryVars, live, linked, own, managerOf, writer, engine, pc, call>>
          /\ UNCHANGED <<cache, index>>
      BY <2>1, <2>3 DEF sessionVars, objectVars, lockVars
    <3>3. QED
      BY <3>1, <3>2, TasksServe, SharedKept DEF Calm
  <2>4. QED
    BY <1>3, <2>2, <2>3 DEF EvictNext
<1>4. QED
  BY <1>1, <1>2, <1>3 DEF EvictorNext

-----------------------------------------------------------------------------
LEMMA CalmInit == Init => Calm
<1> SUFFICES ASSUME Init PROVE Calm
  OBVIOUS
<1>1. \A c \in Calls : Serves(c)
  BY DEF Init, NoJob, Serves, AtHome, Settled, Seated, Tuned
<1>2. Apart
  <2>1. \A m \in Calls : \A s \in Sessions : ~Keeps(s, m)
    BY Kinds DEF Init, Keeps
  <2>2. \A m \in Calls : ~Uses(m)
    BY Kinds DEF Init, Uses
  <2>3. QED
    BY <2>1, <2>2 DEF Apart
<1>3. Matched /\ Landing /\ HeldLive
  BY DEF Init, RegistryInit, Matched, Landing, HeldLive
<1>4. QED
  BY <1>1, <1>2, <1>3 DEF Calm

LEMMA CalmStep == IInv /\ Steady /\ Calm /\ [Next]_vars /\ ~overtaken' => Calm'
<1> SUFFICES ASSUME IInv, Steady, Calm, [Next]_vars, ~overtaken'
             PROVE  Calm'
  OBVIOUS
<1>1. ASSUME NEW c \in Calls, CallNext(c) PROVE Calm'
  BY <1>1, StartCalm, RefuseAtTheDoorCalm, AnswersCalm, ConnectBeginsCalm,
     ConnectFailsCalm, ConnectSucceedsCalm, ClearedThenBoundCalm, QueuesCalm,
     RestoreBeginsCalm, RestoreEndsCalm, PublishBeginsCalm, WorkerReadsCalm, PublishCalm,
     PublishEndsCalm DEF CallNext
<1>2. CASE UNCHANGED vars
  <2>1. UNCHANGED <<registryVars, live, linked, own, managerOf, writer, engine, pc, call,
                    job, cache, index>>
    BY <1>2 DEF vars, sessionVars, objectVars, lockVars
  <2>2. QED
    BY <2>1, TasksServe, SharedKept DEF Calm
<1>3. QED
  BY <1>1, <1>2, TasksCalm, EvictorCalm DEF Next, AllAnswered

(* Once a session was overtaken, it stays so.                              *)
LEMMA OvertakenStays == [Next]_vars => (overtaken => overtaken')
<1> SUFFICES ASSUME [Next]_vars, overtaken PROVE overtaken'
  OBVIOUS
<1>1. ASSUME NEW c \in Calls, CallNext(c) PROVE overtaken'
  BY <1>1 DEF CallNext, StartConnect, StartPublish, RefuseAtTheDoor, RefuseInside,
     ConnectBegins, ConnectFails, ConnectSucceeds, ClearedThenBound, NothingToRestore,
     RestoreQueues, RestoreBegins, RestoreEnds, PublishQueues, PublishBegins, WorkerReads,
     Discard, Publish, PublishEnds, evictVars
<1>2. ASSUME NEW c \in Calls, TaskNext(c) PROVE overtaken'
  BY <1>2 DEF TaskNext, IndexInstalled, TaskStops, evictVars
<1>3. CASE EvictorNext
  <2>1. ASSUME NEW k, Release(k) PROVE overtaken'
    BY <2>1 DEF Release
  <2>2. QED
    BY <1>3, <2>1 DEF EvictorNext, Scan, EvictRelease, EvictNext
<1>4. CASE UNCHANGED vars
  BY <1>4 DEF vars, evictVars
<1>5. QED
  BY <1>1, <1>2, <1>3, <1>4 DEF Next, AllAnswered

-----------------------------------------------------------------------------
(* The inductive invariant of the calls that nobody overtakes: each call   *)
(* is the only one of its session past the binding lock, its session keeps *)
(* name and runtime, and managers that are connected anew are apart from   *)
(* those that are read through.                                            *)
THEOREM CalmInductive == Spec => []CalmInv
<1>1. Init => CalmInv
  BY SessionInit, SteadyInit, CalmInit DEF CalmInv
<1>2. CalmInv /\ [Next]_vars => CalmInv'
  BY SessionStep, SteadyStep, CalmStep, OvertakenStays DEF CalmInv
<1>3. QED
  BY <1>1, <1>2, PTL DEF Spec

(* Only live sessions hold runtimes, until one is released under a call of *)
(* its own: what connect_database binds is closed in the end.              *)
THEOREM HoldersLive == Spec => []HeldByTheLiving
<1>1. CalmInv => HeldByTheLiving
  BY DEF CalmInv, Calm, HeldLive, HeldByTheLiving
<1>2. QED
  BY <1>1, CalmInductive, PTL

(* The manager of a held runtime is connected to the runtime's database,   *)
(* whoever reconnects meanwhile.                                           *)
THEOREM ManagersStayMatched == Spec => []ManagersMatch
<1>1. CalmInv => ManagersMatch
  BY DEF CalmInv, IInv, Connected, Calm, Matched, ManagersMatch
<1>2. QED
  BY <1>1, CalmInductive, PTL

(* What a runtime's cache and index describe is the runtime's database,    *)
(* whatever the sessions that computed them have done in the meantime.     *)
THEOREM ResultsLand == Spec => []LandsWhereRead
<1>1. CalmInv => LandsWhereRead
  BY DEF CalmInv, Calm, Landing, LandsWhereRead
<1>2. QED
  BY <1>1, CalmInductive, PTL

(* One call at a time writes what the sessions of a database share: two    *)
(* that write one database are in one runtime, whose lock both hold.       *)
THEOREM OneWriterAtATime == Spec => []WritersExclusive
<1>1. ASSUME IInv, Steady, Calm, NEW c \in Calls, NEW d \in Databases, Writes(c, d)
      PROVE  registry[d] \in Runtimes /\ writer[registry[d]] = c
  <2> DEFINE s == call[c].sess
             r == runtimeOf[s]
  <2>1. s \in Sessions /\ r # None /\ writer[r] = c /\ database[r] = d
    BY <1>1 DEF Writes, Steady, Bindings, Rows, Calm, Serves, Seated
  <2>2. r \in Runtimes /\ holders[r] > 0
    BY <1>1, <2>1, BoundMade
  <2>3. registry[d] = r
    BY <1>1, <2>1, <2>2 DEF IInv, Exact, Indexed, Now
  <2>4. QED
    BY <2>1, <2>2, <2>3
<1>2. CalmInv => WritersExclusive
  BY <1>1 DEF CalmInv, WritersExclusive, OneWriterPerDatabase
<1>3. QED
  BY <1>2, CalmInductive, PTL

===============================================================================
