-------------------------- MODULE Retention_proofs --------------------------
(***************************************************************************)
(* Proofs about Retention: a cleanup is about old archived versions only,  *)
(* snapshots are those of their own generation, and the history grows.     *)
(*                                                                         *)
(* Then about its passes: enough of the archive is kept and, while no      *)
(* producer is at work, what a version that stays points at, and what is   *)
(* needed to try again.                                                    *)
(***************************************************************************)
EXTENDS Retention, FiniteSetTheorems, SequenceTheorems, WellFoundedInduction, TLAPS

Fields == [file : Files, resource : Resources \cup {None}]
            \cup [resource : Resources \cup {None}]

(* What one history may become.                                            *)
Grown(h, after) ==
    /\ DOMAIN h \subseteq DOMAIN after
    /\ \A n \in DOMAIN h :
        /\ after[n].status = "active" => h[n].status = "active"
        /\ \A k \in Kinds :
            /\ after[n].part[k].state = "active" => h[n].part[k].state = "active"
            /\ h[n].part[k].state = "deleted" => after[n].part[k].state = "deleted"
            /\ h[n].part[k].file # None => after[n].part[k].file # None

(* What filling in leaves of it.                                           *)
SameStates(h, after) ==
    /\ DOMAIN after = DOMAIN h
    /\ \A n \in DOMAIN h, k \in Kinds : after[n].part[k].state = h[n].part[k].state

OwnFiles(s, h) ==
    \A n \in DOMAIN h : h[n].part["graphrag"].file \in {None, File("graphrag", s, n)}

-----------------------------------------------------------------------------
(* Lemmas about histories.                                                 *)

LEMMA FunctionIsHistory ==
    ASSUME NEW h \in Seq(Version), NEW f \in [DOMAIN h -> Version]
    PROVE  /\ f \in Seq(Version)
           /\ Len(f) = Len(h)
           /\ DOMAIN f = DOMAIN h
           /\ DOMAIN h = 1..Len(h)
<1>1. Len(h) \in Nat /\ DOMAIN h = 1..Len(h)
  BY LenProperties
<1>2. f \in Seq(Version)
  BY <1>1, SeqDef
<1>3. Len(f) = Len(h)
  BY <1>1, <1>2, LenProperties
<1>4. QED
  BY <1>1, <1>2, <1>3

LEMMA VersionParts ==
    ASSUME NEW v \in Version, NEW k \in Kinds
    PROVE  /\ v.status \in {"active", "archived"}
           /\ v.part \in [Kinds -> Part]
           /\ v.part[k] \in Part
           /\ v.part[k].state \in {"active", "archived", "deleted"}
           /\ v.part[k].file \in Files \cup {None}
           /\ v.part[k].resource \in Resources \cup {None}
BY DEF Version, Part

LEMMA UpdatedIsPart ==
    ASSUME NEW p \in Part, NEW fields \in Fields
    PROVE  /\ Updated(p, fields) \in Part
           /\ Updated(p, fields).state = p.state
           /\ Updated(p, fields).file = p.file \/ Updated(p, fields).file \in Files
<1>1. CASE fields \in [file : Files, resource : Resources \cup {None}]
  <2>1. DOMAIN fields = {"file", "resource"} /\ DOMAIN p = {"state", "file", "resource"}
    BY <1>1 DEF Part
  <2>2. Updated(p, fields)
          = [state |-> p.state, file |-> fields.file, resource |-> fields.resource]
    BY <2>1 DEF Updated
  <2>3. QED
    BY <1>1, <2>2 DEF Part
<1>2. CASE fields \in [resource : Resources \cup {None}]
  <2>1. DOMAIN fields = {"resource"} /\ DOMAIN p = {"state", "file", "resource"}
    BY <1>2 DEF Part
  <2>2. Updated(p, fields)
          = [state |-> p.state, file |-> p.file, resource |-> fields.resource]
    BY <2>1 DEF Updated
  <2>3. QED
    BY <1>2, <2>2 DEF Part
<1>3. QED
  BY <1>1, <1>2 DEF Fields

LEMMA FilledKeeps ==
    ASSUME NEW h \in Seq(Version), NEW i, NEW k \in Kinds, NEW fields \in Fields
    PROVE  /\ Filled(h, i, k, fields) \in Seq(Version)
           /\ SameStates(h, Filled(h, i, k, fields))
           /\ Grown(h, Filled(h, i, k, fields))
<1> DEFINE F == Filled(h, i, k, fields)
<1>1. ASSUME NEW n \in DOMAIN h
      PROVE  /\ F[n] \in Version
             /\ F[n].status = h[n].status
             /\ \A q \in Kinds :
                 /\ F[n].part[q].state = h[n].part[q].state
                 /\ F[n].part[q].file = h[n].part[q].file \/ F[n].part[q].file \in Files
  <2>1. h[n] \in Version /\ h[n].part \in [Kinds -> Part] /\ h[n].part[k] \in Part
    BY VersionParts, ElementOfSeq, LenProperties
  <2>2. CASE n \notin Addressed(h, i)
    BY <2>1, <2>2 DEF Filled
  <2>3. CASE n \in Addressed(h, i)
    <3>1. F[n] = [h[n] EXCEPT !.part[k] = Updated(@, fields)]
      BY <2>3 DEF Filled
    <3>2. h[n] = [status |-> h[n].status, part |-> h[n].part]
      BY <2>1 DEF Version
    <3>3. F[n] = [status |-> h[n].status,
                  part |-> [h[n].part EXCEPT ![k] = Updated(h[n].part[k], fields)]]
      BY <3>1, <3>2
    <3>4. QED
      BY <2>1, <3>3, UpdatedIsPart DEF Version
  <2>4. QED
    BY <2>2, <2>3
<1>2. F \in [DOMAIN h -> Version]
  BY <1>1 DEF Filled
<1>3. F \in Seq(Version) /\ DOMAIN F = DOMAIN h
  BY <1>2, FunctionIsHistory
<1>4. None \notin Files
  BY HistoryAssumption
<1>5. QED
  BY <1>1, <1>3, <1>4 DEF SameStates, Grown

LEMMA MarkedKeeps ==
    ASSUME NEW h \in Seq(Version), NEW i, NEW k \in Kinds
    PROVE  /\ Marked(h, i, k) \in Seq(Version)
           /\ DOMAIN Marked(h, i, k) = DOMAIN h
           /\ Grown(h, Marked(h, i, k))
           /\ \A n \in DOMAIN h, q \in Kinds :
               /\ Marked(h, i, k)[n].part[q].file = h[n].part[q].file
               /\ (n # i \/ q # k) =>
                    Marked(h, i, k)[n].part[q].state = h[n].part[q].state
<1> DEFINE F == Marked(h, i, k)
<1>1. ASSUME NEW n \in DOMAIN h
      PROVE  /\ F[n] \in Version
             /\ F[n].status = h[n].status
             /\ \A q \in Kinds :
                 /\ F[n].part[q].file = h[n].part[q].file
                 /\ F[n].part[q].state
                      = IF n = i /\ q = k THEN "deleted" ELSE h[n].part[q].state
  <2>1. h[n] \in Version /\ h[n].part \in [Kinds -> Part] /\ h[n].part[k] \in Part
    BY VersionParts, ElementOfSeq, LenProperties
  <2>2. CASE n # i
    BY <2>1, <2>2 DEF Marked
  <2>3. CASE n = i
    <3>1. F[n] = [h[n] EXCEPT !.part[k].state = "deleted"]
      BY <2>3 DEF Marked
    <3>2. h[n] = [status |-> h[n].status, part |-> h[n].part]
      BY <2>1 DEF Version
    <3>3. F[n] = [status |-> h[n].status,
                  part |-> [h[n].part EXCEPT ![k] = [h[n].part[k] EXCEPT !.state = "deleted"]]]
      BY <3>1, <3>2
    <3>4. [h[n].part[k] EXCEPT !.state = "deleted"] \in Part
      BY <2>1 DEF Part
    <3>5. /\ [h[n].part[k] EXCEPT !.state = "deleted"].file = h[n].part[k].file
          /\ [h[n].part[k] EXCEPT !.state = "deleted"].state = "deleted"
      BY <2>1 DEF Part
    <3>6. QED
      BY <2>1, <2>3, <3>3, <3>4, <3>5 DEF Version
  <2>4. QED
    BY <2>2, <2>3
<1>2. F \in [DOMAIN h -> Version]
  BY <1>1 DEF Marked
<1>3. F \in Seq(Version) /\ DOMAIN F = DOMAIN h
  BY <1>2, FunctionIsHistory
<1>4. QED
  BY <1>1, <1>3 DEF Grown

LEMMA ArchivedKeeps ==
    ASSUME NEW v \in Version
    PROVE  /\ Archived(v) \in Version
           /\ Archived(v).status = "archived"
           /\ \A k \in Kinds :
               /\ Archived(v).part[k].file = v.part[k].file
               /\ Archived(v).part[k].state
                    = IF v.part[k].state = "active" THEN "archived" ELSE v.part[k].state
<1>1. ASSUME NEW p \in Part
      PROVE  /\ Superseded(p) \in Part
             /\ Superseded(p).file = p.file
             /\ Superseded(p).state = IF p.state = "active" THEN "archived" ELSE p.state
  BY DEF Superseded, Part
<1>2. v = [status |-> v.status, part |-> v.part] /\ v.part \in [Kinds -> Part]
  BY DEF Version
<1> DEFINE parts == [k \in Kinds |-> Superseded(v.part[k])]
<1>3. Archived(v) = [status |-> "archived", part |-> parts]
  <2>1. Archived(v) = [v EXCEPT !.status = "archived", !.part = parts]
    BY DEF Archived
  <2> HIDE DEF parts
  <2>2. QED
    BY <1>2, <2>1
<1>4. QED
  BY <1>1, <1>2, <1>3 DEF Version

LEMMA BlankIsPart ==
    ASSUME NEW state \in {"active", "archived", "deleted"}
    PROVE  Blank(state) \in Part /\ Blank(state).state = state /\ Blank(state).file = None
BY DEF Blank, Part

LEMMA FreshIsVersion ==
    Fresh \in Version /\ \A k \in Kinds : Fresh.part[k].file = None
BY BlankIsPart DEF Fresh, Version

LEMMA OpenedKeeps ==
    ASSUME NEW h \in Seq(Version)
    PROVE  /\ Opened(h) \in Seq(Version)
           /\ Grown(h, Opened(h))
           /\ DOMAIN Opened(h) = DOMAIN h \cup {Len(h) + 1}
           /\ Opened(h)[Len(h) + 1] = Fresh
           /\ \A n \in DOMAIN h, k \in Kinds :
               /\ Opened(h)[n].part[k].file = h[n].part[k].file
               /\ h[n].part[k].state = "archived" =>
                    Opened(h)[n].part[k].state = "archived"
<1> DEFINE A == [n \in DOMAIN h |-> Archived(h[n])]
<1>1. \A n \in DOMAIN h : h[n] \in Version
  BY ElementOfSeq, LenProperties
<1>2. A \in Seq(Version) /\ Len(A) = Len(h) /\ DOMAIN A = DOMAIN h /\ DOMAIN h = 1..Len(h)
  <2>1. A \in [DOMAIN h -> Version]
    BY <1>1, ArchivedKeeps
  <2>2. QED
    BY <2>1, FunctionIsHistory
<1>3. Len(h) \in Nat
  BY LenProperties
<1> DEFINE O == Append(A, Fresh)
<1>4. /\ O \in Seq(Version)
      /\ Len(O) = Len(h) + 1
      /\ O[Len(h) + 1] = Fresh
      /\ \A n \in DOMAIN h : O[n] = A[n]
  <2> HIDE DEF A
  <2>1. QED
    BY <1>2, <1>3, FreshIsVersion, AppendProperties
<1>5. DOMAIN O = DOMAIN h \cup {Len(h) + 1}
  <2>1. DOMAIN O = 1..(Len(h) + 1)
    BY <1>4, LenProperties
  <2>2. QED
    BY <2>1, <1>2, <1>3
<1>6. Opened(h) = O
  BY DEF Opened
<1>7. \A n \in DOMAIN h : O[n] = Archived(h[n])
  BY <1>4
<1> HIDE DEF O, A
<1>8. \A n \in DOMAIN h, k \in Kinds : h[n].part[k].state \in {"active", "archived", "deleted"}
  BY <1>1, VersionParts
<1>9. QED
  BY <1>1, <1>4, <1>5, <1>6, <1>7, <1>8, ArchivedKeeps DEF Grown

LEMMA SeedIsVersion ==
    ASSUME NEW indexed \in BOOLEAN, NEW file \in Files \cup {None},
           NEW graph \in Graphs \cup {None}
    PROVE  /\ Seed(indexed, file, graph) \in Version
           /\ Seed(indexed, file, graph).part["graphrag"].file = None
<1> DEFINE ontology == [state |-> IF file # None THEN "active" ELSE "archived",
                        file |-> file, resource |-> graph]
           indexing == Blank(IF indexed THEN "active" ELSE "archived")
<1>1. ontology \in Part
  BY DEF Part, Resources
<1>2. indexing \in Part /\ indexing.file = None
  BY BlankIsPart
<1>3. Seed(indexed, file, graph)
        = [status |-> "active",
           part |-> [k \in Kinds |-> IF k = "graphrag" THEN indexing ELSE ontology]]
  BY DEF Seed
<1> HIDE DEF ontology, indexing
<1>4. QED
  BY <1>1, <1>2, <1>3 DEF Version, Kinds

LEMMA HistoriesAreHistories ==
    ASSUME versions \in [Schemas -> Seq(Version)], files \subseteq Files,
           NEW s \in Schemas, NEW h \in Histories(s, Known(s))
    PROVE  /\ h \in Seq(Version)
           /\ versions[s] # <<>> => h = versions[s]
           /\ versions[s] = <<>> => OwnFiles(s, h)
<1>1. CASE h = versions[s]
  BY <1>1 DEF OwnFiles
<1>2. CASE h # versions[s]
  <2>1. PICK f \in Known(s) : versions[s] = <<>> /\ \E seed \in Seeds(f) : h = <<seed>>
    BY <1>2 DEF Histories
  <2>2. f \in Files \cup {None}
    BY <2>1 DEF Known
  <2>a. PICK seed \in Seeds(f) : h = <<seed>>
    BY <2>1
  <2>b. PICK indexed \in BOOLEAN, graph \in Graphs \cup {None} :
          seed = Seed(indexed, f, graph)
    BY <2>a DEF Seeds
  <2>3. seed \in Version /\ seed.part["graphrag"].file = None
    BY <2>b, <2>2, SeedIsVersion
  <2>4. h \in Seq(Version) /\ DOMAIN h = {1} /\ h[1] = seed
    BY <2>a, <2>3
  <2>5. QED
    BY <2>1, <2>3, <2>4 DEF OwnFiles
<1>3. QED
  BY <1>1, <1>2

LEMMA FiniteArchive ==
    ASSUME NEW h \in Seq(Version), NEW k, NEW n
    PROVE  /\ IsFiniteSet(InState(h, k, "archived"))
           /\ IsFiniteSet({m \in InState(h, k, "archived") : m > n})
<1>1. DOMAIN h = 1..Len(h) /\ Len(h) \in Nat
  BY LenProperties
<1>2. IsFiniteSet(DOMAIN h)
  BY <1>1, FS_Interval
<1>3. InState(h, k, "archived") \in SUBSET DOMAIN h
  BY DEF InState
<1>4. QED
  BY <1>2, <1>3, FS_Subset

LEMMA StillNewer ==
    ASSUME NEW h \in Seq(Version), NEW after \in Seq(Version), NEW k \in Kinds, NEW n,
           \A m \in InState(h, k, "archived") : m > n => m \in InState(after, k, "archived"),
           Cardinality({m \in InState(h, k, "archived") : m > n}) >= Keep[k]
    PROVE  Cardinality({m \in InState(after, k, "archived") : m > n}) >= Keep[k]
<1> DEFINE S == {m \in InState(h, k, "archived") : m > n}
           T == {m \in InState(after, k, "archived") : m > n}
<1>1. S \in SUBSET T
  OBVIOUS
<1>2. IsFiniteSet(S) /\ IsFiniteSet(T)
  BY FiniteArchive
<1>3. Cardinality(S) \in Nat /\ Cardinality(T) \in Nat /\ Cardinality(S) <= Cardinality(T)
  BY <1>1, <1>2, FS_Subset, FS_CardinalityType
<1>4. Keep[k] \in Nat
  BY HistoryAssumption
<1>5. QED
  BY <1>3, <1>4

(* What the retention list of a history is about.                          *)
LEMMA ListedIsOld ==
    ASSUME NEW h \in Seq(Version), NEW k \in Kinds, NEW old, NEW n \in ToCleanUp(h, k, old)
    PROVE  /\ n \in DOMAIN h
           /\ n \in InState(h, k, "archived")
           /\ Cardinality({m \in InState(h, k, "archived") : m > n}) >= Keep[k]
<1> DEFINE archived == InState(h, k, "archived")
           newer == {m \in archived : m > n}
<1>1. n \in Expired(h, k, old)
  BY DEF ToCleanUp
<1>2. n \in archived /\ n \notin Newest(archived, Keep[k])
  BY <1>1 DEF Expired
<1>3. IsFiniteSet(newer)
  BY FiniteArchive
<1>4. Cardinality(newer) \in Nat /\ Keep[k] \in Nat
  BY <1>3, FS_CardinalityType, HistoryAssumption
<1>5. ~(Cardinality(newer) < Keep[k])
  BY <1>2 DEF Newest
<1>6. QED
  BY <1>2, <1>4, <1>5 DEF InState

LEMMA FilledOwn ==
    ASSUME NEW s \in Schemas, NEW h \in Seq(Version), OwnFiles(s, h), NEW i \in Nat,
           NEW k \in Kinds, NEW fields \in Fields,
           k = "graphrag" => /\ i # 0
                             /\ fields = [file |-> File("graphrag", s, i),
                                           resource |-> fields.resource]
    PROVE  OwnFiles(s, Filled(h, i, k, fields))
<1> DEFINE F == Filled(h, i, k, fields)
<1>1. SUFFICES ASSUME NEW n \in DOMAIN h
               PROVE  F[n].part["graphrag"].file \in {None, File("graphrag", s, n)}
  BY FilledKeeps DEF OwnFiles, SameStates
<1>2. h[n].part["graphrag"].file \in {None, File("graphrag", s, n)}
  BY DEF OwnFiles
<1>3. h[n] \in Version
  BY ElementOfSeq, LenProperties
<1>4. CASE n \notin Addressed(h, i)
  BY <1>2, <1>4 DEF Filled
<1>5. CASE n \in Addressed(h, i)
  <2>1. F[n] = [h[n] EXCEPT !.part[k] = Updated(@, fields)]
    BY <1>5 DEF Filled
  <2>2. h[n] = [status |-> h[n].status, part |-> h[n].part]
    BY <1>3 DEF Version
  <2>3. F[n].part = [h[n].part EXCEPT ![k] = Updated(h[n].part[k], fields)]
    BY <2>1, <2>2
  <2>4. "graphrag" \in Kinds /\ h[n].part \in [Kinds -> Part]
    BY <1>3, VersionParts DEF Kinds
  <2>5. CASE k # "graphrag"
    BY <1>2, <2>3, <2>4, <2>5
  <2>6. CASE k = "graphrag"
    <3>1. n = i
      BY <1>5, <2>6 DEF Addressed
    <3>2. F[n].part["graphrag"] = Updated(h[n].part[k], fields)
      BY <2>3, <2>4, <2>6
    <3>3. h[n].part[k] \in Part
      BY <2>4
    <3>4. Updated(h[n].part[k], fields).file = fields.file
      BY <2>6, <3>3 DEF Updated, Part
    <3>5. fields.file = File("graphrag", s, i)
      BY <2>6
    <3>6. QED
      BY <3>1, <3>2, <3>4, <3>5
  <2>7. QED
    BY <2>5, <2>6
<1>6. QED
  BY <1>4, <1>5

-----------------------------------------------------------------------------
(* The inductive invariant.                                                *)

HistoryTyped ==
    versions \in [Schemas -> Seq(Version)] /\ view \in [Schemas -> Seq(Version)]

DiskTyped ==
    files \subseteq Files /\ stored \subseteq Resources /\ manager \in Resources \cup {None}

StartsTyped ==
    /\ quota \in [Starts -> Nat]
    /\ writer \in Jobs \cup {Cleaner, None}
    /\ disturbed \in BOOLEAN

PlanTyped ==
    /\ pass \in Kinds \cup {None}
    /\ target \in Schemas \cup {None}
    /\ listed \subseteq Nat
    /\ todo \subseteq listed
    /\ live \subseteq Resources
    /\ reach \in BOOLEAN
    /\ spot \in {"delete", "mark", "over"}

(* What a producer has when it gets there.                                 *)
Ready(run) ==
    /\ run.task # "none" => run.schema \in Schemas
    /\ (run.task \in Indexers /\ run.at = "record") => run.version # 0
    /\ (run.task \in {"auto", "generate", "store"} /\ run.at \in {"load", "record", "count"})
            => run.file \in Files

JobsReady == job \in [Jobs -> JobType] /\ \A j \in Jobs : Ready(job[j])

(* What a pass is about exists, for the cleanup and on disk.               *)
PassReady ==
    /\ pass # None =>
        /\ target \in Schemas
        /\ listed \subseteq DOMAIN view[target]
        /\ listed \subseteq DOMAIN versions[target]
    /\ pass = None => writer # Cleaner /\ todo = {}

(* What the cleanup takes for archived when it turns to the ontologies is. *)
ViewHolds ==
    (writer = Cleaner /\ pass = "graphrag") =>
        InState(view[target], "ontology", "archived")
            \subseteq InState(versions[target], "ontology", "archived")

AllOwn == \A s \in Schemas : OwnFiles(s, versions[s])

Inv ==
    /\ HistoryTyped
    /\ DiskTyped
    /\ StartsTyped
    /\ PlanTyped
    /\ JobsReady
    /\ PassReady
    /\ ViewHolds
    /\ RecentKept
    /\ AllOwn

AllGrown == \A s \in Schemas : Grown(versions[s], versions'[s])

-----------------------------------------------------------------------------
(* Producers.                                                              *)

(* What a producer does to the histories, and to the rest.                 *)
Refills ==
    /\ versions' \in [Schemas -> Seq(Version)]
    /\ AllGrown
    /\ AllOwn'
    /\ \A s \in Schemas : SameStates(versions[s], versions'[s])

Produces ==
    /\ Refills
    /\ DiskTyped'
    /\ StartsTyped'
    /\ JobsReady'
    /\ UNCHANGED <<passVars, target>>
    /\ writer' = Cleaner <=> writer = Cleaner

LEMMA Unfilled == Inv /\ UNCHANGED versions => Refills
BY DEF Inv, HistoryTyped, AllOwn, Refills, AllGrown, Grown, SameStates

LEMMA SavedRefills ==
    ASSUME Inv, NEW s \in Schemas, NEW n \in Nat, NEW k \in Kinds, NEW fields \in Fields,
           k = "graphrag" => /\ n # 0
                             /\ fields = [file |-> File("graphrag", s, n),
                                           resource |-> fields.resource],
           Saved([versions EXCEPT ![s] = Filled(@, n, k, fields)])
    PROVE  Refills
<1>1. CASE UNCHANGED versions
  BY <1>1, Unfilled
<1>2. CASE versions' = [versions EXCEPT ![s] = Filled(versions[s], n, k, fields)]
  <2>1. versions \in [Schemas -> Seq(Version)] /\ AllOwn
    BY DEF Inv, HistoryTyped
  <2>2. /\ Filled(versions[s], n, k, fields) \in Seq(Version)
        /\ SameStates(versions[s], Filled(versions[s], n, k, fields))
        /\ Grown(versions[s], Filled(versions[s], n, k, fields))
    BY <2>1, FilledKeeps
  <2>3. OwnFiles(s, Filled(versions[s], n, k, fields))
    BY <2>1, FilledOwn DEF AllOwn
  <2>4. \A t \in Schemas \ {s} :
          Grown(versions[t], versions[t]) /\ SameStates(versions[t], versions[t])
    BY DEF Grown, SameStates
  <2>5. QED
    BY <1>2, <2>1, <2>2, <2>3, <2>4 DEF Refills, AllGrown, AllOwn
<1>3. QED
  BY <1>1, <1>2 DEF Saved

LEMMA SameArchive ==
    ASSUME NEW h \in Seq(Version), NEW after \in Seq(Version), SameStates(h, after),
           NEW k \in Kinds
    PROVE  InState(after, k, "archived") = InState(h, k, "archived")
BY DEF SameStates, InState

LEMMA ProducerKeeps ==
    ASSUME Inv, Produces
    PROVE  Inv' /\ AllGrown
<1>1. versions \in [Schemas -> Seq(Version)] /\ versions' \in [Schemas -> Seq(Version)]
  BY DEF Inv, HistoryTyped, Produces, Refills
<1>2. /\ pass' = pass /\ view' = view /\ listed' = listed /\ todo' = todo /\ live' = live
      /\ reach' = reach /\ spot' = spot /\ target' = target
  BY DEF Produces, passVars
<1>3. HistoryTyped'
  BY <1>1, <1>2 DEF Inv, HistoryTyped
<1>4. PlanTyped'
  BY <1>2 DEF Inv, PlanTyped
<1>5. PassReady'
  BY <1>2 DEF Inv, PassReady, Produces, Refills, SameStates
<1>6. \A s \in Schemas, k \in Kinds :
        InState(versions'[s], k, "archived") = InState(versions[s], k, "archived")
  BY <1>1, SameArchive DEF Produces, Refills
<1>7. "ontology" \in Kinds
  BY DEF Kinds
<1>8. ViewHolds'
  <2>1. SUFFICES ASSUME writer' = Cleaner, pass' = "graphrag"
                 PROVE  InState(view[target], "ontology", "archived")
                            \subseteq InState(versions'[target], "ontology", "archived")
    BY <1>2 DEF ViewHolds
  <2>2. writer = Cleaner /\ pass = "graphrag" /\ pass # None
    BY <1>2, <2>1, HistoryAssumption, RetentionAssumption DEF Produces, Kinds
  <2>3. QED
    BY <1>6, <1>7, <2>2 DEF Inv, ViewHolds, PassReady
<1>9. RecentKept'
  <2>1. CASE pass = None
    BY <1>2, <2>1 DEF Inv, PassReady, RecentKept
  <2>2. CASE pass # None
    <3>1. target \in Schemas /\ pass \in Kinds
      BY <2>2 DEF Inv, PassReady, PlanTyped
    <3>2. QED
      BY <1>2, <1>6, <3>1 DEF Inv, RecentKept
  <2>3. QED
    BY <2>1, <2>2
<1>10. QED
  BY <1>3, <1>4, <1>5, <1>8, <1>9 DEF Inv, Produces, Refills

LEMMA Distinct ==
    /\ \A j \in Jobs : j # None /\ j # Cleaner
    /\ Cleaner # None
    /\ "graphrag" \in Kinds /\ "ontology" \in Kinds
    /\ \A k \in Kinds : k # None
    /\ \A s \in Schemas : s # None
BY RetentionAssumption DEF Kinds

LEMMA SpendTyped ==
    ASSUME quota \in [Starts -> Nat], NEW S, Spend(S)
    PROVE  quota' \in [Starts -> Nat]
<1>1. ASSUME NEW what \in Starts
      PROVE  quota[what] - (IF what \in S THEN 1 ELSE 0) \in Nat
  BY DEF Spend
<1>2. QED
  BY <1>1 DEF Spend

LEMMA JobSet ==
    ASSUME JobsReady, NEW j \in Jobs, NEW run \in JobType, Ready(run),
           job' = [job EXCEPT ![j] = run]
    PROVE  JobsReady'
BY DEF JobsReady

LEMMA StartedReady ==
    ASSUME NEW task \in Tasks, NEW s \in Schemas, NEW n \in Nat
    PROVE  /\ Started(task, "make", s, n) \in JobType
           /\ Ready(Started(task, "make", s, n))
           /\ Started(task, "make", s, n)
                = [task |-> task, at |-> "make", schema |-> s, version |-> n,
                   file |-> None, graph |-> None]
<1>1. Started(task, "make", s, n)
        = [task |-> task, at |-> "make", schema |-> s, version |-> n,
           file |-> None, graph |-> None]
  BY DEF Started
<1>2. QED
  BY <1>1 DEF JobType, Ready

LEMMA NoJobReady == NoJob \in JobType /\ Ready(NoJob)
BY DEF NoJob, JobType, Ready, Indexers

LEMMA CapturedTyped ==
    ASSUME Inv, NEW s \in Schemas, NEW n \in Captured(s)
    PROVE  n \in Nat
<1>1. versions[s] \in Seq(Version)
  BY DEF Inv, HistoryTyped
<1>2. Len(versions[s]) \in Nat /\ DOMAIN versions[s] = 1..Len(versions[s])
  BY <1>1, LenProperties
<1>3. QED
  BY <1>2 DEF Captured, Current, Newest, ActiveIn

LEMMA JobFacts ==
    ASSUME Inv, NEW j \in Jobs
    PROVE  /\ job[j] \in JobType
           /\ job[j] = [task |-> job[j].task, at |-> job[j].at, schema |-> job[j].schema,
                        version |-> job[j].version, file |-> job[j].file,
                        graph |-> job[j].graph]
           /\ Ready(job[j])
           /\ job[j].version \in Nat
           /\ job[j].graph \in Graphs \cup {None}
BY DEF Inv, JobsReady, JobType

LEMMA GoesReady ==
    ASSUME Inv, NEW j \in Jobs, job[j].task \in Tasks,
           NEW at \in {"make", "save", "load", "record", "chain", "count"},
           (job[j].task \in Indexers /\ at = "record") => job[j].version # 0,
           (job[j].task \in {"auto", "generate", "store"} /\ at \in {"load", "record", "count"})
               => job[j].file \in Files,
           Goes(j, at)
    PROVE  JobsReady'
<1> DEFINE run == [job[j] EXCEPT !.at = at]
<1>0. job[j] \in JobType
  BY JobFacts
<1>1. run = [task |-> job[j].task, at |-> at, schema |-> job[j].schema,
             version |-> job[j].version, file |-> job[j].file, graph |-> job[j].graph]
  BY <1>0 DEF JobType
<1>2. run \in JobType
  BY JobFacts DEF JobType
<1>3. Ready(run)
  BY <1>1, JobFacts DEF Ready, Tasks, Indexers
<1>4. job' = [job EXCEPT ![j] = run]
  BY DEF Goes
<1>5. QED
  BY <1>2, <1>3, <1>4, JobSet DEF Inv

LEMMA EndsReady ==
    ASSUME Inv, NEW j \in Jobs, Ends(j)
    PROVE  /\ JobsReady'
           /\ writer' \in Jobs \cup {Cleaner, None}
           /\ writer' = Cleaner <=> writer = Cleaner
<1>1. JobsReady'
  BY NoJobReady, JobSet DEF Ends, Inv
<1>2. writer \in Jobs \cup {Cleaner, None}
  BY DEF Inv, StartsTyped
<1>3. QED
  BY <1>1, <1>2, Distinct DEF Ends

-----------------------------------------------------------------------------
(* One lemma for each step of a producer.                                  *)

LEMMA GiveUpProduces ==
    ASSUME Inv, NEW j \in Jobs, GiveUp(j) PROVE Produces
<1>1. Refills
  BY Unfilled DEF GiveUp
<1>2. QED
  BY <1>1, EndsReady
  DEF GiveUp, Produces, Inv, DiskTyped, diskVars, StartsTyped, runVars, passVars

LEMMA InitializeProduces ==
    ASSUME Inv, NEW j \in Jobs, NEW s \in Schemas, InitializeGraphRAG(j, s)
    PROVE  Produces
<1>1. Refills
  BY Unfilled DEF InitializeGraphRAG
<1>2. PICK n \in Captured(s) : Start(j, Started("initialize", "make", s, n))
  BY DEF InitializeGraphRAG
<1>3. JobsReady'
  <2>1. n \in Nat
    BY CapturedTyped
  <2>2. QED
    BY <1>2, <2>1, StartedReady, JobSet DEF Start, Inv, Tasks, Indexers
<1>4. quota' \in [Starts -> Nat]
  BY SpendTyped DEF InitializeGraphRAG, Inv, StartsTyped
<1>5. QED
  BY <1>1, <1>2, <1>3, <1>4
  DEF InitializeGraphRAG, Start, Produces, Inv, DiskTyped, diskVars, StartsTyped

LEMMA IndexProduces ==
    ASSUME Inv, NEW j \in Jobs, Index(j) PROVE Produces
<1>1. Refills
  BY Unfilled DEF Index
<1>2. job[j].schema \in Schemas
  BY JobFacts DEF Index, Steps, Ready, Indexers
<1>3. DiskTyped'
  BY <1>2 DEF Index, Inv, DiskTyped, Resources
<1>4. JobsReady'
  BY GoesReady DEF Index, Steps, Indexers, Tasks
<1>5. QED
  BY <1>1, <1>3, <1>4 DEF Index, Produces, Inv, StartsTyped, runVars, passVars

LEMMA SaveSnapshotProduces ==
    ASSUME Inv, NEW j \in Jobs, SaveSnapshot(j) PROVE Produces
<1>1. Refills
  BY Unfilled DEF SaveSnapshot
<1>2. job[j].schema \in Schemas /\ job[j].version \in Nat
  BY JobFacts DEF SaveSnapshot, Steps, Ready, Indexers
<1>3. DiskTyped'
  BY <1>2, Distinct DEF SaveSnapshot, Inv, DiskTyped, File, Files
<1>4. JobsReady'
  <2>1. CASE job[j].version = 0
    BY <2>1, GoesReady DEF SaveSnapshot, Steps, Indexers, Tasks
  <2>2. CASE job[j].version # 0
    BY <2>2, GoesReady DEF SaveSnapshot, Steps, Indexers, Tasks
  <2>3. QED
    BY <2>1, <2>2
<1>5. QED
  BY <1>1, <1>3, <1>4 DEF SaveSnapshot, Produces, Inv, StartsTyped, runVars, passVars

LEMMA RecordIndexProduces ==
    ASSUME Inv, NEW j \in Jobs, RecordIndex(j) PROVE Produces
<1> DEFINE sc == job[j].schema
           n == job[j].version
           fields == [file |-> File("graphrag", sc, n), resource |-> manager]
<1>1. sc \in Schemas /\ n \in Nat /\ n # 0
  BY JobFacts DEF RecordIndex, Steps, Ready, Indexers
<1>2. fields \in Fields
  BY <1>1, Distinct DEF Inv, DiskTyped, Fields, File, Files
<1>3. Saved([versions EXCEPT ![sc] = Filled(@, n, "graphrag", fields)])
  BY DEF RecordIndex
<1>4. fields = [file |-> File("graphrag", sc, n), resource |-> fields.resource]
  OBVIOUS
<1>5. Refills
  <2> HIDE DEF fields, sc, n
  <2>1. QED
    BY <1>1, <1>2, <1>3, <1>4, Distinct, SavedRefills
<1>6. JobsReady'
  BY GoesReady DEF RecordIndex, Steps, Indexers, Tasks
<1>7. QED
  BY <1>5, <1>6
  DEF RecordIndex, Produces, Inv, DiskTyped, diskVars, StartsTyped, runVars, passVars

LEMMA ChainProduces ==
    ASSUME Inv, NEW j \in Jobs, Chain(j) PROVE Produces
<1>1. Refills
  BY Unfilled DEF Chain
<1>2. job[j].schema \in Schemas /\ job[j].version \in Nat
  BY JobFacts DEF Chain, Steps, Ready, Indexers
<1>3. job' = [job EXCEPT ![j] = Started("auto", "make", job[j].schema, job[j].version)]
  BY DEF Chain
<1>4. JobsReady'
  BY <1>2, <1>3, StartedReady, JobSet DEF Inv, Tasks
<1>5. quota' \in [Starts -> Nat]
  BY SpendTyped DEF Chain, Inv, StartsTyped
<1>6. QED
  BY <1>1, <1>4, <1>5
  DEF Chain, Produces, Inv, DiskTyped, diskVars, StartsTyped, runVars, passVars

(* It takes the lock, with a job to do for the schema.                     *)
LEMMA ToolProduces ==
    ASSUME Inv, NEW j \in Jobs, writer = None, writer' = j,
           NEW run \in JobType, Ready(run), Start(j, run), NEW S, Spend(S),
           UNCHANGED <<versions, diskVars, manager, passVars, target>>
    PROVE  Produces
<1>1. Refills
  BY Unfilled
<1>2. JobsReady'
  BY JobSet DEF Start, Inv
<1>3. quota' \in [Starts -> Nat]
  BY SpendTyped DEF Inv, StartsTyped
<1>4. QED
  BY <1>1, <1>2, <1>3, Distinct
  DEF Start, Produces, Inv, DiskTyped, diskVars, StartsTyped

LEMMA GenerateProduces ==
    ASSUME Inv, NEW j \in Jobs, NEW s \in Schemas, GenerateOntology(j, s)
    PROVE  Produces
<1>1. PICK n \in Captured(s), g \in Graphs \cup {None} :
        Start(j, [Started("generate", "make", s, n) EXCEPT !.graph = g])
  BY DEF GenerateOntology
<1> DEFINE run == [Started("generate", "make", s, n) EXCEPT !.graph = g]
<1>2. n \in Nat
  BY CapturedTyped
<1>3. run = [task |-> "generate", at |-> "make", schema |-> s, version |-> n,
             file |-> None, graph |-> g]
  <2>1. Started("generate", "make", s, n) \in JobType
    BY <1>2, StartedReady DEF Tasks
  <2>2. QED
    BY <1>2, <2>1 DEF Started, JobType
<1>4. run \in JobType /\ Ready(run)
  BY <1>2, <1>3 DEF JobType, Ready, Tasks, Indexers
<1>5. QED
  BY <1>1, <1>4, ToolProduces DEF GenerateOntology

LEMMA StoreProduces ==
    ASSUME Inv, NEW j \in Jobs, NEW s \in Schemas, StoreOntologyInRDF(j, s)
    PROVE  Produces
<1>1. PICK n \in Captured(s), f \in files :
        Start(j, [Started("store", "load", s, n) EXCEPT !.file = f])
  BY DEF StoreOntologyInRDF
<1> DEFINE run == [Started("store", "load", s, n) EXCEPT !.file = f]
<1>2. n \in Nat /\ f \in Files
  BY CapturedTyped DEF Inv, DiskTyped
<1>3. run = [task |-> "store", at |-> "load", schema |-> s, version |-> n,
             file |-> f, graph |-> None]
  <2>1. Started("store", "load", s, n) \in JobType
    BY <1>2 DEF Started, JobType, Tasks
  <2>2. QED
    BY <1>2, <2>1 DEF Started, JobType
<1>4. run \in JobType /\ Ready(run)
  BY <1>2, <1>3 DEF JobType, Ready, Tasks, Indexers
<1>5. QED
  BY <1>1, <1>4, ToolProduces DEF StoreOntologyInRDF

LEMMA WriteProduces ==
    ASSUME Inv, NEW j \in Jobs, WriteOntology(j)
    PROVE  Produces
<1> DEFINE f == File("ontology", job[j].schema, job[j].version)
           next == IF job[j].task = "auto" THEN "load" ELSE "record"
           run == [job[j] EXCEPT !.file = f, !.at = next]
<1>1. Refills
  BY Unfilled DEF WriteOntology
<1>2. /\ job[j] \in JobType
      /\ job[j].task \in {"auto", "generate"}
      /\ job[j].schema \in Schemas
      /\ job[j].version \in Nat
  BY JobFacts DEF WriteOntology, Steps, Ready
<1>3. f \in Files
  BY <1>2, Distinct DEF File, Files
<1>4. DiskTyped'
  BY <1>3 DEF WriteOntology, Inv, DiskTyped
<1>5. job' = [job EXCEPT ![j] = run]
  <2>1. job' = [job EXCEPT ![j].file = f, ![j].at = next]
    BY DEF WriteOntology
  <2>2. job \in [Jobs -> JobType]
    BY DEF Inv, JobsReady
  <2> HIDE DEF f, next
  <2>3. QED
    BY <2>1, <2>2
<1>6. run \in JobType /\ Ready(run)
  <2>1. /\ run.task = job[j].task /\ run.schema = job[j].schema
        /\ run.at = next /\ run.file = f
    BY <1>2 DEF JobType
  <2>2. next \in {"load", "record"}
    OBVIOUS
  <2>3. run \in JobType
    <3> DEFINE filled == [job[j] EXCEPT !.file = f]
    <3>1. filled \in JobType
      BY <1>2, <1>3 DEF JobType
    <3>2. run = [filled EXCEPT !.at = next]
      BY <1>2, <1>3 DEF JobType
    <3> HIDE DEF filled, run, next
    <3>3. QED
      BY <2>2, <3>1, <3>2 DEF JobType
  <2> HIDE DEF run, f
  <2>4. QED
    BY <1>2, <1>3, <2>1, <2>2, <2>3 DEF Ready, Indexers
<1>7. JobsReady'
  <2> HIDE DEF run
  <2>1. QED
    BY <1>5, <1>6, JobSet DEF Inv
<1>8. QED
  BY <1>1, <1>4, <1>7 DEF WriteOntology, Produces, Inv, StartsTyped, runVars, passVars

LEMMA LoadReady ==
    ASSUME Inv, NEW j \in Jobs, Steps(j, {"auto", "generate", "store"}, "load"),
           NEW g \in Graphs \cup {None}, NEW next \in {"count", "record"},
           job' = [job EXCEPT ![j].graph = g, ![j].at = next]
    PROVE  JobsReady'
<1> DEFINE at == [job[j] EXCEPT !.graph = g]
           run == [at EXCEPT !.at = next]
<1>1. /\ job \in [Jobs -> JobType]
      /\ job[j] \in JobType
      /\ job[j].task \in {"auto", "generate", "store"}
      /\ job[j].schema \in Schemas
      /\ job[j].file \in Files
  BY JobFacts DEF Steps, Ready, Inv, JobsReady
<1>2. at \in JobType /\ at.task = job[j].task /\ at.schema = job[j].schema
      /\ at.file = job[j].file
  BY <1>1 DEF JobType
<1>3. run = [job[j] EXCEPT !.graph = g, !.at = next]
  BY <1>1 DEF JobType
<1>4. job' = [job EXCEPT ![j] = run]
  <2> HIDE DEF at, run
  <2>1. job' = [job EXCEPT ![j] = [job[j] EXCEPT !.graph = g, !.at = next]]
    BY <1>1
  <2>2. QED
    BY <1>3, <2>1
<1>5. run \in JobType /\ run.task = job[j].task /\ run.schema = job[j].schema
      /\ run.file = job[j].file
  <2> HIDE DEF at
  <2>1. QED
    BY <1>2 DEF JobType
<1>6. Ready(run)
  <2> HIDE DEF run
  <2>1. QED
    BY <1>1, <1>5 DEF Ready, Indexers
<1>7. QED
  <2> HIDE DEF run
  <2>1. QED
    BY <1>4, <1>5, <1>6, JobSet DEF Inv

LEMMA LoadProduces ==
    ASSUME Inv, NEW j \in Jobs, LoadOntology(j)
    PROVE  Produces
<1> DEFINE next == IF job[j].task = "generate" THEN "count" ELSE "record"
<1>1. Refills
  BY Unfilled DEF LoadOntology
<1>2. next \in {"count", "record"} /\ job[j].graph \in Graphs \cup {None}
  BY JobFacts
<1>3. Steps(j, {"auto", "generate", "store"}, "load")
  BY DEF LoadOntology
<1>4. JobsReady' /\ stored' \subseteq Resources
  <2>1. CASE \E g \in IF job[j].graph = None THEN Graphs ELSE {job[j].graph} :
               /\ \/ stored' = stored \cup {g}
                  \/ job[j].task = "auto" /\ stored' = stored
               /\ job' = [job EXCEPT ![j].graph = g, ![j].at = next]
    <3>1. PICK g \in Graphs :
             /\ stored' = stored \cup {g} \/ stored' = stored
             /\ job' = [job EXCEPT ![j].graph = g, ![j].at = next]
      BY <1>2, <2>1
    <3>2. stored' \subseteq Resources
      BY <3>1 DEF Inv, DiskTyped, Resources
    <3> HIDE DEF next
    <3>3. QED
      BY <1>2, <1>3, <3>1, <3>2, LoadReady
  <2>2. CASE job[j].task = "auto" /\ stored' = stored /\ Goes(j, next)
    <3>1. job[j].file \in Files /\ job[j].task \in Tasks /\ job[j].task \notin Indexers
      BY <1>3, <2>2, JobFacts DEF Ready, Steps, Tasks, Indexers
    <3>2. stored' \subseteq Resources
      BY <2>2 DEF Inv, DiskTyped
    <3> HIDE DEF next
    <3>3. QED
      BY <1>2, <2>2, <3>1, <3>2, GoesReady
  <2>3. QED
    BY <2>1, <2>2 DEF LoadOntology
<1>5. QED
  BY <1>1, <1>4
  DEF LoadOntology, Produces, Inv, DiskTyped, StartsTyped, runVars, passVars

LEMMA RecordProduces ==
    ASSUME Inv, NEW j \in Jobs, RecordOntology(j)
    PROVE  Produces
<1> DEFINE sc == job[j].schema
           n == job[j].version
           fields == [file |-> job[j].file, resource |-> job[j].graph]
<1>1. /\ sc \in Schemas /\ n \in Nat /\ job[j].file \in Files
      /\ job[j].graph \in Resources \cup {None}
      /\ job[j].task \in {"auto", "generate", "store"}
  BY JobFacts DEF RecordOntology, Steps, Ready, Resources
<1>2. fields \in Fields
  BY <1>1 DEF Fields
<1>3. Saved([versions EXCEPT ![sc] = Filled(@, n, "ontology", fields)])
  BY DEF RecordOntology
<1>4. Refills
  <2> HIDE DEF fields, sc, n
  <2>1. QED
    BY <1>1, <1>2, <1>3, Distinct, SavedRefills
<1>5. DiskTyped'
  BY DEF RecordOntology, Inv, DiskTyped
<1>6. /\ JobsReady'
      /\ writer' \in Jobs \cup {Cleaner, None}
      /\ writer' = Cleaner <=> writer = Cleaner
  <2>1. CASE Goes(j, "load") /\ writer' = writer
    <3>1. JobsReady'
      BY <1>1, <2>1, GoesReady DEF Tasks, Indexers
    <3>2. QED
      BY <2>1, <3>1 DEF Inv, StartsTyped
  <2>2. CASE Ends(j)
    BY <2>2, EndsReady
  <2>3. QED
    BY <2>1, <2>2 DEF RecordOntology
<1>7. QED
  BY <1>4, <1>5, <1>6 DEF RecordOntology, Produces, Inv, StartsTyped, runVars, passVars

LEMMA RecordGraphProduces ==
    ASSUME Inv, NEW j \in Jobs, RecordGraph(j)
    PROVE  Produces
<1> DEFINE sc == job[j].schema
           n == job[j].version
           fields == [resource |-> job[j].graph]
<1>1. sc \in Schemas /\ n \in Nat /\ job[j].graph \in Resources \cup {None}
  BY JobFacts DEF RecordGraph, Steps, Ready, Resources
<1>2. fields \in Fields
  BY <1>1 DEF Fields
<1>3. Saved([versions EXCEPT ![sc] = Filled(@, n, "ontology", fields)])
  BY DEF RecordGraph
<1>4. Refills
  <2> HIDE DEF fields, sc, n
  <2>1. QED
    BY <1>1, <1>2, <1>3, Distinct, SavedRefills
<1>5. QED
  BY <1>4, EndsReady
  DEF RecordGraph, Produces, Inv, DiskTyped, diskVars, StartsTyped, runVars, passVars

-----------------------------------------------------------------------------
(* Discovery opens a version, whatever a cleanup's thread is about.        *)

LEMMA OpenedGrows ==
    ASSUME Inv, NEW s \in Schemas, NEW h \in Histories(s, Known(s))
    PROVE  /\ Opened(h) \in Seq(Version)
           /\ Grown(versions[s], Opened(h))
           /\ OwnFiles(s, Opened(h))
           /\ \A k \in Kinds :
               InState(versions[s], k, "archived") \subseteq InState(Opened(h), k, "archived")
<1>1. /\ versions \in [Schemas -> Seq(Version)]
      /\ files \subseteq Files
      /\ versions[s] \in Seq(Version)
      /\ OwnFiles(s, versions[s])
  BY DEF Inv, HistoryTyped, DiskTyped, AllOwn
<1>2. /\ h \in Seq(Version)
      /\ versions[s] # <<>> => h = versions[s]
      /\ versions[s] = <<>> => OwnFiles(s, h)
  BY <1>1, HistoriesAreHistories
<1>3. OwnFiles(s, h)
  BY <1>1, <1>2
<1>4. OwnFiles(s, Opened(h))
  <2>1. /\ DOMAIN Opened(h) = DOMAIN h \cup {Len(h) + 1}
        /\ Opened(h)[Len(h) + 1].part["graphrag"].file = None
        /\ \A n \in DOMAIN h :
            Opened(h)[n].part["graphrag"].file = h[n].part["graphrag"].file
    BY <1>2, OpenedKeeps, FreshIsVersion, Distinct
  <2>2. QED
    BY <1>3, <2>1 DEF OwnFiles
<1>5. CASE versions[s] = <<>>
  <2>1. DOMAIN versions[s] = {}
    BY <1>5
  <2>2. QED
    BY <1>2, <1>4, <2>1, OpenedKeeps DEF Grown, InState
<1>6. CASE versions[s] # <<>>
  <2>1. h = versions[s]
    BY <1>2, <1>6
  <2>2. QED
    BY <1>2, <1>4, <2>1, OpenedKeeps DEF InState
<1>7. QED
  BY <1>5, <1>6

(* Of the plan of a pass without the lock: it stays good.                  *)
LEMMA PlanKeeps ==
    ASSUME Inv, versions' \in [Schemas -> Seq(Version)], AllGrown, writer' # Cleaner,
           UNCHANGED <<passVars, target>>,
           \A s \in Schemas, k \in Kinds :
               InState(versions[s], k, "archived") \subseteq InState(versions'[s], k, "archived")
    PROVE  HistoryTyped' /\ PlanTyped' /\ PassReady' /\ ViewHolds' /\ RecentKept'
<1>1. /\ pass' = pass /\ view' = view /\ listed' = listed /\ todo' = todo /\ live' = live
      /\ reach' = reach /\ spot' = spot /\ target' = target
  BY DEF passVars
<1>2. HistoryTyped' /\ PlanTyped'
  BY <1>1 DEF Inv, HistoryTyped, PlanTyped
<1>3. PassReady'
  BY <1>1 DEF Inv, PassReady, AllGrown, Grown
<1>4. ViewHolds'
  BY DEF ViewHolds
<1>5. RecentKept'
  <2>1. CASE pass = None
    BY <1>1, <2>1 DEF Inv, PassReady, RecentKept
  <2>2. CASE pass # None
    <3>1. target \in Schemas /\ pass \in Kinds
      BY <2>2 DEF Inv, PassReady, PlanTyped
    <3>2. versions[target] \in Seq(Version) /\ versions'[target] \in Seq(Version)
      BY <3>1 DEF Inv, HistoryTyped
    <3>3. ASSUME NEW n \in todo
          PROVE  /\ n \in InState(versions'[target], pass, "archived")
                 /\ Cardinality({m \in InState(versions'[target], pass, "archived") : m > n})
                        >= Keep[pass]
      <4>1. /\ n \in InState(versions[target], pass, "archived")
            /\ Cardinality({m \in InState(versions[target], pass, "archived") : m > n})
                    >= Keep[pass]
        BY DEF Inv, RecentKept
      <4>2. QED
        BY <3>1, <3>2, <4>1, StillNewer
    <3>4. QED
      BY <1>1, <3>3 DEF RecentKept
  <2>3. QED
    BY <2>1, <2>2
<1>6. QED
  BY <1>2, <1>3, <1>4, <1>5

LEMMA DiscoverKeeps ==
    ASSUME Inv, NEW s \in Schemas, Discover(s)
    PROVE  Inv' /\ AllGrown
<1>1. PICK h \in Histories(s, Known(s)), new \in SUBSET {"version"} :
        \E n \in {Len(h) + 1} \cup (IF new = {} THEN {0} ELSE {}) :
          /\ versions' = IF new = {} THEN versions ELSE [versions EXCEPT ![s] = Opened(h)]
          /\ \/ Spend(new) /\ job' = job /\ disturbed' \in BOOLEAN
             \/ \E j \in Jobs :
                  Start(j, Started("index", "make", s, n)) /\ Spend(new \cup {"index"})
  BY DEF Discover, Inv, StartsTyped
<1>2. PICK n \in {Len(h) + 1} \cup (IF new = {} THEN {0} ELSE {}) :
        /\ versions' = IF new = {} THEN versions ELSE [versions EXCEPT ![s] = Opened(h)]
        /\ \/ Spend(new) /\ job' = job /\ disturbed' \in BOOLEAN
           \/ \E j \in Jobs :
                Start(j, Started("index", "make", s, n)) /\ Spend(new \cup {"index"})
  BY <1>1
<1>3. h \in Seq(Version) /\ n \in Nat
  <2>1. h \in Seq(Version)
    BY HistoriesAreHistories DEF Inv, HistoryTyped, DiskTyped
  <2>2. Len(h) \in Nat
    BY <2>1, LenProperties
  <2>3. QED
    BY <2>1, <2>2
<1>4. /\ versions' \in [Schemas -> Seq(Version)]
      /\ AllGrown
      /\ AllOwn'
      /\ \A t \in Schemas, k \in Kinds :
          InState(versions[t], k, "archived") \subseteq InState(versions'[t], k, "archived")
  <2>1. versions \in [Schemas -> Seq(Version)] /\ AllOwn
    BY DEF Inv, HistoryTyped
  <2>2. CASE versions' = versions
    BY <2>1, <2>2 DEF AllGrown, AllOwn, Grown
  <2>3. CASE versions' = [versions EXCEPT ![s] = Opened(h)]
    <3>1. \A t \in Schemas \ {s} : versions'[t] = versions[t] /\ Grown(versions[t], versions[t])
      BY <2>1, <2>3 DEF Grown
    <3>2. versions'[s] = Opened(h)
      BY <2>1, <2>3
    <3>3. versions' \in [Schemas -> Seq(Version)]
      BY <2>1, <2>3, OpenedGrows
    <3>4. QED
      BY <2>1, <3>1, <3>2, <3>3, OpenedGrows DEF AllGrown, AllOwn
  <2>4. QED
    BY <1>2, <2>2, <2>3
<1>5. writer' = None /\ writer' # Cleaner /\ UNCHANGED <<passVars, target>>
  BY Distinct DEF Discover
<1>6. HistoryTyped' /\ PlanTyped' /\ PassReady' /\ ViewHolds' /\ RecentKept'
  BY <1>4, <1>5, PlanKeeps
<1>7. DiskTyped'
  BY DEF Discover, Inv, DiskTyped, diskVars
<1>8. JobsReady' /\ StartsTyped'
  <2>1. CASE Spend(new) /\ job' = job /\ disturbed' \in BOOLEAN
    BY <1>5, <2>1, SpendTyped DEF Inv, JobsReady, StartsTyped
  <2>2. CASE \E j \in Jobs :
               Start(j, Started("index", "make", s, n)) /\ Spend(new \cup {"index"})
    <3>1. PICK j \in Jobs :
            Start(j, Started("index", "make", s, n)) /\ Spend(new \cup {"index"})
      BY <2>2
    <3>2. JobsReady'
      BY <1>3, <3>1, StartedReady, JobSet DEF Start, Inv, Tasks, Indexers
    <3>3. quota' \in [Starts -> Nat]
      BY <3>1, SpendTyped DEF Inv, StartsTyped
    <3>4. QED
      BY <1>5, <3>1, <3>2, <3>3 DEF Start, Inv, StartsTyped
  <2>3. QED
    BY <1>2, <2>1, <2>2
<1>9. QED
  BY <1>4, <1>6, <1>7, <1>8 DEF Inv

-----------------------------------------------------------------------------
(* The cleanup.                                                            *)

LEMMA Begun ==
    ASSUME NEW s \in Schemas, NEW k \in Kinds, NEW all \in [Schemas -> Seq(Version)],
           BeginPass(s, k, all)
    PROVE  /\ pass' = k /\ view' = all
           /\ listed' \subseteq Nat /\ listed' \subseteq DOMAIN all[s]
           /\ todo' = listed'
           /\ live' \subseteq Resources
           /\ reach' \in BOOLEAN
           /\ spot' \in {"delete", "mark", "over"}
           /\ \A n \in listed' :
               /\ n \in InState(all[s], k, "archived")
               /\ Cardinality({m \in InState(all[s], k, "archived") : m > n}) >= Keep[k]
<1>1. PICK old \in 0..Len(all[s]) : listed' = ToCleanUp(all[s], k, old)
  BY DEF BeginPass
<1>2. \A n \in listed' :
        /\ n \in DOMAIN all[s]
        /\ n \in InState(all[s], k, "archived")
        /\ Cardinality({m \in InState(all[s], k, "archived") : m > n}) >= Keep[k]
  BY <1>1, ListedIsOld
<1>3. DOMAIN all[s] \subseteq Nat
  BY LenProperties
<1>4. live' \subseteq Resources
  <2>1. ASSUME NEW t \in Schemas, NEW n \in DOMAIN all[t]
        PROVE  all[t][n].part[k].resource \in Resources \cup {None}
    <3>1. all[t][n] \in Version
      BY ElementOfSeq, LenProperties
    <3>2. QED
      BY <3>1, VersionParts
  <2>2. SUFFICES ASSUME NEW r \in live' PROVE r \in Resources
    OBVIOUS
  <2>3. r # None /\ \E t \in Schemas : \E n \in DOMAIN all[t] : r = all[t][n].part[k].resource
    BY DEF BeginPass, Survivors
  <2>4. QED
    BY <2>1, <2>3
<1>5. QED
  BY <1>2, <1>3, <1>4 DEF BeginPass

LEMMA BeginCleanupKeeps ==
    ASSUME Inv, NEW s \in Schemas, BeginCleanup(s)
    PROVE  Inv' /\ AllGrown
<1>1. /\ versions \in [Schemas -> Seq(Version)]
      /\ BeginPass(s, "graphrag", versions)
      /\ versions' = versions /\ target' = s /\ writer' = Cleaner
  BY DEF BeginCleanup, Inv, HistoryTyped
<1>2. Refills
  BY <1>1, Unfilled
<1>3. HistoryTyped' /\ PlanTyped' /\ PassReady' /\ RecentKept'
  BY <1>1, Begun, Distinct DEF HistoryTyped, PlanTyped, PassReady, RecentKept
<1>4. ViewHolds'
  BY <1>1, Begun, Distinct DEF ViewHolds
<1>5. quota' \in [Starts -> Nat]
  BY SpendTyped DEF BeginCleanup, Inv, StartsTyped
<1>6. DiskTyped' /\ StartsTyped' /\ JobsReady'
  BY <1>1, <1>5 DEF BeginCleanup, Inv, DiskTyped, diskVars, StartsTyped, JobsReady
<1>7. QED
  BY <1>2, <1>3, <1>4, <1>6 DEF Inv, Refills

LEMMA PruneKeeps ==
    ASSUME Inv, PruneOntologies
    PROVE  Inv' /\ AllGrown
<1>1. /\ view \in [Schemas -> Seq(Version)]
      /\ versions \in [Schemas -> Seq(Version)]
      /\ pass = "graphrag" /\ pass # None /\ writer = Cleaner
      /\ BeginPass(target, "ontology", view)
      /\ versions' = versions /\ target' = target /\ writer' = Cleaner
  BY Distinct DEF PruneOntologies, Inv, HistoryTyped
<1>2. target \in Schemas
  BY <1>1 DEF Inv, PassReady
<1>3. view[target] \in Seq(Version) /\ versions[target] \in Seq(Version)
  BY <1>1, <1>2
<1>4. Refills
  BY <1>1, Unfilled
<1>5. \A m \in InState(view[target], "ontology", "archived") :
        m \in InState(versions[target], "ontology", "archived")
  BY <1>1 DEF Inv, ViewHolds
<1>6. ASSUME NEW n \in listed'
      PROVE  /\ n \in InState(versions[target], "ontology", "archived")
             /\ Cardinality({m \in InState(versions[target], "ontology", "archived") : m > n})
                    >= Keep["ontology"]
  <2>1. /\ n \in InState(view[target], "ontology", "archived")
        /\ Cardinality({m \in InState(view[target], "ontology", "archived") : m > n})
               >= Keep["ontology"]
    BY <1>1, <1>2, Begun, Distinct
  <2>2. QED
    BY <1>3, <1>5, <2>1, StillNewer, Distinct
<1>7. RecentKept'
  BY <1>1, <1>2, <1>6, Begun, Distinct DEF RecentKept
<1>8. listed' \subseteq DOMAIN versions[target]
  BY <1>6 DEF InState
<1>9. HistoryTyped' /\ PlanTyped' /\ PassReady'
  BY <1>1, <1>2, <1>8, Begun, Distinct DEF HistoryTyped, PlanTyped, PassReady
<1>10. ViewHolds'
  BY <1>1, <1>2, Begun, Distinct DEF ViewHolds, Kinds
<1>11. DiskTyped' /\ StartsTyped' /\ JobsReady'
  BY <1>1 DEF PruneOntologies, Inv, DiskTyped, diskVars, StartsTyped, JobsReady
<1>12. QED
  BY <1>4, <1>7, <1>9, <1>10, <1>11 DEF Inv, Refills

(* What the version that is next has.                                      *)
LEMMA NextDoomed ==
    ASSUME Inv, NEW n \in todo
    PROVE  /\ pass # None /\ pass \in Kinds /\ target \in Schemas
           /\ n \in listed /\ n \in Nat
           /\ n \in DOMAIN versions[target]
           /\ Doomed(n).resource \in Resources \cup {None}
<1>1. pass # None /\ pass \in Kinds /\ target \in Schemas /\ n \in listed /\ n \in Nat
  BY DEF Inv, PassReady, PlanTyped
<1>2. view[target] \in Seq(Version) /\ n \in DOMAIN view[target]
      /\ n \in DOMAIN versions[target]
  BY <1>1 DEF Inv, PassReady, HistoryTyped
<1>3. view[target][n] \in Version
  BY <1>2, ElementOfSeq, LenProperties
<1>4. QED
  BY <1>1, <1>2, <1>3, VersionParts DEF Doomed

LEMMA TurnTyped ==
    ASSUME NEW to \in {"delete", "mark", "over"}, Turns(to)
    PROVE  spot' \in {"delete", "mark", "over"}
BY DEF Turns

LEMMA DeleteKeeps ==
    ASSUME Inv, NEW n \in todo, Delete(n)
    PROVE  Inv' /\ AllGrown
<1>1. UNCHANGED <<versions, manager, quota, writer, job, pass, target, view, listed, reach,
                  disturbed>>
  BY DEF Delete
<1>2. Refills
  BY <1>1, Unfilled
<1>3. Doomed(n).resource \in Resources \cup {None}
  BY NextDoomed
<1>4. /\ files' \subseteq files
      /\ stored' \subseteq stored
      /\ todo' \subseteq todo
      /\ live' \subseteq Resources
      /\ spot' \in {"delete", "mark", "over"}
  <2>1. live \subseteq Resources
    BY DEF Inv, PlanTyped
  <2>2. CASE Deleted(n)
    BY <2>1, <2>2, TurnTyped DEF Deleted
  <2>3. CASE DeletionFails(n)
    <3>1. todo' \subseteq todo /\ live' \subseteq Resources
      BY <1>3, <2>1, <2>3 DEF DeletionFails, Spared
    <3>2. spot' \in {"delete", "mark", "over"}
      BY <2>3, TurnTyped DEF DeletionFails, Spared
    <3>3. QED
      BY <2>3, <3>1, <3>2 DEF DeletionFails
  <2>4. QED
    BY <2>2, <2>3 DEF Delete
<1>5. HistoryTyped' /\ DiskTyped' /\ StartsTyped' /\ PlanTyped' /\ JobsReady'
  BY <1>1, <1>4 DEF Inv, HistoryTyped, DiskTyped, StartsTyped, PlanTyped, JobsReady
<1>6. PassReady' /\ ViewHolds' /\ RecentKept'
  BY <1>1, <1>4 DEF Inv, PassReady, ViewHolds, RecentKept
<1>7. QED
  BY <1>2, <1>5, <1>6 DEF Inv, Refills

LEMMA MarkKeeps ==
    ASSUME Inv, NEW n \in todo, Mark(n)
    PROVE  Inv' /\ AllGrown
<1> DEFINE marked == [versions EXCEPT ![target] = Marked(@, n, pass)]
           own == Marked(versions[target], n, pass)
<1>1. /\ pass # None /\ pass \in Kinds /\ target \in Schemas
      /\ n \in Nat /\ todo \subseteq Nat /\ n \in listed
      /\ versions \in [Schemas -> Seq(Version)]
      /\ versions[target] \in Seq(Version)
      /\ \A m \in todo : n <= m
  BY NextDoomed DEF Mark, IsNext, Inv, HistoryTyped, PlanTyped
<1>2. UNCHANGED <<diskVars, manager, quota, writer, job, pass, target, listed, reach, disturbed>>
  BY DEF Mark
<1>3. todo' = todo \ {n} /\ live' \subseteq Resources /\ spot' \in {"delete", "mark", "over"}
  <2>1. live \subseteq Resources /\ Doomed(n).resource \in Resources \cup {None}
    BY NextDoomed DEF Inv, PlanTyped
  <2>2. CASE Spared(n)
    BY <2>1, <2>2, TurnTyped DEF Spared
  <2>3. CASE todo' = todo \ {n} /\ Turns("delete") /\ live' = live
    BY <2>1, <2>3, TurnTyped
  <2>4. QED
    BY <2>2, <2>3 DEF Mark
<1>4. DiskTyped' /\ StartsTyped' /\ PlanTyped' /\ JobsReady'
  BY <1>2, <1>3 DEF Inv, DiskTyped, diskVars, StartsTyped, PlanTyped, JobsReady
<1>5. /\ own \in Seq(Version) /\ DOMAIN own = DOMAIN versions[target]
      /\ Grown(versions[target], own)
      /\ \A m \in DOMAIN own, q \in Kinds :
          /\ own[m].part[q].file = versions[target][m].part[q].file
          /\ (m # n \/ q # pass) =>
               own[m].part[q].state = versions[target][m].part[q].state
  BY <1>1, MarkedKeeps
<1>6. marked \in [Schemas -> Seq(Version)] /\ marked[target] = own
      /\ \A s \in Schemas \ {target} : marked[s] = versions[s]
  <2> HIDE DEF own
  <2>1. marked = [versions EXCEPT ![target] = own]
    BY DEF own
  <2>2. QED
    BY <1>1, <1>5, <2>1
<1> HIDE DEF marked, own
<1>7. UNCHANGED <<versions, view>> \/ ((versions' = marked \/ UNCHANGED versions) /\ view' = marked)
  BY DEF Mark, Saved, marked
<1>8. /\ HistoryTyped'
      /\ AllGrown
      /\ AllOwn'
      /\ DOMAIN versions'[target] = DOMAIN versions[target]
  <2>1. CASE versions' = versions
    BY <1>6, <1>7, <2>1 DEF Inv, HistoryTyped, AllGrown, AllOwn, Grown
  <2>2. CASE versions' = marked
    <3>1. \A s \in Schemas \ {target} : Grown(versions[s], versions'[s])
      BY <1>6, <2>2 DEF Grown
    <3>2. AllOwn'
      <4>1. \A s \in Schemas : OwnFiles(s, versions[s])
        BY DEF Inv, AllOwn
      <4>2. OwnFiles(target, own)
        BY <1>1, <1>5, <4>1, Distinct DEF OwnFiles
      <4>3. QED
        BY <1>6, <2>2, <4>1, <4>2 DEF AllOwn
    <3>3. HistoryTyped'
      BY <1>6, <1>7, <2>2 DEF Inv, HistoryTyped
    <3>4. QED
      BY <1>5, <1>6, <2>2, <3>1, <3>2, <3>3 DEF AllGrown
  <2>3. QED
    BY <1>7, <2>1, <2>2
<1>9. PassReady'
  BY <1>1, <1>2, <1>5, <1>6, <1>7, <1>8 DEF Inv, PassReady
<1>10. InState(own, "ontology", "archived")
         = InState(versions[target], "ontology", "archived") \/ pass # "graphrag"
  BY <1>5, Distinct DEF InState
<1>11. ViewHolds'
  BY <1>2, <1>6, <1>7, <1>10 DEF Inv, ViewHolds
<1>12. ASSUME NEW m \in todo'
       PROVE  /\ m \in InState(versions'[target], pass, "archived")
              /\ Cardinality({x \in InState(versions'[target], pass, "archived") : x > m})
                     >= Keep[pass]
  <2>1. m \in todo /\ m \in Nat /\ m > n
    BY <1>1, <1>3
  <2>2. /\ m \in InState(versions[target], pass, "archived")
        /\ Cardinality({x \in InState(versions[target], pass, "archived") : x > m})
               >= Keep[pass]
    BY <2>1 DEF Inv, RecentKept
  <2>3. CASE versions' = versions
    BY <2>2, <2>3
  <2>4. CASE versions' = marked
    <3>1. versions'[target] = own
      BY <1>6, <2>4
    <3>2. DOMAIN versions[target] \subseteq Nat
      BY <1>1, LenProperties
    <3>3. \A x \in InState(versions[target], pass, "archived") :
            x # n => x \in InState(own, pass, "archived")
      BY <1>1, <1>5 DEF InState
    <3>4. \A x \in InState(versions[target], pass, "archived") :
            x > m => x \in InState(own, pass, "archived")
      BY <1>1, <2>1, <3>2, <3>3 DEF InState
    <3>5. m \in InState(own, pass, "archived")
      BY <1>1, <2>1, <2>2, <3>3
    <3>6. QED
      BY <1>1, <1>5, <2>2, <3>1, <3>4, <3>5, StillNewer
  <2>5. QED
    BY <1>7, <2>3, <2>4
<1>13. RecentKept'
  BY <1>2, <1>12 DEF RecentKept
<1>14. QED
  BY <1>4, <1>8, <1>9, <1>11, <1>13 DEF Inv

LEMMA CancelKeeps ==
    ASSUME Inv, CancelCleanup
    PROVE  Inv' /\ AllGrown
<1>1. /\ UNCHANGED <<versions, diskVars, manager, quota, job, passVars, target, disturbed>>
      /\ writer' = None /\ writer' # Cleaner
  BY Distinct DEF CancelCleanup, runVars
<1>2. Refills
  BY <1>1, Unfilled
<1>3. /\ versions' \in [Schemas -> Seq(Version)] /\ AllGrown /\ AllOwn'
      /\ UNCHANGED <<passVars, target>>
      /\ \A s \in Schemas, k \in Kinds :
          InState(versions[s], k, "archived") \subseteq InState(versions'[s], k, "archived")
  BY <1>1, <1>2 DEF Refills
<1>4. HistoryTyped' /\ PlanTyped' /\ PassReady' /\ ViewHolds' /\ RecentKept'
  BY <1>1, <1>3, PlanKeeps
<1>5. DiskTyped' /\ StartsTyped' /\ JobsReady'
  BY <1>1 DEF Inv, DiskTyped, diskVars, StartsTyped, JobsReady
<1>6. QED
  BY <1>3, <1>4, <1>5 DEF Inv

(* Without a cleanup there is no plan to keep.                             *)
LEMMA NoRunKeeps ==
    ASSUME Inv, UNCHANGED versions, NoRun, writer' # Cleaner
    PROVE  /\ HistoryTyped' /\ PlanTyped' /\ PassReady' /\ ViewHolds' /\ RecentKept'
           /\ AllOwn' /\ AllGrown
           /\ disturbed' \in BOOLEAN
<1>1. Refills
  BY Unfilled
<1>2. <<>> \in Seq(Version)
  BY EmptySeq
<1>3. QED
  BY <1>1, <1>2
  DEF Inv, NoRun, HistoryTyped, PlanTyped, PassReady, ViewHolds, RecentKept, Refills

LEMMA EndKeeps ==
    ASSUME Inv, EndCleanup
    PROVE  Inv' /\ AllGrown
<1>1. UNCHANGED versions /\ NoRun /\ writer' # Cleaner /\ writer' \in Jobs \cup {Cleaner, None}
  BY Distinct DEF EndCleanup, Inv, StartsTyped
<1>2. DiskTyped' /\ JobsReady' /\ quota' \in [Starts -> Nat]
  BY DEF EndCleanup, Inv, DiskTyped, diskVars, JobsReady, StartsTyped
<1>3. QED
  BY <1>1, <1>2, NoRunKeeps DEF Inv, StartsTyped

LEMMA RestartKeeps ==
    ASSUME Inv, Restart
    PROVE  Inv' /\ AllGrown
<1>1. UNCHANGED versions /\ NoRun /\ writer' # Cleaner /\ writer' \in Jobs \cup {Cleaner, None}
  BY Distinct DEF Restart
<1>2. DiskTyped'
  BY DEF Restart, Inv, DiskTyped, diskVars
<1>3. JobsReady'
  BY NoJobReady DEF Restart, JobsReady
<1>4. quota' \in [Starts -> Nat]
  BY SpendTyped DEF Restart, Inv, StartsTyped
<1>5. QED
  BY <1>1, <1>2, <1>3, <1>4, NoRunKeeps DEF Inv, StartsTyped

-----------------------------------------------------------------------------
(* All steps.                                                              *)

LEMMA JobStepProduces ==
    ASSUME Inv, NEW j \in Jobs, JobNext(j)
    PROVE  Produces
<1>1. CASE \E s \in Schemas :
            InitializeGraphRAG(j, s) \/ GenerateOntology(j, s) \/ StoreOntologyInRDF(j, s)
  BY <1>1, InitializeProduces, GenerateProduces, StoreProduces
<1>2. CASE Index(j) \/ SaveSnapshot(j) \/ RecordIndex(j) \/ Chain(j)
  BY <1>2, IndexProduces, SaveSnapshotProduces, RecordIndexProduces, ChainProduces
<1>3. CASE WriteOntology(j) \/ LoadOntology(j) \/ RecordOntology(j) \/ RecordGraph(j)
  BY <1>3, WriteProduces, LoadProduces, RecordProduces, RecordGraphProduces
<1>4. CASE GiveUp(j)
  BY <1>4, GiveUpProduces
<1>5. QED
  BY <1>1, <1>2, <1>3, <1>4 DEF JobNext

LEMMA JobStepKeeps ==
    ASSUME Inv, NEW j \in Jobs, JobNext(j)
    PROVE  Inv' /\ AllGrown
BY JobStepProduces, ProducerKeeps

LEMMA CleanupStepKeeps ==
    ASSUME Inv, CleanupNext
    PROVE  Inv' /\ AllGrown
BY BeginCleanupKeeps, DeleteKeeps, MarkKeeps, PruneKeeps, CancelKeeps, EndKeeps DEF CleanupNext

LEMMA StutterKeeps ==
    ASSUME Inv, UNCHANGED vars
    PROVE  Inv' /\ AllGrown
<1>1. Refills
  BY Unfilled DEF vars
<1>2. Produces
  BY <1>1
  DEF vars, runVars, diskVars, passVars, Produces, Inv, DiskTyped, StartsTyped, JobsReady
<1>3. QED
  BY <1>2, ProducerKeeps

LEMMA StepKeeps ==
    ASSUME Inv, [Next]_vars
    PROVE  Inv' /\ AllGrown
<1>1. CASE \E s \in Schemas : Discover(s)
  BY <1>1, DiscoverKeeps
<1>2. CASE \E j \in Jobs : JobNext(j)
  BY <1>2, JobStepKeeps
<1>3. CASE CleanupNext
  BY <1>3, CleanupStepKeeps
<1>4. CASE Restart
  BY <1>4, RestartKeeps
<1>5. CASE UNCHANGED vars
  BY <1>5, StutterKeeps
<1>6. QED
  BY <1>1, <1>2, <1>3, <1>4, <1>5 DEF Next

LEMMA RecordFacts ==
    ASSUME versions \in [Schemas -> Seq(Version)], NEW r \in Records
    PROVE  /\ r[1] \in Schemas /\ r[2] \in DOMAIN versions[r[1]] /\ r[3] \in Kinds
           /\ r = <<r[1], r[2], r[3]>>
           /\ Rec(r) \in Part
           /\ Rec(r).file \in Files \cup {None}
           /\ Rec(r).resource \in Resources \cup {None}
<1>1. PICK s \in Schemas : r \in {s} \X (DOMAIN versions[s]) \X Kinds
  BY DEF Records
<1>2. /\ r[1] = s /\ r[2] \in DOMAIN versions[s] /\ r[3] \in Kinds
      /\ r = <<r[1], r[2], r[3]>>
  BY <1>1
<1>3. versions[s][r[2]] \in Version
  BY <1>2, ElementOfSeq, LenProperties
<1>4. QED
  BY <1>2, <1>3, VersionParts DEF Rec

LEMMA InitInv == Init => Inv
<1> SUFFICES ASSUME Init PROVE Inv
  OBVIOUS
<1>1. versions \in Pasts /\ versions \in [Schemas -> Seq(Version)]
  BY RetentionAssumption DEF Init
<1>2. HistoryTyped
  BY <1>1, EmptySeq DEF Init, HistoryTyped
<1>3. files \subseteq Files
  <2>1. SUFFICES ASSUME NEW f \in files PROVE f \in Files
    OBVIOUS
  <2>2. CASE f \in {File("ontology", s, 0) : s \in Legacy}
    BY <2>2, Distinct, RetentionAssumption DEF File, Files
  <2>3. CASE f \in {Rec(r).file : r \in Records}
    <3>1. f # None
      BY DEF Init
    <3>2. PICK r \in Records : f = Rec(r).file
      BY <2>3
    <3>3. QED
      BY <1>1, <3>1, <3>2, RecordFacts
  <2>4. QED
    BY <2>2, <2>3 DEF Init
<1>4. stored \subseteq Resources
  BY <1>1, RecordFacts DEF Init
<1>5. DiskTyped
  BY <1>3, <1>4 DEF Init, DiskTyped
<1>6. quota \in [Starts -> Nat]
  BY <1>1, RetentionAssumption DEF Init
<1>7. StartsTyped
  BY <1>6 DEF Init, StartsTyped
<1>8. PlanTyped
  BY DEF Init, PlanTyped
<1>9. JobsReady
  BY NoJobReady DEF Init, JobsReady
<1>10. PassReady /\ ViewHolds /\ RecentKept
  BY Distinct DEF Init, PassReady, ViewHolds, RecentKept
<1>11. AllOwn
  BY <1>1, PastAssumption DEF AllOwn, OwnFiles
<1>12. QED
  BY <1>2, <1>5, <1>7, <1>8, <1>9, <1>10, <1>11 DEF Inv

THEOREM RetentionInvariant == Spec => []Inv
<1>1. Inv /\ [Next]_vars => Inv'
  BY StepKeeps
<1>2. QED
  BY InitInv, <1>1, PTL DEF Spec

(* The variables have their types, whatever histories are found.           *)
THEOREM RetentionTypes == Spec => []TypeOK
<1>1. Inv => TypeOK
  BY DEF Inv, TypeOK, HistoryTyped, DiskTyped, StartsTyped, PlanTyped, JobsReady
<1>2. QED
  BY <1>1, RetentionInvariant, PTL

(* A cleanup, and its thread when it was cancelled, is about archived      *)
(* versions with keep_versions newer ones in the archive.                  *)
THEOREM RecentIsKept == Spec => []RecentKept
<1>1. Inv => RecentKept
  BY DEF Inv
<1>2. QED
  BY <1>1, RetentionInvariant, PTL

(* A version's snapshots are those of its own generation.                  *)
THEOREM SnapshotsAreOwn == Spec => []OwnSnapshots
<1>1. Inv => OwnSnapshots
  <2>1. SUFFICES ASSUME Inv, NEW r \in Records, r[3] = "graphrag"
                 PROVE  Rec(r).file \in {None, File("graphrag", r[1], r[2])}
    BY DEF OwnSnapshots
  <2>2. r[1] \in Schemas /\ r[2] \in DOMAIN versions[r[1]]
    BY <2>1, RecordFacts DEF Inv, HistoryTyped
  <2>3. QED
    BY <2>1, <2>2 DEF Inv, AllOwn, OwnFiles, Rec
<1>2. QED
  BY <1>1, RetentionInvariant, PTL

(* The history is only added to, whoever saves what he loaded when.        *)
THEOREM HistoryOnlyGrows == Spec => HistoryGrows
<1> DEFINE StillThere(r) ==
        /\ r \in Records'
        /\ versions'[r[1]][r[2]].status = "active" => versions[r[1]][r[2]].status = "active"
        /\ Rec(r)'.state = "active" => Rec(r).state = "active"
        /\ Rec(r).state = "deleted" => Rec(r)'.state = "deleted"
        /\ Rec(r).file # None => Rec(r)'.file # None
<1>1. Inv /\ [Next]_vars => [\A r \in Records : StillThere(r)]_vars
  <2>1. SUFFICES ASSUME Inv, [Next]_vars, NEW r \in Records
                 PROVE  StillThere(r)
    OBVIOUS
  <2>2. /\ r[1] \in Schemas /\ r[2] \in DOMAIN versions[r[1]] /\ r[3] \in Kinds
        /\ r = <<r[1], r[2], r[3]>>
    BY <2>1, RecordFacts DEF Inv, HistoryTyped
  <2>3. Grown(versions[r[1]], versions'[r[1]])
    BY <2>1, <2>2, StepKeeps DEF AllGrown
  <2>4. r \in Records'
    BY <2>2, <2>3 DEF Grown, Records
  <2>5. QED
    BY <2>2, <2>3, <2>4 DEF Grown, Rec
<1>2. QED
  BY <1>1, RetentionInvariant, PTL DEF Spec, HistoryGrows
-----------------------------------------------------------------------------
(* Sets of numbers.                                                        *)

LEMMA LeastOf ==
    ASSUME NEW S, S \subseteq Nat, S # {}
    PROVE  \E n \in S : \A m \in S : n <= m
<1>1. PICK x \in S : \A y \in S : ~ (<< y, x >> \in OpToRel(<, Nat))
  BY NatLessThanWellFounded, WFMin
<1>2. ASSUME NEW y \in S, y < x PROVE FALSE
  BY <1>1, <1>2 DEF OpToRel
<1>3. QED
  BY <1>2

LEMMA GreatestOf ==
    ASSUME NEW N \in Nat, NEW S, S \subseteq 0..N, S # {}
    PROVE  \E n \in S : \A m \in S : m <= n
<1> DEFINE above == {u \in Nat : \A m \in S : m <= u}
<1>1. N \in above
  OBVIOUS
<1>2. PICK u \in above : \A v \in above : u <= v
  <2> HIDE DEF above
  <2>1. above \subseteq Nat
    BY DEF above
  <2>2. QED
    BY <1>1, <2>1, LeastOf
<1>3. u \in S
  <2>1. SUFFICES ASSUME u \notin S PROVE FALSE
    OBVIOUS
  <2>2. \A m \in S : m \in Nat /\ m <= u /\ m # u
    BY <1>2, <2>1
  <2>3. u - 1 \in above
    <3>1. PICK m \in S : m \in Nat /\ m <= u /\ m # u
      BY <2>2
    <3>2. u \in Nat /\ u - 1 \in Nat
      BY <1>2, <3>1
    <3>3. QED
      BY <2>2, <3>2
  <2>4. QED
    BY <1>2, <2>3
<1>4. QED
  BY <1>3

(* Of the newest there are as many as are asked for, or all.               *)
LEMMA NewestEnough ==
    ASSUME NEW N \in Nat, NEW S, S \subseteq 0..N, NEW count \in Int,
           Newest(S, count) # S
    PROVE  Cardinality(Newest(S, count)) >= count
<1> DEFINE newest == Newest(S, count)
           rest == S \ newest
<1>1. newest \subseteq S
  BY DEF Newest
<1>2. PICK x \in rest : \A m \in rest : m <= x
  <2>1. rest # {} /\ rest \subseteq 0..N
    BY <1>1
  <2> HIDE DEF rest
  <2>2. QED
    BY <2>1, GreatestOf
<1> DEFINE newer == {m \in S : m > x}
<1>3. newer \subseteq newest
  <2>1. SUFFICES ASSUME NEW m \in S, m > x, m \notin newest PROVE FALSE
    OBVIOUS
  <2>2. m \in rest /\ m \in Nat /\ x \in Nat
    BY <1>2, <2>1
  <2>3. m <= x
    BY <1>2, <2>2
  <2>4. QED
    BY <2>1, <2>2, <2>3
<1>4. IsFiniteSet(newest) /\ newer \in SUBSET newest
  <2>1. IsFiniteSet(0..N)
    BY FS_Interval
  <2> HIDE DEF newest, newer
  <2>2. newest \in SUBSET (0..N)
    BY <1>1
  <2>3. QED
    BY <1>3, <2>1, <2>2, FS_Subset
<1>5. ~(Cardinality(newer) < count)
  BY <1>2 DEF Newest
<1>6. /\ Cardinality(newer) \in Nat /\ Cardinality(newest) \in Nat
      /\ Cardinality(newer) <= Cardinality(newest)
  <2> HIDE DEF newest, newer
  <2>1. QED
    BY <1>4, FS_Subset, FS_CardinalityType
<1>7. QED
  BY <1>5, <1>6

(* The archive has enough without what is listed.                          *)
LEMMA ListLeavesEnough ==
    ASSUME NEW h \in Seq(Version), NEW k \in Kinds, NEW old, ToCleanUp(h, k, old) # {}
    PROVE  Cardinality(InState(h, k, "archived") \ ToCleanUp(h, k, old)) >= MinVersions
<1> DEFINE archived == InState(h, k, "archived")
           expired == Expired(h, k, old)
           short == MinVersions - (Cardinality(archived) - Cardinality(expired))
           spared == Newest(expired, short)
           doomed == ToCleanUp(h, k, old)
<1>1. DOMAIN h = 1..Len(h) /\ Len(h) \in Nat
  BY LenProperties
<1>2. IsFiniteSet(archived) /\ archived \subseteq 0..Len(h)
  <2>1. archived \subseteq 0..Len(h)
    BY <1>1 DEF InState
  <2>2. QED
    BY <2>1, FiniteArchive
<1>3. expired \subseteq archived
  BY DEF Expired
<1>4. spared \subseteq expired
  BY DEF Newest
<1>5. doomed = expired \ spared
  BY DEF ToCleanUp, Shortfall
<1>6. doomed # {}
  OBVIOUS
<1>7. short = MinVersions - (Cardinality(archived) - Cardinality(expired))
  OBVIOUS
<1>8. MinVersions \in Nat
  BY HistoryAssumption
<1>9. spared = Newest(expired, short)
  OBVIOUS
<1> HIDE DEF archived, expired, short, spared, doomed
<1>10. /\ IsFiniteSet(expired) /\ IsFiniteSet(spared) /\ IsFiniteSet(doomed)
       /\ Cardinality(archived) \in Nat /\ Cardinality(expired) \in Nat
       /\ Cardinality(spared) \in Nat /\ Cardinality(doomed) \in Nat
  BY <1>2, <1>3, <1>4, <1>5, FS_Subset, FS_CardinalityType
<1>11. Cardinality(doomed) = Cardinality(expired) - Cardinality(spared)
  <2>1. expired \cap spared = spared
    BY <1>4
  <2>2. QED
    BY <1>5, <1>10, <2>1, FS_Difference, ZenonT(60)
<1>12. Cardinality(archived \ doomed) = Cardinality(archived) - Cardinality(doomed)
  <2>1. archived \cap doomed = doomed
    BY <1>3, <1>5
  <2>2. QED
    BY <1>2, <2>1, FS_Difference, ZenonT(60)
<1>13. Cardinality(spared) >= short
  <2>1. expired \subseteq 0..Len(h) /\ short \in Int /\ spared # expired
    BY <1>2, <1>3, <1>5, <1>6, <1>7, <1>8, <1>10
  <2>2. QED
    BY <1>1, <1>9, <2>1, NewestEnough
<1>14. Cardinality(archived \ doomed) >= MinVersions
  BY <1>7, <1>8, <1>10, <1>11, <1>12, <1>13
<1>15. QED
  BY <1>14 DEF archived, doomed

-----------------------------------------------------------------------------
(* What a record points at is of its kind: nothing is a collection and a   *)
(* graph.                                                                  *)

ResourcesOf(k) == IF k = "graphrag" THEN {Collection(s) : s \in Schemas} ELSE Graphs

OwnKinds(h) ==
    \A n \in DOMAIN h, k \in Kinds :
        h[n].part[k].resource \in ResourcesOf(k) \cup {None}

KindsApart ==
    /\ manager \in ResourcesOf("graphrag") \cup {None}
    /\ \A s \in Schemas : OwnKinds(versions[s])

LEMMA OneKind ==
    ASSUME NEW k \in Kinds, NEW q \in Kinds, NEW x \in ResourcesOf(k), x \in ResourcesOf(q)
    PROVE  k = q
BY HistoryAssumption DEF ResourcesOf, Kinds

(* What opening a version leaves of the others, and what it adds.          *)
Extended(h, after) ==
    /\ DOMAIN h \subseteq DOMAIN after
    /\ \A n \in DOMAIN h, k \in Kinds :
        /\ after[n].part[k].resource = h[n].part[k].resource
        /\ after[n].part[k].file = h[n].part[k].file
        /\ after[n].part[k].state = "deleted" <=> h[n].part[k].state = "deleted"
    /\ \A n \in DOMAIN after \ DOMAIN h, k \in Kinds : after[n].part[k].resource = None

LEMMA ArchivedPoints ==
    ASSUME NEW v \in Version, NEW k \in Kinds
    PROVE  Archived(v).part[k].resource = v.part[k].resource
<1>1. v.part[k] \in Part /\ v = [status |-> v.status, part |-> v.part]
  BY DEF Version
<1>2. Superseded(v.part[k]).resource = v.part[k].resource
  BY <1>1 DEF Superseded, Part
<1>3. Archived(v).part = [q \in Kinds |-> Superseded(v.part[q])]
  BY <1>1 DEF Archived
<1>4. QED
  BY <1>2, <1>3

LEMMA OpenedExtends ==
    ASSUME NEW h \in Seq(Version)
    PROVE  Extended(h, Opened(h))
<1>1. Len(h) \in Nat /\ DOMAIN h = 1..Len(h) /\ \A n \in DOMAIN h : h[n] \in Version
  BY LenProperties, ElementOfSeq
<1>2. /\ DOMAIN Opened(h) = DOMAIN h \cup {Len(h) + 1}
      /\ Opened(h)[Len(h) + 1] = Fresh
      /\ \A n \in DOMAIN h, k \in Kinds :
          Opened(h)[n].part[k].file = h[n].part[k].file
  BY OpenedKeeps
<1>3. \A k \in Kinds : Fresh.part[k].resource = None
  BY DEF Fresh, Blank
<1>4. ASSUME NEW n \in DOMAIN h, NEW k \in Kinds
      PROVE  /\ Opened(h)[n].part[k].resource = h[n].part[k].resource
             /\ Opened(h)[n].part[k].state = "deleted" <=> h[n].part[k].state = "deleted"
  <2> DEFINE A == [m \in DOMAIN h |-> Archived(h[m])]
  <2>1. A \in Seq(Version) /\ Len(A) = Len(h)
    <3>1. A \in [DOMAIN h -> Version]
      BY <1>1, ArchivedKeeps
    <3>2. QED
      BY <3>1, FunctionIsHistory
  <2>2. Opened(h)[n] = A[n]
    <3>1. Opened(h) = Append(A, Fresh)
      BY DEF Opened
    <3> HIDE DEF A
    <3>2. QED
      BY <1>1, <2>1, <3>1, FreshIsVersion, AppendProperties
  <2>3. A[n] = Archived(h[n])
    OBVIOUS
  <2>4. h[n] \in Version
    BY <1>1
  <2> HIDE DEF A
  <2>5. QED
    BY <2>2, <2>3, <2>4, ArchivedPoints, ArchivedKeeps
<1>5. QED
  BY <1>2, <1>3, <1>4 DEF Extended

LEMMA ExtendedKinds ==
    ASSUME NEW h, NEW after, OwnKinds(h), Extended(h, after)
    PROVE  OwnKinds(after)
BY DEF OwnKinds, Extended

LEMMA MarkedPoints ==
    ASSUME NEW h \in Seq(Version), NEW i, NEW k \in Kinds, NEW n \in DOMAIN h, NEW q \in Kinds
    PROVE  /\ Marked(h, i, k)[n].part[q].resource = h[n].part[q].resource
           /\ (n = i /\ q = k) => Marked(h, i, k)[n].part[q].state = "deleted"
<1> DEFINE F == Marked(h, i, k)
<1>1. h[n] \in Version /\ h[n].part \in [Kinds -> Part] /\ h[n].part[k] \in Part
  BY VersionParts, ElementOfSeq, LenProperties
<1>2. CASE n # i
  BY <1>1, <1>2 DEF Marked
<1>3. CASE n = i
  <2>1. F[n] = [h[n] EXCEPT !.part[k].state = "deleted"]
    BY <1>3 DEF Marked
  <2>2. h[n] = [status |-> h[n].status, part |-> h[n].part]
    BY <1>1 DEF Version
  <2>3. F[n].part = [h[n].part EXCEPT ![k] = [h[n].part[k] EXCEPT !.state = "deleted"]]
    BY <2>1, <2>2
  <2>4. /\ [h[n].part[k] EXCEPT !.state = "deleted"].resource = h[n].part[k].resource
        /\ [h[n].part[k] EXCEPT !.state = "deleted"].state = "deleted"
    BY <1>1 DEF Part
  <2>5. QED
    BY <1>1, <2>3, <2>4
<1>4. QED
  BY <1>2, <1>3

LEMMA FilledKinds ==
    ASSUME NEW h \in Seq(Version), OwnKinds(h), NEW i, NEW k \in Kinds,
           NEW fields \in Fields, fields.resource \in ResourcesOf(k) \cup {None}
    PROVE  OwnKinds(Filled(h, i, k, fields))
<1> DEFINE F == Filled(h, i, k, fields)
<1>1. SUFFICES ASSUME NEW n \in DOMAIN h, NEW q \in Kinds
               PROVE  F[n].part[q].resource \in ResourcesOf(q) \cup {None}
  BY FilledKeeps DEF OwnKinds, SameStates
<1>2. h[n].part[q].resource \in ResourcesOf(q) \cup {None}
  BY DEF OwnKinds
<1>3. h[n] \in Version /\ h[n].part \in [Kinds -> Part] /\ h[n].part[k] \in Part
  BY VersionParts, ElementOfSeq, LenProperties
<1>4. CASE n \notin Addressed(h, i)
  BY <1>2, <1>4 DEF Filled
<1>5. CASE n \in Addressed(h, i)
  <2>1. F[n] = [h[n] EXCEPT !.part[k] = Updated(@, fields)]
    BY <1>5 DEF Filled
  <2>2. h[n] = [status |-> h[n].status, part |-> h[n].part]
    BY <1>3 DEF Version
  <2>3. F[n].part = [h[n].part EXCEPT ![k] = Updated(h[n].part[k], fields)]
    BY <2>1, <2>2
  <2>4. Updated(h[n].part[k], fields).resource = fields.resource
    BY <1>3 DEF Updated, Fields, Part
  <2>5. QED
    BY <1>2, <1>3, <2>3, <2>4
<1>6. QED
  BY <1>4, <1>5

LEMMA HistoriesKinds ==
    ASSUME Inv, NEW s \in Schemas, OwnKinds(versions[s]), NEW h \in Histories(s, Known(s))
    PROVE  OwnKinds(h)
<1>1. CASE h = versions[s]
  BY <1>1
<1>2. CASE h # versions[s]
  <2>1. PICK f \in Known(s) : \E seed \in Seeds(f) : h = <<seed>>
    BY <1>2 DEF Histories
  <2>2. PICK seed \in Seeds(f) : h = <<seed>>
    BY <2>1
  <2>3. PICK indexed \in BOOLEAN, graph \in Graphs \cup {None} :
          seed = Seed(indexed, f, graph)
    BY <2>2 DEF Seeds
  <2>4. /\ seed.part["graphrag"].resource = None
        /\ seed.part["ontology"].resource = graph
    BY <2>3 DEF Seed, Blank, Kinds
  <2>5. QED
    BY <2>2, <2>4 DEF OwnKinds, Kinds, ResourcesOf
<1>3. QED
  BY <1>1, <1>2

LEMMA SavedKinds ==
    ASSUME Inv, KindsApart, NEW s \in Schemas, NEW n, NEW k \in Kinds, NEW fields \in Fields,
           fields.resource \in ResourcesOf(k) \cup {None},
           Saved([versions EXCEPT ![s] = Filled(@, n, k, fields)]),
           manager' = manager
    PROVE  KindsApart'
<1>1. versions \in [Schemas -> Seq(Version)]
  BY DEF Inv, HistoryTyped
<1>2. CASE UNCHANGED versions
  BY <1>2 DEF KindsApart
<1>3. CASE versions' = [versions EXCEPT ![s] = Filled(versions[s], n, k, fields)]
  <2>1. OwnKinds(Filled(versions[s], n, k, fields))
    BY <1>1, FilledKinds DEF KindsApart
  <2>2. QED
    BY <1>1, <1>3, <2>1 DEF KindsApart
<1>4. QED
  BY <1>2, <1>3 DEF Saved

LEMMA SameKinds ==
    ASSUME KindsApart, UNCHANGED <<versions, manager>>
    PROVE  KindsApart'
BY DEF KindsApart

LEMMA JobStepKinds ==
    ASSUME Inv, KindsApart, NEW j \in Jobs, JobNext(j)
    PROVE  KindsApart'
<1> DEFINE sc == job[j].schema
           n == job[j].version
<1>1. CASE Index(j)
  <2>1. sc \in Schemas
    BY <1>1, JobFacts DEF Index, Steps, Ready, Indexers
  <2>2. versions' = versions /\ (manager' = manager \/ manager' = Collection(sc))
    BY <1>1 DEF Index
  <2>3. QED
    BY <2>1, <2>2 DEF KindsApart, ResourcesOf
<1>2. CASE RecordIndex(j)
  <2> DEFINE fields == [file |-> File("graphrag", sc, n), resource |-> manager]
  <2>1. sc \in Schemas /\ n \in Nat
    BY <1>2, JobFacts DEF RecordIndex, Steps, Ready, Indexers
  <2>2. fields \in Fields
    BY <2>1, Distinct DEF Inv, DiskTyped, Fields, File, Files
  <2>3. fields.resource \in ResourcesOf("graphrag") \cup {None}
    BY DEF KindsApart
  <2>4. Saved([versions EXCEPT ![sc] = Filled(@, n, "graphrag", fields)]) /\ manager' = manager
    BY <1>2 DEF RecordIndex
  <2> HIDE DEF fields, sc, n
  <2>5. QED
    BY <2>1, <2>2, <2>3, <2>4, Distinct, SavedKinds
<1>3. CASE RecordOntology(j)
  <2> DEFINE fields == [file |-> job[j].file, resource |-> job[j].graph]
  <2>1. /\ sc \in Schemas /\ job[j].file \in Files /\ job[j].graph \in Graphs \cup {None}
    BY <1>3, JobFacts DEF RecordOntology, Steps, Ready
  <2>2. fields \in Fields
    BY <2>1 DEF Fields, Resources
  <2>3. fields.resource \in ResourcesOf("ontology") \cup {None}
    BY <2>1 DEF ResourcesOf
  <2>4. Saved([versions EXCEPT ![sc] = Filled(@, n, "ontology", fields)]) /\ manager' = manager
    BY <1>3 DEF RecordOntology
  <2> HIDE DEF fields, sc, n
  <2>5. QED
    BY <2>1, <2>2, <2>3, <2>4, Distinct, SavedKinds
<1>4. CASE RecordGraph(j)
  <2> DEFINE fields == [resource |-> job[j].graph]
  <2>1. sc \in Schemas /\ job[j].graph \in Graphs \cup {None}
    BY <1>4, JobFacts DEF RecordGraph, Steps, Ready
  <2>2. fields \in Fields
    BY <2>1 DEF Fields, Resources
  <2>3. fields.resource \in ResourcesOf("ontology") \cup {None}
    BY <2>1 DEF ResourcesOf
  <2>4. Saved([versions EXCEPT ![sc] = Filled(@, n, "ontology", fields)]) /\ manager' = manager
    BY <1>4 DEF RecordGraph
  <2> HIDE DEF fields, sc, n
  <2>5. QED
    BY <2>1, <2>2, <2>3, <2>4, Distinct, SavedKinds
<1>5. CASE UNCHANGED <<versions, manager>>
  BY <1>5, SameKinds
<1>6. Index(j) \/ RecordIndex(j) \/ RecordOntology(j) \/ RecordGraph(j)
        \/ UNCHANGED <<versions, manager>>
  BY DEF JobNext, InitializeGraphRAG, GenerateOntology, StoreOntologyInRDF, SaveSnapshot,
         Chain, WriteOntology, LoadOntology, GiveUp
<1>7. QED
  BY <1>1, <1>2, <1>3, <1>4, <1>5, <1>6

(* What discovery makes of the histories.                                  *)
LEMMA Discovered ==
    ASSUME Inv, NEW s \in Schemas, Discover(s)
    PROVE  \/ versions' = versions
           \/ \E h \in Histories(s, Known(s)) :
                /\ h \in Seq(Version)
                /\ versions' = [versions EXCEPT ![s] = Opened(h)]
                /\ (pass' # None /\ ~disturbed') => h = versions[s]
<1>1. PICK h \in Histories(s, Known(s)), new \in SUBSET {"version"} :
        /\ versions' = IF new = {} THEN versions ELSE [versions EXCEPT ![s] = Opened(h)]
        /\ \/ disturbed' = (disturbed \/ (pass # None /\ new # {} /\ h # versions[s]))
           \/ disturbed' = (disturbed \/ pass # None)
  BY DEF Discover, Start
<1>2. h \in Seq(Version)
  BY HistoriesAreHistories DEF Inv, HistoryTyped, DiskTyped
<1>3. pass' = pass
  BY DEF Discover, passVars
<1>4. CASE new = {}
  BY <1>1, <1>4
<1>5. CASE new # {}
  <2>1. (pass' # None /\ ~disturbed') => h = versions[s]
    BY <1>1, <1>3, <1>5
  <2>2. QED
    BY <1>1, <1>2, <1>5, <2>1
<1>6. QED
  BY <1>4, <1>5

LEMMA DiscoverKinds ==
    ASSUME Inv, KindsApart, NEW s \in Schemas, Discover(s)
    PROVE  KindsApart'
<1>1. manager' = manager /\ versions \in [Schemas -> Seq(Version)]
  BY DEF Discover, Inv, HistoryTyped
<1>2. CASE versions' = versions
  BY <1>1, <1>2, SameKinds
<1>3. ASSUME NEW h \in Histories(s, Known(s)), h \in Seq(Version),
             versions' = [versions EXCEPT ![s] = Opened(h)]
      PROVE  KindsApart'
  <2>1. OwnKinds(Opened(h))
    BY <1>3, HistoriesKinds, OpenedExtends, ExtendedKinds DEF KindsApart
  <2>2. QED
    BY <1>1, <1>3, <2>1 DEF KindsApart
<1>4. QED
  BY <1>2, <1>3, Discovered

(* What marking a version makes of the histories.                          *)
MarkedAll(n) == [versions EXCEPT ![target] = Marked(@, n, pass)]

LEMMA MarkFacts ==
    ASSUME Inv, NEW n \in todo
    PROVE  /\ versions \in [Schemas -> Seq(Version)]
           /\ target \in Schemas /\ pass \in Kinds
           /\ MarkedAll(n)[target] = Marked(versions[target], n, pass)
           /\ \A s \in Schemas : DOMAIN MarkedAll(n)[s] = DOMAIN versions[s]
           /\ \A s \in Schemas : \A m \in DOMAIN versions[s], k \in Kinds :
               /\ MarkedAll(n)[s][m].part[k].resource = versions[s][m].part[k].resource
               /\ MarkedAll(n)[s][m].part[k].file = versions[s][m].part[k].file
               /\ IF s = target /\ m = n /\ k = pass
                  THEN MarkedAll(n)[s][m].part[k].state = "deleted"
                  ELSE MarkedAll(n)[s][m].part[k].state = versions[s][m].part[k].state
<1>1. versions \in [Schemas -> Seq(Version)] /\ target \in Schemas /\ pass \in Kinds
  BY NextDoomed DEF Inv, HistoryTyped
<1>2. versions[target] \in Seq(Version)
  BY <1>1
<1>3. /\ MarkedAll(n)[target] = Marked(versions[target], n, pass)
      /\ \A s \in Schemas \ {target} : MarkedAll(n)[s] = versions[s]
  BY <1>1 DEF MarkedAll
<1>4. /\ DOMAIN Marked(versions[target], n, pass) = DOMAIN versions[target]
      /\ \A m \in DOMAIN versions[target], k \in Kinds :
          /\ Marked(versions[target], n, pass)[m].part[k].file
                = versions[target][m].part[k].file
          /\ (m # n \/ k # pass) =>
               Marked(versions[target], n, pass)[m].part[k].state
                 = versions[target][m].part[k].state
  BY <1>1, <1>2, MarkedKeeps
<1>5. \A m \in DOMAIN versions[target], k \in Kinds :
        /\ Marked(versions[target], n, pass)[m].part[k].resource
              = versions[target][m].part[k].resource
        /\ (m = n /\ k = pass) =>
              Marked(versions[target], n, pass)[m].part[k].state = "deleted"
  BY <1>1, <1>2, MarkedPoints
<1>6. ASSUME NEW s \in Schemas, NEW m \in DOMAIN versions[s], NEW k \in Kinds
      PROVE  /\ DOMAIN MarkedAll(n)[s] = DOMAIN versions[s]
             /\ MarkedAll(n)[s][m].part[k].resource = versions[s][m].part[k].resource
             /\ MarkedAll(n)[s][m].part[k].file = versions[s][m].part[k].file
             /\ IF s = target /\ m = n /\ k = pass
                THEN MarkedAll(n)[s][m].part[k].state = "deleted"
                ELSE MarkedAll(n)[s][m].part[k].state = versions[s][m].part[k].state
  <2>1. CASE s = target
    BY <1>3, <1>4, <1>5, <2>1
  <2>2. CASE s # target
    BY <1>3, <2>2
  <2>3. QED
    BY <2>1, <2>2
<1>7. \A s \in Schemas : DOMAIN MarkedAll(n)[s] = DOMAIN versions[s]
  BY <1>3, <1>4
<1>8. QED
  BY <1>1, <1>3, <1>6, <1>7

LEMMA MarkHistories ==
    ASSUME NEW n \in todo, Mark(n)
    PROVE  \/ /\ versions' = MarkedAll(n) \/ versions' = versions
              /\ view' = MarkedAll(n)
              /\ todo' = todo \ {n}
              /\ Turns("delete")
              /\ live' = live
           \/ /\ Spared(n)
              /\ versions' = versions /\ view' = view
BY DEF Mark, MarkedAll, Saved

LEMMA StepKinds ==
    ASSUME Inv, KindsApart, [Next]_vars
    PROVE  KindsApart'
<1>1. CASE \E s \in Schemas : Discover(s)
  BY <1>1, DiscoverKinds
<1>2. CASE \E j \in Jobs : JobNext(j)
  BY <1>2, JobStepKinds
<1>3. ASSUME NEW n \in todo, Mark(n)
      PROVE  KindsApart'
  <2>1. manager' = manager /\ (versions' = versions \/ versions' = MarkedAll(n))
    BY <1>3, MarkHistories DEF Mark
  <2>2. CASE versions' = MarkedAll(n)
    <3>1. ASSUME NEW s \in Schemas, NEW m \in DOMAIN versions'[s], NEW k \in Kinds
          PROVE  versions'[s][m].part[k].resource \in ResourcesOf(k) \cup {None}
      <4>1. /\ m \in DOMAIN versions[s]
            /\ versions'[s][m].part[k].resource = versions[s][m].part[k].resource
        BY <1>3, <2>2, <3>1, MarkFacts
      <4>2. QED
        BY <4>1 DEF KindsApart, OwnKinds
    <3>2. QED
      BY <2>1, <3>1 DEF KindsApart, OwnKinds
  <2>3. QED
    BY <2>1, <2>2, SameKinds
<1>4. CASE Restart
  BY <1>4 DEF Restart, KindsApart
<1>5. CASE UNCHANGED <<versions, manager>>
  BY <1>5, SameKinds
<1>6. ASSUME CleanupNext
      PROVE  (\E n \in todo : Mark(n)) \/ UNCHANGED <<versions, manager>>
  BY <1>6
  DEF CleanupNext, BeginCleanup, Delete, PruneOntologies, CancelCleanup, EndCleanup
<1>7. UNCHANGED vars => UNCHANGED <<versions, manager>>
  BY DEF vars
<1>8. QED
  BY <1>1, <1>2, <1>3, <1>4, <1>5, <1>6, <1>7 DEF Next

-----------------------------------------------------------------------------
(* The archive has enough without what is still to come.                   *)

Enough ==
    todo # {} =>
        Cardinality(InState(versions[target], pass, "archived") \ todo) >= MinVersions

LEMMA MoreIsEnough ==
    ASSUME NEW S, NEW T, IsFiniteSet(T), S \subseteq T, Cardinality(S) >= MinVersions
    PROVE  Cardinality(T) >= MinVersions
<1>1. /\ IsFiniteSet(S) /\ Cardinality(S) \in Nat /\ Cardinality(T) \in Nat
      /\ Cardinality(S) <= Cardinality(T)
  BY FS_Subset, FS_CardinalityType
<1>2. QED
  BY <1>1, HistoryAssumption

(* Nothing that is not listed leaves the archive, and nothing is listed.   *)
LEMMA EnoughKeeps ==
    ASSUME Inv, Inv', Enough, todo' \subseteq todo, target' = target, pass' = pass,
           todo # {} =>
             \A n \in InState(versions[target], pass, "archived") \ todo :
                n \in InState(versions'[target], pass, "archived")
    PROVE  Enough'
<1>1. SUFFICES ASSUME todo' # {}
               PROVE  Cardinality(InState(versions'[target], pass, "archived") \ todo')
                            >= MinVersions
  BY DEF Enough
<1> DEFINE S == InState(versions[target], pass, "archived") \ todo
           T == InState(versions'[target], pass, "archived") \ todo'
<1>2. S \subseteq T /\ Cardinality(S) >= MinVersions
  BY <1>1 DEF Enough
<1>3. IsFiniteSet(T)
  <2>1. target \in Schemas
    BY <1>1, NextDoomed
  <2>2. versions'[target] \in Seq(Version)
    BY <2>1 DEF Inv, HistoryTyped
  <2>3. IsFiniteSet(InState(versions'[target], pass, "archived"))
    BY <2>2, FiniteArchive
  <2>4. QED
    BY <2>3, FS_Subset
<1>4. QED
  <2> HIDE DEF S, T
  <2>1. Cardinality(T) >= MinVersions
    BY <1>2, <1>3, MoreIsEnough
  <2>2. QED
    BY <2>1 DEF T

LEMMA EnoughBegins ==
    ASSUME NEW s \in Schemas, NEW k \in Kinds, NEW all \in [Schemas -> Seq(Version)],
           BeginPass(s, k, all), target' = s, versions'[s] \in Seq(Version),
           InState(all[s], k, "archived") \subseteq InState(versions'[s], k, "archived")
    PROVE  Enough'
<1>1. SUFFICES ASSUME todo' # {}
               PROVE  Cardinality(InState(versions'[s], k, "archived") \ todo') >= MinVersions
  BY DEF Enough, BeginPass
<1>2. PICK old \in 0..Len(all[s]) : listed' = ToCleanUp(all[s], k, old)
  BY DEF BeginPass
<1>3. todo' = ToCleanUp(all[s], k, old)
  BY <1>2 DEF BeginPass
<1>4. Cardinality(InState(all[s], k, "archived") \ todo') >= MinVersions
  BY <1>1, <1>3, ListLeavesEnough
<1>5. IsFiniteSet(InState(versions'[s], k, "archived") \ todo')
  BY FiniteArchive, FS_Difference
<1>6. QED
  BY <1>4, <1>5, MoreIsEnough

LEMMA SamePlanEnough ==
    ASSUME Inv, Inv', Enough, UNCHANGED <<passVars, target>>,
           \A s \in Schemas, k \in Kinds :
               InState(versions[s], k, "archived") \subseteq InState(versions'[s], k, "archived")
    PROVE  Enough'
<1>1. todo' = todo /\ target' = target /\ pass' = pass
  BY DEF passVars
<1>2. QED
  BY <1>1, NextDoomed, EnoughKeeps

LEMMA StepEnough ==
    ASSUME Inv, Inv', Enough, [Next]_vars
    PROVE  Enough'
<1>1. CASE \E s \in Schemas : Discover(s)
  <2>1. PICK s \in Schemas : Discover(s)
    BY <1>1
  <2>2. ASSUME NEW t \in Schemas, NEW k \in Kinds
        PROVE  InState(versions[t], k, "archived") \subseteq InState(versions'[t], k, "archived")
    <3>1. versions \in [Schemas -> Seq(Version)]
      BY DEF Inv, HistoryTyped
    <3>2. CASE versions' = versions
      BY <3>2
    <3>3. ASSUME NEW h \in Histories(s, Known(s)), versions' = [versions EXCEPT ![s] = Opened(h)]
          PROVE  InState(versions[t], k, "archived")
                    \subseteq InState(versions'[t], k, "archived")
      BY <3>1, <3>3, OpenedGrows
    <3>4. QED
      BY <2>1, <3>2, <3>3, Discovered
  <2>3. UNCHANGED <<passVars, target>>
    BY <2>1 DEF Discover
  <2>4. QED
    BY <2>2, <2>3, SamePlanEnough
<1>2. CASE \E j \in Jobs : JobNext(j)
  <2>1. Produces
    BY <1>2, JobStepProduces
  <2>2. \A s \in Schemas : versions[s] \in Seq(Version) /\ versions'[s] \in Seq(Version)
    BY DEF Inv, HistoryTyped
  <2>3. \A s \in Schemas, k \in Kinds :
          InState(versions[s], k, "archived") \subseteq InState(versions'[s], k, "archived")
    BY <2>1, <2>2, SameArchive DEF Produces, Refills
  <2>4. QED
    BY <2>1, <2>3, SamePlanEnough DEF Produces
<1>3. ASSUME NEW s \in Schemas, BeginCleanup(s)
      PROVE  Enough'
  <2>1. /\ versions \in [Schemas -> Seq(Version)] /\ BeginPass(s, "graphrag", versions)
        /\ target' = s /\ versions' = versions
    BY <1>3 DEF BeginCleanup, Inv, HistoryTyped
  <2>2. QED
    BY <2>1, EnoughBegins, Distinct
<1>4. CASE PruneOntologies
  <2>1. /\ view \in [Schemas -> Seq(Version)] /\ versions \in [Schemas -> Seq(Version)]
        /\ BeginPass(target, "ontology", view)
        /\ pass = "graphrag" /\ writer = Cleaner /\ target \in Schemas
        /\ target' = target /\ versions' = versions
    BY <1>4, Distinct DEF PruneOntologies, Inv, HistoryTyped, PassReady
  <2>2. InState(view[target], "ontology", "archived")
          \subseteq InState(versions'[target], "ontology", "archived")
    BY <2>1 DEF Inv, ViewHolds
  <2>3. QED
    BY <2>1, <2>2, EnoughBegins, Distinct
<1>5. ASSUME NEW n \in todo, Delete(n)
      PROVE  Enough'
  <2>1. versions' = versions /\ target' = target /\ pass' = pass /\ todo' \subseteq todo
    BY <1>5 DEF Delete, Deleted, DeletionFails, Spared
  <2>2. QED
    BY <2>1, EnoughKeeps
<1>6. ASSUME NEW n \in todo, Mark(n)
      PROVE  Enough'
  <2>1. /\ target' = target /\ pass' = pass /\ todo' \subseteq todo
        /\ versions' = MarkedAll(n) \/ versions' = versions
    BY <1>6, MarkHistories DEF Mark, Spared
  <2>2. \A m \in InState(versions[target], pass, "archived") \ todo :
          m \in InState(versions'[target], pass, "archived")
    BY <2>1, MarkFacts DEF InState
  <2>3. QED
    BY <2>1, <2>2, EnoughKeeps
<1>7. CASE NoRun
  BY <1>7 DEF NoRun, Enough
<1>8. CASE UNCHANGED <<versions, passVars, target>>
  BY <1>8 DEF passVars, Enough
<1>9. CASE CancelCleanup \/ UNCHANGED vars
  BY <1>8, <1>9 DEF CancelCleanup, vars, runVars
<1>10. CASE EndCleanup \/ Restart
  BY <1>7, <1>10 DEF EndCleanup, Restart
<1>11. QED
  BY <1>1, <1>2, <1>3, <1>4, <1>5, <1>6, <1>9, <1>10 DEF Next, CleanupNext

-----------------------------------------------------------------------------
(* While no producer is at work, the cleanup's picture of the histories is *)
(* good, and so is its list of what must survive.                          *)

Alone == pass # None /\ ~disturbed

Quiet == \A j \in Jobs : ~Working(j)

(* What the cleanup has in view points at what the history does.           *)
SeenAsIs ==
    \A s \in Schemas : \A n \in DOMAIN view[s] :
        /\ n \in DOMAIN versions[s]
        /\ \A k \in Kinds :
            /\ view[s][n].part[k].resource = versions[s][n].part[k].resource
            /\ view[s][n].part[k].file = versions[s][n].part[k].file

(* With the lock, the ontologies in view are all there are.                *)
LockedView ==
    (writer = Cleaner /\ pass = "graphrag") =>
        \A s \in Schemas :
            /\ DOMAIN view[s] = DOMAIN versions[s]
            /\ \A n \in DOMAIN view[s] :
                view[s][n].part["ontology"].state = versions[s][n].part["ontology"].state

(* What the versions that stay point at is live ...                        *)
Sheltered ==
    \A s \in Schemas : \A n \in DOMAIN versions[s] :
        (versions[s][n].part[pass].state # "deleted" /\ ~(s = target /\ n \in listed)) =>
            versions[s][n].part[pass].resource \in live \cup {None}

(* ... and what is live is pointed at by a version that stays.             *)
Pointed ==
    \A x \in live : \E s \in Schemas : \E n \in DOMAIN versions[s] :
        /\ versions[s][n].part[pass].resource = x
        /\ versions[s][n].part[pass].state # "deleted"
        /\ ~(s = target /\ n \in todo)

(* Before a version is marked nothing of it is left.                       *)
Emptied ==
    spot = "mark" =>
        \A n \in todo : IsNext(n) =>
            /\ FilesOf(n) \cap files = {}
            /\ (reach /\ Doomed(n).resource \in stored) => Doomed(n).resource \in live

(* What is left of the versions that were tried is live.                   *)
TriedAgain ==
    reach =>
        \A n \in listed \ todo :
            Doomed(n).resource \in stored => Doomed(n).resource \in live

InPeace ==
    Alone => /\ Quiet /\ SeenAsIs /\ LockedView
             /\ Sheltered /\ Pointed
             /\ Emptied /\ TriedAgain

(* A producer that starts, or is at work, disturbs.                        *)
LEMMA ProducerDisturbs ==
    ASSUME Inv, InPeace, NEW j \in Jobs, JobNext(j)
    PROVE  ~Alone'
<1>1. CASE Working(j)
  <2>1. ~Alone
    BY <1>1 DEF InPeace, Quiet
  <2>2. pass' = pass
    BY JobStepProduces DEF Produces, passVars
  <2>3. CASE disturbed' = disturbed
    BY <2>1, <2>2, <2>3 DEF Alone
  <2>4. disturbed' = disturbed
    BY <1>1
    DEF JobNext, InitializeGraphRAG, GenerateOntology, StoreOntologyInRDF, Start, Index,
        SaveSnapshot, RecordIndex, Chain, WriteOntology, LoadOntology, RecordOntology,
        RecordGraph, GiveUp, runVars
  <2>5. QED
    BY <2>3, <2>4
<1>2. CASE ~Working(j)
  <2>1. \E run : Start(j, run)
    <3>1. job[j].task = "none"
      BY <1>2 DEF Working
    <3>2. ~(Index(j) \/ SaveSnapshot(j) \/ RecordIndex(j) \/ Chain(j))
      BY <3>1 DEF Index, SaveSnapshot, RecordIndex, Chain, Steps, Indexers
    <3>3. ~(WriteOntology(j) \/ LoadOntology(j) \/ RecordOntology(j) \/ RecordGraph(j))
      BY <3>1 DEF WriteOntology, LoadOntology, RecordOntology, RecordGraph, Steps
    <3>4. ~GiveUp(j)
      BY <1>2 DEF GiveUp
    <3>5. QED
      BY <3>2, <3>3, <3>4
      DEF JobNext, InitializeGraphRAG, GenerateOntology, StoreOntologyInRDF
  <2>2. disturbed' = (disturbed \/ pass # None)
    BY <2>1 DEF Start
  <2>3. pass' = pass
    BY JobStepProduces DEF Produces, passVars
  <2>4. QED
    BY <2>2, <2>3 DEF Alone
<1>3. QED
  BY <1>1, <1>2

(* A step that leaves the pass alone and what the histories point at.      *)
LEMMA PeaceExtends ==
    ASSUME Inv, InPeace, UNCHANGED <<passVars, target, disturbed, diskVars, job>>,
           writer' # Cleaner \/ UNCHANGED <<versions, writer>>,
           Alone' => \A s \in Schemas : Extended(versions[s], versions'[s])
    PROVE  InPeace'
<1>1. SUFFICES ASSUME Alone'
               PROVE  /\ Quiet' /\ SeenAsIs' /\ LockedView'
                      /\ Sheltered' /\ Pointed' /\ Emptied' /\ TriedAgain'
  BY DEF InPeace
<1>2. /\ pass' = pass /\ view' = view /\ listed' = listed /\ todo' = todo /\ live' = live
      /\ reach' = reach /\ spot' = spot /\ target' = target /\ disturbed' = disturbed
      /\ files' = files /\ stored' = stored /\ job' = job
  BY DEF passVars, diskVars
<1>3. Alone /\ pass \in Kinds
  BY <1>1, <1>2 DEF Alone, Inv, PlanTyped
<1>4. /\ Quiet /\ SeenAsIs /\ LockedView
      /\ Sheltered /\ Pointed /\ Emptied /\ TriedAgain
  BY <1>3 DEF InPeace
<1>5. \A s \in Schemas : Extended(versions[s], versions'[s])
  BY <1>1
<1>6. Quiet'
  BY <1>2, <1>4 DEF Quiet, Working
<1>7. SeenAsIs'
  BY <1>2, <1>4, <1>5 DEF SeenAsIs, Extended
<1>8. LockedView'
  BY <1>2, <1>4 DEF LockedView
<1>9. Sheltered'
  <2>1. SUFFICES ASSUME NEW s \in Schemas, NEW n \in DOMAIN versions'[s],
                        versions'[s][n].part[pass].state # "deleted",
                        ~(s = target /\ n \in listed)
                 PROVE  versions'[s][n].part[pass].resource \in live \cup {None}
    BY <1>2 DEF Sheltered
  <2>2. CASE n \in DOMAIN versions[s]
    <3>1. /\ versions'[s][n].part[pass].resource = versions[s][n].part[pass].resource
          /\ versions[s][n].part[pass].state # "deleted"
      BY <1>3, <1>5, <2>1, <2>2 DEF Extended
    <3>2. QED
      BY <1>4, <2>1, <2>2, <3>1 DEF Sheltered
  <2>3. CASE n \notin DOMAIN versions[s]
    BY <1>3, <1>5, <2>3 DEF Extended
  <2>4. QED
    BY <2>2, <2>3
<1>10. Pointed'
  <2>1. SUFFICES ASSUME NEW x \in live
                 PROVE  \E s \in Schemas : \E n \in DOMAIN versions'[s] :
                          /\ versions'[s][n].part[pass].resource = x
                          /\ versions'[s][n].part[pass].state # "deleted"
                          /\ ~(s = target /\ n \in todo)
    BY <1>2 DEF Pointed
  <2>a. PICK s \in Schemas :
          \E n \in DOMAIN versions[s] :
             /\ versions[s][n].part[pass].resource = x
             /\ versions[s][n].part[pass].state # "deleted"
             /\ ~(s = target /\ n \in todo)
    BY <1>4 DEF Pointed
  <2>2. PICK n \in DOMAIN versions[s] :
          /\ versions[s][n].part[pass].resource = x
          /\ versions[s][n].part[pass].state # "deleted"
          /\ ~(s = target /\ n \in todo)
    BY <2>a
  <2>3. /\ n \in DOMAIN versions'[s]
        /\ versions'[s][n].part[pass].resource = x
        /\ versions'[s][n].part[pass].state # "deleted"
    BY <1>3, <1>5, <2>2 DEF Extended
  <2>4. QED
    BY <2>2, <2>3
<1>11. Emptied' /\ TriedAgain'
  BY <1>2, <1>4 DEF Emptied, TriedAgain, IsNext, FilesOf, Doomed
<1>12. QED
  BY <1>6, <1>7, <1>8, <1>9, <1>10, <1>11

LEMMA SameExtends == \A h : Extended(h, h)
BY DEF Extended

LEMMA DiscoverPeace ==
    ASSUME Inv, InPeace, NEW s \in Schemas, Discover(s)
    PROVE  InPeace'
<1>1. SUFFICES ASSUME Alone' PROVE InPeace'
  BY DEF InPeace
<1>2. UNCHANGED <<passVars, target, diskVars, writer>> /\ writer # Cleaner
  BY Distinct DEF Discover
<1>3. pass' = pass
  BY <1>2 DEF passVars
<1>4. pass' # None /\ ~disturbed'
  BY <1>1 DEF Alone
<1>5. disturbed' = disturbed /\ job' = job
  <2>1. /\ job' = job \/ disturbed' = (disturbed \/ pass # None)
        /\ disturbed => disturbed'
    BY DEF Discover, Start
  <2>2. disturbed \in BOOLEAN /\ disturbed' \in BOOLEAN
    BY DiscoverKeeps DEF Inv, StartsTyped
  <2>3. QED
    BY <1>3, <1>4, <2>1, <2>2
<1>6. \A t \in Schemas : Extended(versions[t], versions'[t])
  <2>1. versions \in [Schemas -> Seq(Version)]
    BY DEF Inv, HistoryTyped
  <2>2. CASE versions' = versions
    BY <2>2, SameExtends
  <2>3. CASE versions' = [versions EXCEPT ![s] = Opened(versions[s])]
    BY <2>1, <2>3, OpenedExtends, SameExtends
  <2>4. QED
    BY <1>4, <2>2, <2>3, Discovered
<1>7. QED
  BY <1>2, <1>5, <1>6, PeaceExtends

(* A pass begins, with the part of the histories it is about in view.      *)
LEMMA PeaceBegins ==
    ASSUME Inv, NEW s \in Schemas, NEW k \in Kinds, NEW all \in [Schemas -> Seq(Version)],
           BeginPass(s, k, all), target' = s, versions' = versions,
           Alone' =>
             /\ Quiet' /\ SeenAsIs' /\ LockedView'
             /\ \A t \in Schemas :
                 /\ DOMAIN all[t] = DOMAIN versions[t]
                 /\ \A n \in DOMAIN versions[t] :
                     /\ all[t][n].part[k].resource = versions[t][n].part[k].resource
                     /\ all[t][n].part[k].state = versions[t][n].part[k].state
    PROVE  InPeace'
<1>1. SUFFICES ASSUME Alone'
               PROVE  Sheltered' /\ Pointed' /\ Emptied' /\ TriedAgain'
  BY DEF InPeace
<1>2. /\ pass' = k /\ todo' = listed' /\ spot' = "delete"
      /\ live' = Survivors(all, s, k, listed')
  BY DEF BeginPass
<1>3. \A t \in Schemas :
        /\ DOMAIN all[t] = DOMAIN versions[t]
        /\ \A n \in DOMAIN versions[t] :
            /\ all[t][n].part[k].resource = versions[t][n].part[k].resource
            /\ all[t][n].part[k].state = versions[t][n].part[k].state
  BY <1>1
<1>4. Sheltered'
  <2>1. SUFFICES ASSUME NEW t \in Schemas, NEW n \in DOMAIN versions[t],
                        versions[t][n].part[k].state # "deleted",
                        ~(t = s /\ n \in listed')
                 PROVE  versions[t][n].part[k].resource \in live' \cup {None}
    BY <1>2 DEF Sheltered
  <2>2. /\ n \in DOMAIN all[t]
        /\ all[t][n].part[k].state # "deleted"
        /\ all[t][n].part[k].resource = versions[t][n].part[k].resource
    BY <1>3, <2>1
  <2> DEFINE staying == {m \in DOMAIN all[t] :
                           all[t][m].part[k].state # "deleted" /\ ~(t = s /\ m \in listed')}
             pointed == {all[t][m].part[k].resource : m \in staying}
  <2>3. n \in staying
    BY <2>1, <2>2
  <2>4. all[t][n].part[k].resource \in pointed
    BY <2>3
  <2>5. pointed \ {None} \subseteq live'
    BY <1>2 DEF Survivors
  <2> HIDE DEF pointed
  <2>6. QED
    BY <2>2, <2>4, <2>5
<1>5. Pointed'
  <2>1. SUFFICES ASSUME NEW x \in Survivors(all, s, k, listed')
                 PROVE  \E t \in Schemas : \E n \in DOMAIN versions[t] :
                          /\ versions[t][n].part[k].resource = x
                          /\ versions[t][n].part[k].state # "deleted"
                          /\ ~(t = s /\ n \in listed')
    BY <1>2 DEF Pointed
  <2>2. PICK t \in Schemas :
          \E n \in DOMAIN all[t] :
            /\ all[t][n].part[k].resource = x
            /\ all[t][n].part[k].state # "deleted"
            /\ ~(t = s /\ n \in listed')
    BY DEF Survivors
  <2>3. QED
    BY <1>3, <2>2
<1>6. Emptied' /\ TriedAgain'
  BY <1>2 DEF Emptied, TriedAgain
<1>7. QED
  BY <1>4, <1>5, <1>6

LEMMA BeginCleanupPeace ==
    ASSUME Inv, NEW s \in Schemas, BeginCleanup(s)
    PROVE  InPeace'
<1>1. /\ versions \in [Schemas -> Seq(Version)] /\ BeginPass(s, "graphrag", versions)
      /\ target' = s /\ versions' = versions /\ view' = versions /\ job' = job
      /\ disturbed' = \E j \in Jobs : Working(j)
  BY DEF BeginCleanup, BeginPass, Inv, HistoryTyped
<1>2. SeenAsIs' /\ LockedView'
  BY <1>1 DEF SeenAsIs, LockedView
<1>3. Alone' => Quiet'
  BY <1>1 DEF Alone, Quiet, Working
<1>4. QED
  BY <1>1, <1>2, <1>3, Distinct, PeaceBegins

LEMMA PrunePeace ==
    ASSUME Inv, InPeace, PruneOntologies
    PROVE  InPeace'
<1>1. /\ view \in [Schemas -> Seq(Version)] /\ BeginPass(target, "ontology", view)
      /\ target' = target /\ versions' = versions /\ view' = view /\ job' = job
      /\ disturbed' = disturbed
      /\ pass = "graphrag" /\ writer = Cleaner /\ pass' = "ontology" /\ target \in Schemas
  BY Distinct DEF PruneOntologies, BeginPass, Inv, HistoryTyped, PassReady
<1>2. Alone' => Quiet /\ SeenAsIs /\ LockedView
  BY <1>1, Distinct DEF Alone, InPeace
<1>3. Alone' => Quiet' /\ SeenAsIs' /\ LockedView'
  BY <1>1, <1>2 DEF Quiet, Working, SeenAsIs, LockedView
<1>4. Alone' =>
        \A t \in Schemas :
           /\ DOMAIN view[t] = DOMAIN versions[t]
           /\ \A n \in DOMAIN versions[t] :
               /\ view[t][n].part["ontology"].resource = versions[t][n].part["ontology"].resource
               /\ view[t][n].part["ontology"].state = versions[t][n].part["ontology"].state
  BY <1>1, <1>2, Distinct DEF SeenAsIs, LockedView
<1>5. QED
  BY <1>1, <1>3, <1>4, Distinct, PeaceBegins

(* The versions listed are as they are in view.                            *)
LEMMA DoomedIs ==
    ASSUME Inv, SeenAsIs, pass # None, NEW n \in listed
    PROVE  /\ target \in Schemas /\ pass \in Kinds
           /\ n \in DOMAIN view[target] /\ n \in DOMAIN versions[target]
           /\ Doomed(n).resource = versions[target][n].part[pass].resource
           /\ Doomed(n).file = versions[target][n].part[pass].file
<1>1. target \in Schemas /\ pass \in Kinds /\ n \in DOMAIN view[target]
  BY DEF Inv, PassReady, PlanTyped
<1>2. QED
  BY <1>1 DEF SeenAsIs, Doomed

(* A version that could not be deleted, or marked, is among those that     *)
(* stay.                                                                   *)
LEMMA SparedPeace ==
    ASSUME Inv, InPeace, NEW n \in todo, Spared(n),
           UNCHANGED <<versions, view, pass, target, listed, reach, disturbed, writer, job>>,
           stored' \subseteq stored
    PROVE  InPeace'
<1>1. SUFFICES ASSUME Alone
               PROVE  /\ Quiet' /\ SeenAsIs' /\ LockedView'
                      /\ Sheltered' /\ Pointed' /\ Emptied' /\ TriedAgain'
  BY DEF InPeace, Alone
<1>2. /\ Quiet /\ SeenAsIs /\ LockedView
      /\ Sheltered /\ Pointed /\ Emptied /\ TriedAgain
      /\ pass # None
  BY <1>1 DEF InPeace, Alone
<1>3. /\ todo' = todo \ {n}
      /\ live' = live \cup ({Doomed(n).resource} \ {None})
      /\ spot' \in {"delete", "over"}
  BY DEF Spared, Turns
<1>4. /\ n \in listed /\ target \in Schemas /\ pass \in Kinds
      /\ n \in DOMAIN versions[target]
      /\ Doomed(n).resource = versions[target][n].part[pass].resource
  BY <1>2, NextDoomed, DoomedIs
<1>5. \A m : Doomed(m)' = Doomed(m)
  BY DEF Doomed
<1>6. Quiet' /\ SeenAsIs' /\ LockedView'
  BY <1>2 DEF Quiet, Working, SeenAsIs, LockedView
<1>7. Sheltered'
  BY <1>2, <1>3 DEF Sheltered
<1>8. Pointed'
  <2>1. SUFFICES ASSUME NEW x \in live'
                 PROVE  \E s \in Schemas : \E m \in DOMAIN versions[s] :
                          /\ versions[s][m].part[pass].resource = x
                          /\ versions[s][m].part[pass].state # "deleted"
                          /\ ~(s = target /\ m \in todo')
    BY DEF Pointed
  <2>2. CASE x \in live
    BY <1>2, <1>3, <2>2 DEF Pointed
  <2>3. CASE x = Doomed(n).resource
    <3>1. versions[target][n].part[pass].state # "deleted"
      BY DEF Inv, RecentKept, InState
    <3>2. QED
      BY <1>3, <1>4, <2>3, <3>1
  <2>4. QED
    BY <1>3, <2>1, <2>2, <2>3
<1>9. Emptied'
  BY <1>3 DEF Emptied
<1>10. TriedAgain'
  <2>1. None \notin stored'
    BY HistoryAssumption DEF Inv, DiskTyped
  <2>2. QED
    BY <1>2, <1>3, <1>5, <2>1 DEF TriedAgain
<1>11. QED
  BY <1>6, <1>7, <1>8, <1>9, <1>10

LEMMA DeletePeace ==
    ASSUME Inv, InPeace, NEW n \in todo, Delete(n)
    PROVE  InPeace'
<1>1. UNCHANGED <<versions, manager, quota, writer, job, pass, target, view, listed, reach,
                  disturbed>>
  BY DEF Delete
<1>2. CASE DeletionFails(n)
  <2>1. Spared(n) /\ stored' \subseteq stored
    BY <1>2 DEF DeletionFails
  <2>2. QED
    BY <1>1, <2>1, SparedPeace
<1>3. CASE Deleted(n)
  <2>1. SUFFICES ASSUME Alone
                 PROVE  /\ Quiet' /\ SeenAsIs' /\ LockedView'
                        /\ Sheltered' /\ Pointed' /\ Emptied' /\ TriedAgain'
    BY <1>1 DEF InPeace, Alone
  <2>2. /\ Quiet /\ SeenAsIs /\ LockedView
        /\ Sheltered /\ Pointed /\ TriedAgain
    BY <2>1 DEF InPeace
  <2>3. /\ todo' = todo /\ live' = live
        /\ files' = files \ FilesOf(n) /\ stored' = stored \ ResourceOf(n)
    BY <1>3 DEF Deleted
  <2>4. Quiet' /\ SeenAsIs' /\ LockedView'
    BY <1>1, <2>2 DEF Quiet, Working, SeenAsIs, LockedView
  <2>5. Sheltered' /\ Pointed'
    BY <1>1, <2>2, <2>3 DEF Sheltered, Pointed
  <2>6. \A m : Doomed(m)' = Doomed(m) /\ FilesOf(m)' = FilesOf(m) /\ IsNext(m)' = IsNext(m)
    BY <1>1, <2>3 DEF Doomed, FilesOf, IsNext
  <2>7. Emptied'
    <3>1. SUFFICES ASSUME NEW m \in todo, IsNext(m)
                   PROVE  /\ FilesOf(m) \cap files' = {}
                          /\ (reach /\ Doomed(m).resource \in stored')
                                => Doomed(m).resource \in live
      BY <1>1, <2>3, <2>6 DEF Emptied
    <3>2. m = n
      <4>1. IsNext(n) /\ m \in Nat /\ n \in Nat
        BY NextDoomed DEF Delete
      <4>2. m <= n /\ n <= m
        BY <3>1, <4>1 DEF IsNext
      <4>3. QED
        BY <4>1, <4>2
    <3>3. QED
      BY <2>3, <3>2 DEF ResourceOf
  <2>8. TriedAgain'
    BY <1>1, <2>2, <2>3, <2>6 DEF TriedAgain
  <2>9. QED
    BY <2>4, <2>5, <2>7, <2>8
<1>4. QED
  BY <1>2, <1>3 DEF Delete

LEMMA MarkPeace ==
    ASSUME Inv, InPeace, NEW n \in todo, Mark(n)
    PROVE  InPeace'
<1>1. UNCHANGED <<diskVars, manager, quota, writer, job, pass, target, listed, reach, disturbed>>
  BY DEF Mark
<1>2. files' = files /\ stored' = stored
  BY <1>1 DEF diskVars
<1>3. CASE Spared(n) /\ versions' = versions /\ view' = view
  BY <1>1, <1>2, <1>3, SparedPeace
<1>4. CASE /\ versions' = MarkedAll(n) \/ versions' = versions
           /\ view' = MarkedAll(n)
           /\ todo' = todo \ {n}
           /\ Turns("delete")
           /\ live' = live
  <2>1. SUFFICES ASSUME Alone
                 PROVE  /\ Quiet' /\ SeenAsIs' /\ LockedView'
                        /\ Sheltered' /\ Pointed' /\ Emptied' /\ TriedAgain'
    BY <1>1 DEF InPeace, Alone
  <2>2. /\ Quiet /\ SeenAsIs /\ LockedView
        /\ Sheltered /\ Pointed /\ Emptied /\ TriedAgain
        /\ pass # None
    BY <2>1 DEF InPeace, Alone
  <2>3. /\ versions \in [Schemas -> Seq(Version)]
        /\ target \in Schemas /\ pass \in Kinds
        /\ \A s \in Schemas :
            /\ DOMAIN versions'[s] = DOMAIN versions[s]
            /\ DOMAIN view'[s] = DOMAIN versions[s]
    BY <1>4, MarkFacts
  <2>4. \A s \in Schemas : \A m \in DOMAIN versions[s], k \in Kinds :
          /\ versions'[s][m].part[k].resource = versions[s][m].part[k].resource
          /\ versions'[s][m].part[k].file = versions[s][m].part[k].file
          /\ view'[s][m].part[k].resource = versions[s][m].part[k].resource
          /\ view'[s][m].part[k].file = versions[s][m].part[k].file
    BY <1>4, MarkFacts
  <2>5. \A s \in Schemas : \A m \in DOMAIN versions[s], k \in Kinds :
          ~(s = target /\ m = n /\ k = pass) =>
              /\ versions'[s][m].part[k].state = versions[s][m].part[k].state
              /\ view'[s][m].part[k].state = versions[s][m].part[k].state
    BY <1>4, MarkFacts
  <2>6. \A s \in Schemas : \A m \in DOMAIN versions[s], k \in Kinds :
          versions'[s][m].part[k].state # "deleted" => versions[s][m].part[k].state # "deleted"
    BY <1>4, MarkFacts
  <2>7. Quiet'
    BY <1>1, <2>2 DEF Quiet, Working
  <2>8. SeenAsIs'
    BY <2>3, <2>4 DEF SeenAsIs
  <2>9. LockedView'
    <3>1. pass = "graphrag" => "ontology" # pass
      OBVIOUS
    <3>2. QED
      BY <1>1, <2>3, <2>5, <3>1, Distinct DEF LockedView
  <2>10. Sheltered'
    <3>1. SUFFICES ASSUME NEW s \in Schemas, NEW m \in DOMAIN versions[s],
                          versions'[s][m].part[pass].state # "deleted",
                          ~(s = target /\ m \in listed)
                   PROVE  versions'[s][m].part[pass].resource \in live \cup {None}
      BY <1>1, <1>4, <2>3 DEF Sheltered
    <3>2. QED
      BY <2>2, <2>3, <2>4, <2>6, <3>1 DEF Sheltered
  <2>11. Pointed'
    <3>1. SUFFICES ASSUME NEW x \in live
                   PROVE  \E s \in Schemas : \E m \in DOMAIN versions'[s] :
                            /\ versions'[s][m].part[pass].resource = x
                            /\ versions'[s][m].part[pass].state # "deleted"
                            /\ ~(s = target /\ m \in todo \ {n})
      BY <1>1, <1>4 DEF Pointed
    <3>2. PICK s \in Schemas :
            \E m \in DOMAIN versions[s] :
               /\ versions[s][m].part[pass].resource = x
               /\ versions[s][m].part[pass].state # "deleted"
               /\ ~(s = target /\ m \in todo)
      BY <2>2 DEF Pointed
    <3>3. PICK m \in DOMAIN versions[s] :
            /\ versions[s][m].part[pass].resource = x
            /\ versions[s][m].part[pass].state # "deleted"
            /\ ~(s = target /\ m \in todo)
      BY <3>2
    <3>4. ~(s = target /\ m = n /\ pass = pass)
      BY <3>3
    <3>5. /\ m \in DOMAIN versions'[s]
          /\ versions'[s][m].part[pass].resource = x
          /\ versions'[s][m].part[pass].state # "deleted"
      BY <2>3, <2>4, <2>5, <3>3, <3>4
    <3>6. QED
      BY <3>3, <3>5
  <2>12. Emptied'
    BY <1>4 DEF Emptied, Turns
  <2>13. TriedAgain'
    <3>1. ASSUME NEW m \in listed
          PROVE  Doomed(m)'.resource = Doomed(m).resource
      <4>1. /\ m \in DOMAIN versions[target]
            /\ Doomed(m).resource = versions[target][m].part[pass].resource
        BY <2>2, <3>1, DoomedIs
      <4>2. view'[target][m].part[pass].resource = versions[target][m].part[pass].resource
        BY <2>3, <2>4, <4>1
      <4>3. QED
        BY <1>1, <4>1, <4>2 DEF Doomed
    <3>2. (reach /\ Doomed(n).resource \in stored) => Doomed(n).resource \in live
      BY <2>2 DEF Emptied, Mark
    <3>3. QED
      BY <1>1, <1>2, <1>4, <2>2, <3>1, <3>2 DEF TriedAgain
  <2>14. QED
    BY <2>7, <2>8, <2>9, <2>10, <2>11, <2>12, <2>13
<1>5. QED
  BY <1>3, <1>4, MarkHistories

LEMMA StepPeace ==
    ASSUME Inv, InPeace, [Next]_vars
    PROVE  InPeace'
<1>1. CASE \E s \in Schemas : Discover(s)
  BY <1>1, DiscoverPeace
<1>2. CASE \E j \in Jobs : JobNext(j)
  BY <1>2, ProducerDisturbs DEF InPeace
<1>3. CASE (\E s \in Schemas : BeginCleanup(s)) \/ PruneOntologies
  BY <1>3, BeginCleanupPeace, PrunePeace
<1>4. CASE \E n \in todo : Delete(n) \/ Mark(n)
  BY <1>4, DeletePeace, MarkPeace
<1>5. CASE CancelCleanup
  <2>1. /\ UNCHANGED <<passVars, target, disturbed, diskVars, job>>
        /\ writer' # Cleaner /\ versions' = versions
    BY <1>5, Distinct DEF CancelCleanup, runVars
  <2>2. QED
    BY <2>1, SameExtends, PeaceExtends
<1>6. CASE EndCleanup \/ Restart
  BY <1>6 DEF EndCleanup, Restart, NoRun, InPeace, Alone
<1>7. CASE UNCHANGED vars
  <2>1. /\ UNCHANGED <<passVars, target, disturbed, diskVars, job>>
        /\ UNCHANGED <<versions, writer>>
    BY <1>7 DEF vars, runVars
  <2>2. QED
    BY <2>1, SameExtends, PeaceExtends
<1>8. QED
  BY <1>1, <1>2, <1>3, <1>4, <1>5, <1>6, <1>7 DEF Next, CleanupNext

PassInv == Inv /\ KindsApart /\ Enough /\ InPeace

LEMMA StepKeepsPasses ==
    ASSUME PassInv, [Next]_vars
    PROVE  PassInv'
BY StepKeeps, StepKinds, StepEnough, StepPeace DEF PassInv

LEMMA InitPassInv == Init => PassInv
<1> SUFFICES ASSUME Init PROVE PassInv
  OBVIOUS
<1>1. Inv
  BY InitInv
<1>2. \A s \in Schemas : OwnKinds(versions[s])
  <2>1. SUFFICES ASSUME NEW s \in Schemas, NEW n \in DOMAIN versions[s], NEW k \in Kinds
                 PROVE  versions[s][n].part[k].resource \in ResourcesOf(k) \cup {None}
    BY DEF OwnKinds
  <2>2. /\ versions[s][n].part["graphrag"].resource \in {None} \cup {Collection(t) : t \in Schemas}
        /\ versions[s][n].part["ontology"].resource \in {None} \cup Graphs
    BY PastAssumption DEF Init
  <2>3. QED
    BY <2>2 DEF Kinds, ResourcesOf
<1>3. KindsApart /\ Enough /\ InPeace
  BY <1>2 DEF Init, KindsApart, Enough, InPeace, Alone
<1>4. QED
  BY <1>1, <1>3 DEF PassInv

(* What a cleanup knows is good, whoever is at work, and what it protects  *)
(* is what must be protected, unless a producer was at work.               *)
THEOREM PassInvariant == Spec => []PassInv
<1>1. PassInv /\ [Next]_vars => PassInv'
  BY StepKeepsPasses
<1>2. QED
  BY InitPassInv, <1>1, PTL DEF Spec

-----------------------------------------------------------------------------
(* What follows of a step.                                                 *)

(* Only a pass that marks a version gives up its record.                   *)
LEMMA OnlyMarksDelete ==
    ASSUME Inv, [Next]_vars, NEW r \in Records, Deletes(r)
    PROVE  \E n \in todo :
             /\ Mark(n)
             /\ r[1] = target /\ r[2] = n /\ r[3] = pass
             /\ versions' = MarkedAll(n)
<1>1. /\ versions \in [Schemas -> Seq(Version)]
      /\ r[1] \in Schemas /\ r[2] \in DOMAIN versions[r[1]] /\ r[3] \in Kinds
  BY RecordFacts DEF Inv, HistoryTyped
<1>2. /\ versions[r[1]][r[2]].part[r[3]].state # "deleted"
      /\ versions'[r[1]][r[2]].part[r[3]].state = "deleted"
  BY DEF Deletes, Rec
<1>3. CASE \E s \in Schemas : Discover(s)
  <2>1. PICK s \in Schemas : Discover(s)
    BY <1>3
  <2>2. PICK h \in Histories(s, Known(s)) :
          h \in Seq(Version) /\ versions' = [versions EXCEPT ![s] = Opened(h)]
    BY <1>2, <2>1, Discovered
  <2>3. r[1] = s /\ versions'[s] = Opened(h)
    BY <1>1, <1>2, <2>2
  <2>4. h = versions[s]
    <3>1. versions[s] # <<>>
      BY <1>1, <2>3
    <3>2. QED
      BY <1>1, <3>1, HistoriesAreHistories DEF Inv, DiskTyped
  <2>5. Extended(h, Opened(h))
    BY <2>2, OpenedExtends
  <2>6. QED
    BY <1>1, <1>2, <2>3, <2>4, <2>5 DEF Extended
<1>4. CASE \E j \in Jobs : JobNext(j)
  <2>1. SameStates(versions[r[1]], versions'[r[1]])
    BY <1>1, <1>4, JobStepProduces DEF Produces, Refills
  <2>2. QED
    BY <1>1, <1>2, <2>1 DEF SameStates
<1>5. CASE \E n \in todo : Mark(n)
  <2>1. PICK n \in todo : Mark(n)
    BY <1>5
  <2>2. versions' = MarkedAll(n)
    BY <1>2, <2>1, MarkHistories
  <2>3. r[1] = target /\ r[2] = n /\ r[3] = pass
    BY <1>1, <1>2, <2>2, MarkFacts, SMTT(30)
  <2>4. QED
    BY <2>1, <2>2, <2>3
<1>6. CASE versions' = versions
  BY <1>2, <1>6
<1>7. CleanupNext => (\E n \in todo : Mark(n)) \/ versions' = versions
  BY DEF CleanupNext, BeginCleanup, Delete, PruneOntologies, CancelCleanup, EndCleanup
<1>8. Restart \/ UNCHANGED vars => versions' = versions
  BY DEF Restart, vars
<1>9. QED
  BY <1>3, <1>4, <1>5, <1>6, <1>7, <1>8 DEF Next

(* Only a pass deletes a collection or a graph.                            *)
LEMMA OnlyPassesDelete ==
    ASSUME Inv, [Next]_vars, NEW x \in stored \ stored'
    PROVE  \E n \in todo :
             /\ pass # None /\ reach
             /\ x = Doomed(n).resource /\ x \notin live
<1>1. ASSUME NEW n \in todo, Delete(n)
      PROVE  pass # None /\ reach /\ x = Doomed(n).resource /\ x \notin live
  <2>1. x \in ResourceOf(n)
    BY <1>1 DEF Delete, Deleted, DeletionFails
  <2>2. QED
    BY <2>1, NextDoomed DEF ResourceOf
<1>2. \E n \in todo : Delete(n)
  <2>1. ~ stored \subseteq stored'
    OBVIOUS
  <2>2. \A s \in Schemas : Discover(s) => stored' = stored
    BY DEF Discover, diskVars
  <2>3. \A j \in Jobs : JobNext(j) => stored \subseteq stored'
    BY DEF JobNext, InitializeGraphRAG, GenerateOntology, StoreOntologyInRDF, Index,
           SaveSnapshot, RecordIndex, Chain, WriteOntology, LoadOntology, RecordOntology,
           RecordGraph, GiveUp, diskVars
  <2>4. CleanupNext => (\E n \in todo : Delete(n)) \/ stored' = stored
    BY DEF CleanupNext, BeginCleanup, Mark, PruneOntologies, CancelCleanup, EndCleanup, diskVars
  <2>5. Restart \/ UNCHANGED vars => stored' = stored
    BY DEF Restart, vars, diskVars
  <2>6. QED
    BY <2>1, <2>2, <2>3, <2>4, <2>5 DEF Next
<1>3. QED
  BY <1>1, <1>2

LEMMA DeletingLeavesEnough ==
    ASSUME PassInv, [Next]_vars, NEW r \in Records, Deletes(r)
    PROVE  Cardinality(InState(versions[r[1]], r[3], "archived")') >= MinVersions
<1>1. PICK n \in todo :
        /\ Mark(n)
        /\ r[1] = target /\ r[2] = n /\ r[3] = pass
        /\ versions' = MarkedAll(n)
  BY OnlyMarksDelete DEF PassInv
<1>2. Inv /\ Inv' /\ Cardinality(InState(versions[target], pass, "archived") \ todo) >= MinVersions
  BY StepKeeps DEF PassInv, Enough
<1>3. InState(versions[target], pass, "archived") \ todo
        \subseteq InState(versions'[target], pass, "archived")
  BY <1>1, <1>2, MarkFacts DEF InState
<1>4. IsFiniteSet(InState(versions'[target], pass, "archived"))
  BY <1>2, NextDoomed, FiniteArchive DEF Inv, HistoryTyped
<1>5. Cardinality(InState(versions'[target], pass, "archived")) >= MinVersions
  BY <1>2, <1>3, <1>4, MoreIsEnough
<1>6. InState(versions[r[1]], r[3], "archived")' = InState(versions'[target], pass, "archived")
  BY <1>1 DEF Mark
<1>7. QED
  BY <1>5, <1>6

LEMMA DeletingIsListed ==
    ASSUME PassInv, [Next]_vars, NEW r \in Kept, Rec(r).resource \in stored \ stored',
           ~disturbed
    PROVE  Listed(r)
<1> DEFINE x == Rec(r).resource
<1>1. PICK n \in todo :
        /\ pass # None /\ reach
        /\ x = Doomed(n).resource /\ x \notin live
  BY OnlyPassesDelete DEF PassInv
<1>2. Inv /\ KindsApart /\ SeenAsIs /\ Sheltered
  BY <1>1 DEF PassInv, InPeace, Alone
<1>3. /\ r \in Records /\ r[1] \in Schemas /\ r[2] \in DOMAIN versions[r[1]] /\ r[3] \in Kinds
      /\ x = versions[r[1]][r[2]].part[r[3]].resource
      /\ versions[r[1]][r[2]].part[r[3]].state # "deleted"
  BY <1>2, RecordFacts DEF Kept, Rec, Inv, HistoryTyped
<1>4. x # None
  BY HistoryAssumption, <1>2 DEF Inv, DiskTyped
<1>5. /\ n \in listed /\ target \in Schemas /\ pass \in Kinds /\ n \in DOMAIN versions[target]
      /\ x = versions[target][n].part[pass].resource
  BY <1>1, <1>2, NextDoomed, DoomedIs
<1> HIDE DEF x
<1>6. x \in ResourcesOf(r[3]) /\ x \in ResourcesOf(pass)
  <2>1. \A s \in Schemas : \A m \in DOMAIN versions[s], k \in Kinds :
          versions[s][m].part[k].resource \in ResourcesOf(k) \cup {None}
    BY <1>2 DEF KindsApart, OwnKinds
  <2>2. versions[r[1]][r[2]].part[r[3]].resource \in ResourcesOf(r[3]) \cup {None}
    BY <1>3, <2>1
  <2>3. versions[target][n].part[pass].resource \in ResourcesOf(pass) \cup {None}
    BY <1>5, <2>1
  <2>4. QED
    BY <1>3, <1>4, <1>5, <2>2, <2>3
<1>7. r[3] = pass
  BY <1>3, <1>5, <1>6, OneKind
<1>8. r[1] = target /\ r[2] \in listed
  BY <1>1, <1>2, <1>3, <1>4, <1>7 DEF Sheltered
<1>9. QED
  BY <1>7, <1>8 DEF Listed

LEMMA TriedIsSpared ==
    ASSUME PassInv, [Next]_vars, ~disturbed
    PROVE  Failed \cap stored \subseteq stored'
<1>1. SUFFICES ASSUME NEW x \in Failed, x \in stored \ stored' PROVE FALSE
  OBVIOUS
<1>2. PICK n \in todo : pass # None /\ reach /\ x = Doomed(n).resource /\ x \notin live
  BY <1>1, OnlyPassesDelete DEF PassInv
<1>3. TriedAgain
  BY <1>2 DEF PassInv, InPeace, Alone
<1>4. PICK m \in listed \ todo : x = Doomed(m).resource
  BY <1>1 DEF Failed
<1>5. QED
  BY <1>1, <1>2, <1>3, <1>4 DEF TriedAgain

LEMMA MarkedIsEmpty ==
    ASSUME PassInv, [Next]_vars, NEW r \in Records, Deletes(r), ~disturbed, reach
    PROVE  /\ Rec(r).file \notin files
           /\ Rec(r).resource \in stored => Referred(Rec(r).resource)'
<1>1. PICK n \in todo :
        /\ Mark(n)
        /\ r[1] = target /\ r[2] = n /\ r[3] = pass
        /\ versions' = MarkedAll(n)
  BY OnlyMarksDelete DEF PassInv
<1>2. Inv /\ pass # None /\ n \in listed
  BY NextDoomed DEF PassInv
<1>3. SeenAsIs /\ Pointed /\ Emptied
  BY <1>2 DEF PassInv, InPeace, Alone
<1>4. /\ target \in Schemas /\ pass \in Kinds /\ n \in DOMAIN versions[target]
      /\ Rec(r).resource = Doomed(n).resource
      /\ Rec(r).file = Doomed(n).file
  BY <1>1, <1>2, <1>3, DoomedIs DEF Rec
<1>5. /\ FilesOf(n) \cap files = {}
      /\ Doomed(n).resource \in stored => Doomed(n).resource \in live
  BY <1>1, <1>3 DEF Emptied, Mark
<1>6. Rec(r).file \notin files
  <2>1. CASE Rec(r).file = None
    BY <1>2, <2>1, HistoryAssumption DEF Inv, DiskTyped
  <2>2. CASE Rec(r).file # None
    <3>1. Doomed(n).file \in FilesOf(n)
      BY <1>4, <2>2 DEF FilesOf
    <3>2. QED
      BY <1>4, <1>5, <3>1
  <2>3. QED
    BY <2>1, <2>2
<1>7. ASSUME Rec(r).resource \in stored
      PROVE  Referred(Rec(r).resource)'
  <2> DEFINE x == Rec(r).resource
  <2>1. PICK s \in Schemas :
          \E m \in DOMAIN versions[s] :
             /\ versions[s][m].part[pass].resource = x
             /\ versions[s][m].part[pass].state # "deleted"
             /\ ~(s = target /\ m \in todo)
    BY <1>3, <1>4, <1>5, <1>7 DEF Pointed
  <2>2. PICK m \in DOMAIN versions[s] :
          /\ versions[s][m].part[pass].resource = x
          /\ versions[s][m].part[pass].state # "deleted"
          /\ ~(s = target /\ m \in todo)
    BY <2>1
  <2>3. /\ m \in DOMAIN versions'[s]
        /\ versions'[s][m].part[pass].resource = x
        /\ versions'[s][m].part[pass].state # "deleted"
    BY <1>1, <1>2, <1>4, <2>2, MarkFacts
  <2>4. versions'[target][n].part[pass].resource = x
    BY <1>1, <1>2, <1>4, MarkFacts DEF Rec
  <2>5. Rec(r)'.resource = x
    BY <1>1, <2>4 DEF Rec
  <2>6. PICK q \in Records' : q = <<s, m, pass>>
    <3>1. <<s, m, pass>> \in {s} \X (DOMAIN versions'[s]) \X Kinds
      BY <1>4, <2>3
    <3>2. <<s, m, pass>> \in Records'
      BY <3>1 DEF Records
    <3>3. QED
      BY <3>2
  <2>7. Rec(q)'.resource = x /\ Rec(q)'.state # "deleted"
    BY <2>3, <2>6 DEF Rec
  <2>8. q \in Kept'
    BY <2>7 DEF Kept
  <2>9. \E p \in Kept' : Rec(p)'.resource = Rec(r)'.resource
    BY <2>5, <2>7, <2>8
  <2>10. QED
    BY <2>9 DEF Referred
<1>8. QED
  BY <1>6, <1>7

-----------------------------------------------------------------------------
(* The properties.                                                         *)

(* At least min_versions stay in the archive when a version is deleted,    *)
(* whoever is at work; and what a version points at that the pass leaves   *)
(* alone survives it, unless a producer was at work.                       *)
THEOREM PassesKeep == Spec => PassKeeps
<1>1. PassInv /\ [Next]_vars =>
        [\A r \in Records : Deletes(r) =>
            Cardinality(InState(versions[r[1]], r[3], "archived")') >= MinVersions]_vars
  BY DeletingLeavesEnough
<1>2. PassInv /\ [Next]_vars =>
        [\A r \in Kept :
            (Rec(r).resource \in stored \ stored' /\ ~disturbed) => Listed(r)]_vars
  BY DeletingIsListed
<1>3. Spec => EnoughKept
  BY <1>1, PassInvariant, PTL DEF Spec, EnoughKept
<1>4. Spec => UndisturbedKeeps
  BY <1>2, PassInvariant, PTL DEF Spec, UndisturbedKeeps
<1>5. QED
  BY <1>3, <1>4 DEF PassKeeps

(* A version that is marked deleted leaves nothing behind that no other    *)
(* version points at, and what one that could not be deleted points at     *)
(* survives the pass, unless a producer was at work.                       *)
THEOREM PassesAreThorough == Spec => PassIsThorough
<1>1. PassInv /\ [Next]_vars => [~disturbed => Failed \cap stored \subseteq stored']_vars
  BY TriedIsSpared
<1>2. PassInv /\ [Next]_vars =>
        [\A r \in Records :
            (Deletes(r) /\ ~disturbed /\ reach) =>
                /\ Rec(r).file \notin files
                /\ Rec(r).resource \in stored => Referred(Rec(r).resource)']_vars
  BY MarkedIsEmpty
<1>3. Spec => FailedKept
  BY <1>1, PassInvariant, PTL DEF Spec, FailedKept
<1>4. Spec => NothingLeft
  BY <1>2, PassInvariant, PTL DEF Spec, NothingLeft
<1>5. QED
  BY <1>3, <1>4 DEF PassIsThorough
=============================================================================
