----------------------------- MODULE Retention -----------------------------
(***************************************************************************)
(* cleanup_old_versions among the producers of the versions it prunes.     *)
(*                                                                         *)
(* discover_schema, generate_ontology, store_ontology_in_rdf and the       *)
(* cleanup hold the connection's writer lock; GraphRAG indexing and the    *)
(* background generation of an ontology do not, and finish when they may.  *)
(* A tool under the lock is taken for the job it does: the job holds the   *)
(* lock until it ends.                                                     *)
(*                                                                         *)
(* A cleanup that is cancelled lets go of the lock, but not of the thread  *)
(* that is deleting or marking a version: that goes on to its end.  (The   *)
(* next cleanup is taken to begin after it.)                               *)
(*                                                                         *)
(* The workspace sections of metadata.json are left out: whether an        *)
(* ontology is still current when it is loaded and flagged is left open.   *)
(* A dry run changes nothing and is left out too.                          *)
(***************************************************************************)
EXTENDS VersionHistory

CONSTANTS
    Pasts,        (* histories the server may find on disk when it starts   *)
    Legacy,       (* schemas with an ontology from before version recording *)
    Jobs,         (* runs of a producer that are in flight at once          *)
    Quotas        (* bound: how many versions are opened, and how often a   *)
                  (* producer, a cleanup and the server are started         *)

(* initialize_graphrag, and indexing in the background.                    *)
Indexers == {"initialize", "index"}

Tasks == Indexers \cup {"auto", "generate", "store"}
Starts == Tasks \cup {"version", "cleanup", "server"}

Cleaner == "cleaner"

ASSUME RetentionAssumption ==
    /\ Pasts \subseteq [Schemas -> Seq(Version)]
    /\ Legacy \subseteq Schemas
    /\ None \notin Jobs /\ Cleaner \notin Jobs \cup {None}
    /\ None \notin Schemas \cup Kinds
    /\ Quotas \in [Pasts -> SUBSET [Starts -> Nat]]

(* The histories found are such as the server leaves behind.               *)
ASSUME PastAssumption ==
    \A past \in Pasts, s \in Schemas : \A n \in DOMAIN past[s] :
        /\ past[s][n].part["graphrag"].file \in {None, File("graphrag", s, n)}
        /\ past[s][n].part["graphrag"].resource \in {None} \cup {Collection(t) : t \in Schemas}
        /\ past[s][n].part["ontology"].resource \in {None} \cup Graphs

VARIABLES
    files,        (* what the connection's directory holds                  *)
    stored,       (* the collections and named graphs that exist            *)
    manager,      (* the collection of the live GraphRAGManager             *)
    quota,        (* how often each may yet start                           *)
    writer,       (* who holds the writer lock                              *)
    job,          (* the producers                                          *)
    pass,         (* what the cleanup is pruning, if it is under way        *)
    target,       (* the schema it prunes                                   *)
    view,         (* DataCleanupManager.metadata_mgr.metadata               *)
    listed,       (* versions_to_delete                                     *)
    todo,         (* those of them still to come                            *)
    live,         (* live_collections, live_graphs                          *)
    reach,        (* the store of the pass can be deleted from              *)
    spot,         (* what its thread is about to do with the next version:  *)
                  (* "delete" it, "mark" it or, as it is "over", neither    *)
    disturbed     (* a producer was at work during this cleanup, or a       *)
                  (* history was begun with an ontology from before         *)

diskVars == <<files, stored>>
passVars == <<pass, view, listed, todo, live, reach, spot>>
runVars == <<passVars, target, disturbed>>

vars == <<versions, diskVars, manager, quota, writer, job, runVars>>

(* Producers: the task, where it is, the schema, and the version it was    *)
(* started for (0: none); the ontology file and the graph it is about.     *)
NoJob == [task |-> "none", at |-> "idle", schema |-> None, version |-> 0,
          file |-> None, graph |-> None]

Started(task, at, s, n) ==
    [task |-> task, at |-> at, schema |-> s, version |-> n, file |-> None, graph |-> None]

(* The records of all versions, by schema, number and kind.                *)
Records == UNION {{s} \X (DOMAIN versions[s]) \X Kinds : s \in Schemas}

Rec(r) == versions[r[1]][r[2]].part[r[3]]

Init ==
    /\ versions \in Pasts
    /\ files = ({File("ontology", s, 0) : s \in Legacy}
                    \cup {Rec(r).file : r \in Records}) \ {None}
    /\ stored = {Rec(r).resource : r \in Records} \ {None}
    /\ manager = None
    /\ quota \in Quotas[versions]
    /\ writer = None
    /\ job = [j \in Jobs |-> NoJob]
    /\ pass = None
    /\ view = [s \in Schemas |-> <<>>]
    /\ listed = {}
    /\ todo = {}
    /\ live = {}
    /\ reach = FALSE
    /\ spot = "delete"
    /\ target = None
    /\ disturbed = FALSE

-----------------------------------------------------------------------------
(* discover_schema: the version is opened, and indexing may start for it.  *)
(* A save that fails answers the number all the same; if not even a file   *)
(* to save to can be made, there is no number.                             *)

Working(j) == job[j].task # "none"

Spend(S) ==
    /\ \A what \in S : quota[what] > 0
    /\ quota' = [what \in Starts |-> quota[what] - (IF what \in S THEN 1 ELSE 0)]

Start(j, run) ==
    /\ ~Working(j)
    /\ job' = [job EXCEPT ![j] = run]
    /\ disturbed' = (disturbed \/ pass # None)

Known(s) == {None} \cup (files \cap {File("ontology", s, 0)})

Discover(s) ==
    /\ writer = None
    /\ \E h \in Histories(s, Known(s)), new \in SUBSET {"version"} :
     \E n \in {Len(h) + 1} \cup (IF new = {} THEN {0} ELSE {}) :
        /\ versions' = IF new = {} THEN versions ELSE [versions EXCEPT ![s] = Opened(h)]
        /\ \/ /\ Spend(new)
              /\ disturbed' = (disturbed \/ (pass # None /\ new # {} /\ h # versions[s]))
              /\ job' = job
           \/ \E j \in Jobs :
                Start(j, Started("index", "make", s, n)) /\ Spend(new \cup {"index"})
    /\ UNCHANGED <<diskVars, manager, writer, passVars, target>>

-----------------------------------------------------------------------------
(* Producers, in general.                                                  *)

Steps(j, tasks, at) == job[j].task \in tasks /\ job[j].at = at

Goes(j, at) == job' = [job EXCEPT ![j].at = at]

(* With a job the tool ends that held the lock for it.                     *)
Ends(j) ==
    /\ job' = [job EXCEPT ![j] = NoJob]
    /\ writer' = IF writer = j THEN None ELSE writer

(* The version it is for: the current one, unless that cannot be read.     *)
Captured(s) == {0} \cup Current(versions[s])

Saved(all) == versions' = all \/ UNCHANGED versions

(* It fails, or is cancelled, or what it made has been superseded.         *)
GiveUp(j) ==
    /\ Working(j)
    /\ Ends(j)
    /\ UNCHANGED <<versions, diskVars, manager, quota, runVars>>

-----------------------------------------------------------------------------
(* GraphRAG indexing, in the background or by initialize_graphrag.         *)

InitializeGraphRAG(j, s) ==
    /\ \E n \in Captured(s) : Start(j, Started("initialize", "make", s, n))
    /\ Spend({"initialize"})
    /\ UNCHANGED <<versions, diskVars, manager, writer, passVars, target>>

(* The first schema of a connection makes the manager and its collection;  *)
(* the others are added to it.                                             *)
Index(j) ==
    /\ Steps(j, Indexers, "make")
    /\ \/ manager = None /\ manager' = Collection(job[j].schema)
       \/ manager \in stored /\ manager' = manager
    /\ stored' = stored \cup {manager'}
    /\ Goes(j, "save")
    /\ UNCHANGED <<versions, files, quota, writer, runVars>>

(* Without a version there is no snapshot of one, and nothing to record.   *)
SaveSnapshot(j) ==
    /\ Steps(j, Indexers, "save")
    /\ IF job[j].version = 0
       THEN Goes(j, "chain") /\ files' = files
       ELSE /\ Goes(j, "record")
            /\ files' = files \cup {File("graphrag", job[j].schema, job[j].version)}
    /\ UNCHANGED <<versions, stored, manager, quota, writer, runVars>>

RecordIndex(j) ==
    /\ Steps(j, Indexers, "record")
    /\ LET s == job[j].schema
           n == job[j].version
       IN Saved([versions EXCEPT ![s] =
              Filled(@, n, "graphrag",
                     [file |-> File("graphrag", s, n), resource |-> manager])])
    /\ Goes(j, "chain")
    /\ UNCHANGED <<diskVars, manager, quota, writer, runVars>>

(* The background task goes on to generate the ontology, for the same version.        *)
Chain(j) ==
    /\ Steps(j, {"index"}, "chain")
    /\ job' = [job EXCEPT ![j] = Started("auto", "make", @.schema, @.version)]
    /\ Spend({"auto"})
    /\ UNCHANGED <<versions, diskVars, manager, writer, runVars>>

-----------------------------------------------------------------------------
(* Ontologies: generated in the background, by generate_ontology, or       *)
(* stored by store_ontology_in_rdf.                                        *)

GenerateOntology(j, s) ==
    /\ writer = None
    /\ writer' = j
    /\ \E n \in Captured(s), g \in Graphs \cup {None} :
        Start(j, [Started("generate", "make", s, n) EXCEPT !.graph = g])
    /\ Spend({"generate"})
    /\ UNCHANGED <<versions, diskVars, manager, passVars, target>>

(* A session may have any generation's file as its ontology.               *)
StoreOntologyInRDF(j, s) ==
    /\ writer = None
    /\ writer' = j
    /\ \E n \in Captured(s), f \in files :
        /\ f[1] = "ontology" /\ f[2] = s
        /\ Start(j, [Started("store", "load", s, n) EXCEPT !.file = f])
    /\ Spend({"store"})
    /\ UNCHANGED <<versions, diskVars, manager, passVars, target>>

WriteOntology(j) ==
    /\ Steps(j, {"auto", "generate"}, "make")
    /\ LET f == File("ontology", job[j].schema, job[j].version)
       IN /\ files' = files \cup {f}
          /\ job' = [job EXCEPT ![j].file = f,
                  ![j].at = IF job[j].task = "auto" THEN "load" ELSE "record"]
    /\ UNCHANGED <<versions, stored, manager, quota, writer, runVars>>

(* In the background, a session that has left the connection, or has no    *)
(* store, loads nothing, and a load that fails is recorded like another.   *)
(* generate_ontology loads after it has recorded the file, and to a graph  *)
(* the caller may have named.                                              *)
LoadOntology(j) ==
    /\ Steps(j, {"auto", "generate", "store"}, "load")
    /\ LET next == IF job[j].task = "generate" THEN "count" ELSE "record"
       IN \/ \E g \in IF job[j].graph = None THEN Graphs ELSE {job[j].graph} :
                /\ \/ stored' = stored \cup {g}
                   \/ job[j].task = "auto" /\ stored' = stored
                /\ job' = [job EXCEPT ![j].graph = g, ![j].at = next]
          \/ job[j].task = "auto" /\ stored' = stored /\ Goes(j, next)
    /\ UNCHANGED <<versions, files, manager, quota, writer, runVars>>

(* The oldest of the superseded files is pruned, if there are more than    *)
(* ARTIFACT_KEEP_VERSIONS.                                                 *)
Prunable(j) ==
    {f \in files : f[1] = "ontology" /\ f[2] = job[j].schema} \ {job[j].file}

RecordOntology(j) ==
    /\ Steps(j, {"auto", "generate", "store"}, "record")
    /\ Saved([versions EXCEPT ![job[j].schema] =
            Filled(@, job[j].version, "ontology",
                   [file |-> job[j].file, resource |-> job[j].graph])])
    /\ \/ files' = files
       \/ /\ job[j].task # "store"
          /\ \E f \in Prunable(j) : files' = files \ {f}
    /\ IF job[j].task = "generate" THEN Goes(j, "load") /\ writer' = writer ELSE Ends(j)
    /\ UNCHANGED <<stored, manager, quota, runVars>>

RecordGraph(j) ==
    /\ Steps(j, {"generate"}, "count")
    /\ Saved([versions EXCEPT ![job[j].schema] =
            Filled(@, job[j].version, "ontology", [resource |-> job[j].graph])])
    /\ Ends(j)
    /\ UNCHANGED <<diskVars, manager, quota, runVars>>

-----------------------------------------------------------------------------
(* cleanup_old_versions.                                                   *)

(* The list of a pass and the references that must survive it are made     *)
(* once, from the history as the cleanup has it in view.                   *)
BeginPass(s, k, all) ==
    /\ pass' = k
    /\ view' = all
    /\ \E old \in 0..Len(all[s]) : listed' = ToCleanUp(all[s], k, old)
    /\ todo' = listed'
    /\ live' = Survivors(all, s, k, listed')
    /\ reach' \in BOOLEAN
    /\ spot' = "delete"

BeginCleanup(s) ==
    /\ writer = None
    /\ pass = None
    /\ writer' = Cleaner
    /\ target' = s
    /\ BeginPass(s, "graphrag", versions)
    /\ disturbed' = \E j \in Jobs : Working(j)
    /\ Spend({"cleanup"})
    /\ UNCHANGED <<versions, diskVars, manager, job>>

(* Oldest first.                                                           *)
IsNext(n) == n \in todo /\ \A m \in todo : n <= m

Doomed(n) == view[target][n].part[pass]

FilesOf(n) ==
    IF pass = "graphrag"
    THEN {IF Doomed(n).file = None THEN File(pass, target, n) ELSE Doomed(n).file}
    ELSE {Doomed(n).file} \ {None}

(* The session that asks may have no RDF store open, and then its graphs   *)
(* are passed over; so are collections if ChromaDB is not installed.       *)
ResourceOf(n) ==
    IF reach /\ Doomed(n).resource \notin live THEN {Doomed(n).resource} ELSE {}

(* What comes next, unless it was cancelled.                               *)
Turns(to) == spot' = IF writer = Cleaner THEN to ELSE "over"

(* A version that could not be deleted, or not be marked so, is kept: what *)
(* it refers to survives the rest of the pass.                             *)
Spared(n) ==
    /\ todo' = todo \ {n}
    /\ live' = live \cup ({Doomed(n).resource} \ {None})
    /\ Turns("delete")

(* Mutant: that the store refuses is not noticed.                          *)
DeletedAnyhow(n) ==
    /\ files' = files \ FilesOf(n)
    /\ stored' \in {stored, stored \ ResourceOf(n)}
    /\ Turns("mark")
    /\ UNCHANGED <<todo, live>>

Deleted(n) ==
    /\ files' = files \ FilesOf(n)
    /\ stored' = stored \ ResourceOf(n)
    /\ Turns("mark")
    /\ UNCHANGED <<todo, live>>

(* The collection goes before the files, and the file before the graph.    *)
DeletionFails(n) ==
    /\ \/ files' = files /\ stored' = stored
       \/ pass = "graphrag" /\ files' = files /\ stored' = stored \ ResourceOf(n)
       \/ pass = "ontology" /\ files' = files \ FilesOf(n) /\ stored' = stored
    /\ Spared(n)

Delete(n) ==
    /\ spot = "delete"
    /\ IsNext(n)
    /\ Deleted(n) \/ DeletionFails(n)
    /\ UNCHANGED <<versions, manager, quota, writer, job, pass, target, view, listed, reach,
                   disturbed>>

(* Mutant: the history is not loaded again.                                *)
MarkInView(n) ==
    /\ spot = "mark"
    /\ IsNext(n)
    /\ LET marked == [view EXCEPT ![target] = Marked(@, n, pass)]
       IN Saved(marked) /\ view' = marked
    /\ todo' = todo \ {n}
    /\ Turns("delete")
    /\ UNCHANGED <<live, diskVars, manager, quota, writer, job, pass, target, listed, reach,
                   disturbed>>

(* The history is loaded again, marked and saved; the cleanup adopts it,   *)
(* saved or not.                                                           *)
Mark(n) ==
    /\ spot = "mark"
    /\ IsNext(n)
    /\ LET marked == [versions EXCEPT ![target] = Marked(@, n, pass)]
       IN \/ /\ Saved(marked)
             /\ view' = marked
             /\ todo' = todo \ {n}
             /\ Turns("delete")
             /\ live' = live
          \/ Spared(n) /\ UNCHANGED <<versions, view>>
    /\ UNCHANGED <<diskVars, manager, quota, writer, job, pass, target, listed, reach,
                   disturbed>>

PruneOntologies ==
    /\ writer = Cleaner
    /\ pass = "graphrag"
    /\ todo = {}
    /\ BeginPass(target, "ontology", view)
    /\ UNCHANGED <<versions, diskVars, manager, quota, writer, job, target, disturbed>>

NoRun ==
    /\ pass' = None
    /\ view' = [s \in Schemas |-> <<>>]
    /\ listed' = {}
    /\ todo' = {}
    /\ live' = {}
    /\ reach' = FALSE
    /\ spot' = "delete"
    /\ target' = None
    /\ disturbed' = FALSE

(* The request is cancelled, and its thread is not.                        *)
CancelCleanup ==
    /\ writer = Cleaner
    /\ todo # {}
    /\ writer' = None
    /\ UNCHANGED <<versions, diskVars, manager, quota, job, runVars>>

(* It is done, or cancelled where it has no thread, or its thread is done. *)
EndCleanup ==
    /\ pass # None
    /\ NoRun
    /\ writer' = IF writer = Cleaner THEN None ELSE writer
    /\ UNCHANGED <<versions, diskVars, manager, quota, job>>

(* The server stops and is started again: what is on disk is left.       *)
Restart ==
    /\ Spend({"server"})
    /\ NoRun
    /\ job' = [j \in Jobs |-> NoJob]
    /\ manager' = None
    /\ writer' = None
    /\ UNCHANGED <<versions, diskVars>>

-----------------------------------------------------------------------------
JobNext(j) ==
    \/ \E s \in Schemas :
        InitializeGraphRAG(j, s) \/ GenerateOntology(j, s) \/ StoreOntologyInRDF(j, s)
    \/ Index(j) \/ SaveSnapshot(j) \/ RecordIndex(j) \/ Chain(j)
    \/ WriteOntology(j) \/ LoadOntology(j) \/ RecordOntology(j) \/ RecordGraph(j)
    \/ GiveUp(j)

CleanupNext ==
    \/ \E s \in Schemas : BeginCleanup(s)
    \/ \E n \in todo : Delete(n) \/ Mark(n)
    \/ PruneOntologies
    \/ CancelCleanup
    \/ EndCleanup

Next ==
    \/ \E s \in Schemas : Discover(s)
    \/ \E j \in Jobs : JobNext(j)
    \/ CleanupNext
    \/ Restart

Spec == Init /\ [][Next]_vars

-----------------------------------------------------------------------------
(* Properties.                                                             *)

JobType ==
    [task : Tasks \cup {"none"},
     at : {"idle", "make", "save", "load", "record", "chain", "count"},
     schema : Schemas \cup {None}, version : Nat,
     file : Files \cup {None}, graph : Graphs \cup {None}]

TypeOK ==
    /\ versions \in [Schemas -> Seq(Version)]
    /\ files \subseteq Files
    /\ stored \subseteq Resources
    /\ manager \in Resources \cup {None}
    /\ quota \in [Starts -> Nat]
    /\ writer \in Jobs \cup {Cleaner, None}
    /\ job \in [Jobs -> JobType]
    /\ pass \in Kinds \cup {None}
    /\ target \in Schemas \cup {None}
    /\ view \in [Schemas -> Seq(Version)]
    /\ listed \subseteq Nat
    /\ todo \subseteq listed
    /\ live \subseteq Resources
    /\ reach \in BOOLEAN
    /\ spot \in {"delete", "mark", "over"}
    /\ disturbed \in BOOLEAN

Kept == {r \in Records : Rec(r).state # "deleted"}

Deletes(r) == Rec(r).state # "deleted" /\ Rec(r)'.state = "deleted"

Listed(r) == r[1] = target /\ r[2] \in listed /\ r[3] = pass

(* The history is only added to: no version is renumbered, none comes back *)
(* from the archive or from deletion, and the files recorded for it are    *)
(* not forgotten, whoever saves what he loaded when.                       *)
HistoryGrows ==
    [][\A r \in Records :
        /\ r \in Records'
        /\ versions'[r[1]][r[2]].status = "active" => versions[r[1]][r[2]].status = "active"
        /\ Rec(r)'.state = "active" => Rec(r).state = "active"
        /\ Rec(r).state = "deleted" => Rec(r)'.state = "deleted"
        /\ Rec(r).file # None => Rec(r)'.file # None]_vars

(* A version's snapshots are those of its own generation, also if another  *)
(* was opened while they were made.                                        *)
OwnSnapshots ==
    \A r \in Records :
        r[3] = "graphrag" => Rec(r).file \in {None, File("graphrag", r[1], r[2])}

(* A cleanup is about archived versions with keep_versions newer ones in   *)
(* the archive, and so never about the generation at work, however long it *)
(* takes to get to them.                                                   *)
RecentKept ==
    \A n \in todo :
        LET archived == InState(versions[target], pass, "archived")
        IN n \in archived /\ Cardinality({m \in archived : m > n}) >= Keep[pass]

(* "Always keep at least this many" (RetentionPolicy.min_versions): it     *)
(* holds of the archive whatever is kept by count.                         *)
EnoughKept ==
    [][\A r \in Records : Deletes(r) =>
        Cardinality(InState(versions[r[1]], r[3], "archived")') >= MinVersions]_vars

(* A collection or graph that a version refers to is not deleted by a pass *)
(* that leaves this version alone, whatever schema it is of.  (Unless a    *)
(* producer was at work meanwhile.)                                        *)
UndisturbedKeeps ==
    [][\A r \in Kept :
        (Rec(r).resource \in stored \ stored' /\ ~disturbed) => Listed(r)]_vars

(* What a version refers to survives the pass that failed to delete it:    *)
(* the record is good for another try.  (Unless a producer was at work     *)
(* meanwhile: it may make again what was deleted.)                         *)
Failed == {Doomed(n).resource : n \in {m \in listed \ todo : Doomed(m).state # "deleted"}}

FailedKept == [][~disturbed => Failed \cap stored \subseteq stored']_vars

(* A version marked deleted leaves nothing behind that no other version    *)
(* refers to: the record needed to try again is not given up before.       *)
(* (Unless a producer was at work meanwhile, or the store out of reach.)   *)
Referred(resource) == \E r \in Kept : Rec(r).resource = resource

NothingLeft ==
    [][\A r \in Records :
        (Deletes(r) /\ ~disturbed /\ reach) =>
            /\ Rec(r).file \notin files
            /\ Rec(r).resource \in stored => Referred(Rec(r).resource)']_vars

(* A pass keeps enough of the archive, and what it leaves alone points at. *)
PassKeeps == EnoughKept /\ UndisturbedKeeps

(* A pass gives up no record of what is still to be deleted, and deletes   *)
(* nothing that is still needed for another try.                           *)
PassIsThorough == FailedKept /\ NothingLeft

(* "A doomed version's resource is only safe to delete when nothing that   *)
(* survives the run points at it" (_surviving_references): without the     *)
(* proviso that no producer is at work.                                    *)
SurvivorsKept ==
    [][\A r \in Kept :
        Rec(r).resource \in stored \ stored' => Listed(r)]_vars

(* "leaving the current generation and recent history intact"              *)
(* (cleanup_old_versions): of the files, too, that the cleanup deletes     *)
(* with nobody else at work.                                               *)
HistoryIntact ==
    [][\A r \in Kept :
        (Rec(r).file \in files \ files' /\ ~disturbed /\ writer = Cleaner) => Listed(r)]_vars
=============================================================================
