--------------------------- MODULE GraphNavigation ---------------------------
(***************************************************************************)
(* One GraphRAG manager over its life: schemas are indexed and indexed     *)
(* again as the database changes, join paths are looked up (which caches   *)
(* the undirected graph), a session extends the graph with its ontology's  *)
(* relationships, and the state is saved and restored by a new process.    *)
(* GraphRAGIndex has the same operations run by concurrent tasks.          *)
(***************************************************************************)
EXTENDS GraphRAGManager

CONSTANTS
    Reports,        (* what a discovery may report                         *)
    Assertions,     (* relationships a session's own ontology asserts:     *)
                    (* records source, target (names), placed, columns     *)
    Schemas,        (* the schemas a session may work in                   *)
    MaxAlternatives,  (* find_alternative_join_paths: limit                *)
    MaxSteps        (* bound on the indexings of one behaviour             *)

ASSUME NavigationAssumption ==
    /\ MaxSteps \in Nat
    /\ MaxAlternatives \in Nat \ {0}
    /\ Schemas # {}
    /\ Reports \subseteq [schema : Name, tables : SUBSET Table, views : SUBSET Name]
    /\ \A report \in Reports : Discovered(report)
    /\ Assertions \in Seq([source : Name, column : Name, placed : Name, target : Name,
                           referenced : Name])

VARIABLES
    mgr,            (* the connection's manager                            *)
    vectors,        (* the elements of its collection                      *)
    latest,         (* ghost: the last report indexed for each schema      *)
    stranded,       (* ghost: tables whose vectors could not be deleted,   *)
                    (* or that the save a restart came back to has not     *)
    outside,        (* ghost: elements of keys to tables that were not in  *)
                    (* the graph when the key was reported, and are not    *)
    working,        (* the session's current schema                        *)
    overlay,        (* its extended graph per schema, and what each was    *)
                    (* made from                                           *)
    files,          (* what was saved                                      *)
    steps

vars == <<mgr, vectors, latest, stranded, outside, working, overlay, files, steps>>

NoOverlay == [made |-> FALSE, generation |-> 0, graph |-> EmptyGraph]
NoFiles == [combined |-> NoFile, bySchema |-> Nothing]

Init ==
    /\ mgr = NewManager(<<"s">>)
    /\ vectors = {}
    /\ latest = Nothing
    /\ stranded = {}
    /\ outside = {}
    /\ working = CHOOSE s \in Schemas : TRUE
    /\ overlay = [s \in Schemas |-> NoOverlay]
    /\ files = NoFiles
    /\ steps = 0

-----------------------------------------------------------------------------
Unplaced(elements, graph) == {e \in elements : e.detail \notin Nodes(graph)}

(* A discovery's report is indexed: the first one builds, later ones add.  *)
IndexSchema(report, deleteFails) ==
    /\ steps < MaxSteps
    /\ steps' = steps + 1
    /\ LET accumulate == mgr.ready
           dropped == Dropped(mgr, report)
       IN /\ mgr' = PublishSchema(mgr, report, accumulate)
          /\ vectors' = PublishVectors(mgr, vectors, report, deleteFails)
          /\ stranded' = (IF deleteFails THEN stranded \cup dropped ELSE stranded)
                         \ {Identity(t) : t \in report.tables}
          /\ outside' = Unplaced(outside \cup UNION {KeyElements(t) : t \in report.tables},
                                  mgr'.graph)
          /\ latest' = Over([s \in {report.schema} |-> report], latest)
    /\ UNCHANGED <<working, overlay, files>>

(* A join lookup leaves the undirected snapshot behind.                    *)
LookUp ==
    /\ mgr.ready
    /\ mgr.graph.snapshot.generation # mgr.graph.generation
    /\ mgr' = [mgr EXCEPT !.graph = Looked(@)]
    /\ UNCHANGED <<vectors, latest, stranded, outside, working, overlay, files, steps>>

(* Mutant: the copy is kept for good.                                      *)
ExtendedOnce ==
    IF overlay[working].made THEN overlay[working].graph
    ELSE WithRelationships(mgr.graph, Asserted(mgr.graph, Assertions, working))

(* _join_graph: the copy is kept with the current schema's ontology until  *)
(* the graph changes.                                                      *)
Extended ==
    IF overlay[working].made /\ overlay[working].generation = mgr.graph.generation
    THEN overlay[working].graph
    ELSE WithRelationships(mgr.graph, Asserted(mgr.graph, Assertions, working))

ReadExtended ==
    /\ mgr.ready
    /\ overlay' = [overlay EXCEPT ![working] =
                     [made |-> TRUE, generation |-> mgr.graph.generation, graph |-> Extended]]
    /\ UNCHANGED <<mgr, vectors, latest, stranded, outside, working, files, steps>>

(* set_current_schema                                                      *)
WorkIn(schema) ==
    /\ schema # working
    /\ working' = schema
    /\ UNCHANGED <<mgr, vectors, latest, stranded, outside, overlay, files, steps>>

Save ==
    /\ mgr.ready
    /\ LET captured == Captured(mgr)
       IN files' = [combined |-> captured,
                    bySchema |-> Over([s \in Range(mgr.names) |-> SchemaFile(captured, s)],
                                      files.bySchema)]
    /\ UNCHANGED <<mgr, vectors, latest, stranded, outside, working, overlay, steps>>

(* A new process restores what was saved.  The session's copy went with    *)
(* the old one.                                                            *)
Restart ==
    /\ files # NoFiles
    /\ steps < MaxSteps
    /\ steps' = steps + 1
    /\ mgr' = LoadState(NewManager(mgr.home), files)
    /\ latest' = [s \in DOMAIN latest |->
                    [latest[s] EXCEPT !.tables = {t \in files.combined.tables : t.schema = s}]]
    /\ stranded' = (stranded \cup Nodes(mgr.graph)) \ Nodes(mgr'.graph)
    /\ outside' = Unplaced(outside, mgr'.graph)
    /\ overlay' = [s \in Schemas |-> NoOverlay]
    /\ UNCHANGED <<vectors, working, files>>

Next ==
    \/ \E report \in Reports, deleteFails \in BOOLEAN :
         /\ deleteFails => Dropped(mgr, report) # {}
         /\ IndexSchema(report, deleteFails)
    \/ LookUp
    \/ ReadExtended
    \/ \E schema \in Schemas : WorkIn(schema)
    \/ Save
    \/ Restart

Spec == Init /\ [][Next]_vars

-----------------------------------------------------------------------------
(* The graph's tables are those the schemas' last reports name, and the    *)
(* indexes beside it (by bare name, by schema, by community) say the same: *)
(* a table that was dropped is gone from all of them, one that another     *)
(* schema also has is not (_publish_schema, add_to_graph, remove_tables).  *)
TablesAreThoseReported ==
    LET g == mgr.graph
        reported == UNION {{Identity(t) : t \in latest[s].tables} : s \in DOMAIN latest}
    IN /\ Nodes(g) = reported
       /\ mgr.communities = reported
       /\ UNION Range(g.members) = reported
       /\ \A id \in reported : \E n \in DOMAIN g.byName : id \in g.byName[n]
       /\ \A n \in DOMAIN g.byName :
            g.byName[n] # {} /\ \A id \in g.byName[n] : DisplayName(id) = n /\ id \in reported

(* Every edge is a key of the referencing table's last report: a           *)
(* constraint that was dropped takes its join paths with it, whatever was  *)
(* indexed in between (add_to_graph replaces a table's keys).  A key names *)
(* the bare name of the table it leads to, or its identity; an inferred    *)
(* one makes no edge where the same name has a declared one.               *)
EdgesAreReportedKeys ==
    \A e \in DOMAIN mgr.graph.edges :
       LET keys == Range(mgr.graph.tables[e[1]].fks)
           edge == mgr.graph.edges[e]
       IN /\ e[1] \in Nodes(mgr.graph) /\ e[2] \in Nodes(mgr.graph)
          /\ \E fk \in keys :
               /\ fk.table \in {DisplayName(e[2]), e[2]}
               /\ fk.column = edge.column /\ fk.referenced = edge.referenced
               /\ fk.inferred = edge.inferred
               /\ fk.inferred => \A k \in keys : k.table = fk.table => k.inferred

(* A key within a schema is never missing: only a key into a schema that   *)
(* was not yet indexed may be.                                             *)
LocalKeysHaveEdges ==
    \A id \in Nodes(mgr.graph) : \A fk \in Range(mgr.graph.tables[id].fks) :
       LET target == Qualified(mgr.graph.tables[id].schema, fk.table)
       IN target \in Nodes(mgr.graph) => << id, target >> \in DOMAIN mgr.graph.edges

(* find_join_path answers from the graph as it is now, however many times  *)
(* it was asked before: its path runs along present keys, no connection is *)
(* shorter, and there is one unless the tables are too far apart.          *)
JoinPathsAreShortest ==
    LET g == mgr.graph
        both == BothWays(DOMAIN g.edges)
    IN \A a, b \in Nodes(g) :
         LET true == ShortestPaths(Nodes(g), both, a, b)
         IN \A limit \in {1, 12} :
              LET near == {p \in true : Len(p) - 1 <= limit}
                  answers == JoinPaths(g, a, b, limit)
              IN answers \subseteq near /\ (near # {} => answers # {})

(* The paths reported beside the chosen one are others exactly as short:   *)
(* all of them, or as many as the limit allows, and none only where the    *)
(* chosen one is the only one.  The joins name the columns of the keys     *)
(* they follow.                                                            *)
AlternativesAreOthers ==
    LET g == mgr.graph
        both == BothWays(DOMAIN g.edges)
        key(from, left, right) ==
          \E fk \in Range(g.tables[from].fks) : fk.column = left /\ fk.referenced = right
    IN \A a, b \in Nodes(g) :
         LET answers == JoinPaths(g, a, b, 12)
         IN answers # {} =>
              LET p == CHOOSE x \in answers : TRUE
                  joins == JoinsAlong(g, p)
                  shortest == ShortestPaths(Nodes(g), both, a, b)
              IN /\ \A others \in AlternativePaths(g, a, b, p, MaxAlternatives) :
                      /\ others \subseteq shortest \ {p}
                      /\ others = {} => shortest = {p}
                      /\ Cardinality(others) <= MaxAlternatives
                      /\ Cardinality(others) < MaxAlternatives => {p} \cup others = shortest
                 /\ \A i \in DOMAIN joins :
                      \/ key(joins[i].from, joins[i].fromColumn, joins[i].toColumn)
                      \/ key(joins[i].to, joins[i].toColumn, joins[i].fromColumn)

(* What may be grouped by from a table is what may be aggregated towards   *)
(* it from the other side, hop by hop (reachable_from, measurable_from).   *)
GrainsAreDual ==
    LET g == mgr.graph
        coarser == [id \in Nodes(g) |-> ReachableFrom(g, id, AllHops(g))]
        finer == [id \in Nodes(g) |-> MeasurableFrom(g, id, AllHops(g))]
    IN \A a, b \in Nodes(g) : \A d \in 1..AllHops(g) :
         a # b => (b \in coarser[a][d] <=> a \in finer[b][d])

(* plan_composite_query: unless keys form a cycle, every fact is a leg     *)
(* root or a dimension of one; no leg root is a dimension of another; a    *)
(* conformed key is a dimension of every leg, and each leg projects every  *)
(* requested dimension, as a value or as a null.                           *)
LegsCoverFacts ==
    LET reach == [id \in Nodes(mgr.graph) |-> Dimensions(mgr.graph, id)]
    IN \A facts \in {f \in SUBSET Nodes(mgr.graph) : Cardinality(f) \in 2..3} :
         LET plan == PlanComposite(mgr.graph, facts, {})
             acyclic == \A f, h \in facts : f # h => ~(f \in reach[h] /\ h \in reach[f])
         IN /\ acyclic => \A f \in facts : f \in plan.roots
                            \/ \E r \in plan.roots : f \in plan.legs[r].dimensions
            /\ \A r \in plan.roots : plan.roots \cap reach[r] \subseteq {r}
            /\ \A r \in plan.roots : plan.conformed \cap plan.legs[r].nullPad = {}
            /\ plan.composite => \A f \in facts : \E r \in plan.roots : r # f

(* A table that left the graph left the search too, with its columns and   *)
(* the keys at both ends.  Excepted are tables whose vectors could not be  *)
(* deleted, tables that only a later graph than the one a restart came     *)
(* back to had, and keys whose target was not in the graph when they were  *)
(* reported (delete_tables, _publish_schema).                              *)
SearchFindsPresentTables ==
    LET present == Nodes(mgr.graph) \cup stranded
    IN \A e \in vectors :
         /\ e.kind \in {"table", "column", "relationship"} => e.id \in present
         /\ e.kind = "relationship" => e.detail \in present \/ e \in outside

(* A session's copy never falls behind: what it reads is the shared graph  *)
(* as it is now with the relationships its ontology asserts of the tables  *)
(* the graph has now, names read in the schema it works in now.  A key the *)
(* database declares is never displaced (_join_graph, with_relationships). *)
OverlayFollowsGraph ==
    LET g == mgr.graph
        own == Extended
        asserted == Asserted(g, Assertions, working)
    IN mgr.ready =>
         /\ Nodes(own) = Nodes(g)
         /\ DOMAIN g.edges \subseteq DOMAIN own.edges
         /\ \A e \in DOMAIN own.edges :
              IF own.edges[e].ontology
              THEN /\ \E r \in Range(asserted) : << r.source, r.target >> = e
                   /\ e \in DOMAIN g.edges => g.edges[e].inferred
              ELSE e \in DOMAIN g.edges /\ own.edges[e] = g.edges[e]
         /\ \A r \in Range(asserted) : r.source # r.target =>
              << r.source, r.target >> \in DOMAIN own.edges

(* The graph is what was last reported, in all its parts.                  *)
GraphIsAsReported == TablesAreThoseReported /\ EdgesAreReportedKeys /\ LocalKeysHaveEdges

(* The join paths offered are the shortest there are, those beside the     *)
(* chosen one all the others up to the limit, with the columns of the keys *)
(* they follow (find_join_path, find_alternative_join_paths).              *)
JoinPathsAreRight == JoinPathsAreShortest /\ AlternativesAreOthers

(* Which tables may be grouped by, and which facts need a leg of their own.*)
PlansAreSound == GrainsAreDual /\ LegsCoverFacts
=============================================================================
