--------------------------- MODULE GraphRAGManager ---------------------------
(***************************************************************************)
(* graphrag/manager.py and the vector store behind it: what indexing a     *)
(* schema writes into the shared graph and the vectors, what is saved and  *)
(* restored, and how a question finds its tables.                          *)
(*                                                                         *)
(* A manager is a record: graph, names (schemas in the order they were     *)
(* first indexed), last (_schema_name), ready (_initialized), home (the    *)
(* collection its vectors live in) and communities (the tables that have   *)
(* one).  Vectors are a set of elements; upserting replaces, so an element *)
(* is its identity.  They belong to a collection that outlives managers.   *)
(***************************************************************************)
EXTENDS JoinGraph

(* GraphRAGManager.__init__, for the collection of the given schema.       *)
NewManager(schema) ==
    [graph |-> EmptyGraph, names |-> << >>, last |-> schema, ready |-> FALSE,
     home |-> schema, communities |-> {}]

-----------------------------------------------------------------------------
(* The elements batch_embed_schema makes of a report.  A key's element     *)
(* names the target within the referencing table's schema; a view's has    *)
(* the bare name, since _view_info_to_dict passes no schema on.            *)

Element(kind, id, detail) == [kind |-> kind, id |-> id, detail |-> detail]

TableElement(t) == Element("table", Identity(t), NoTable)
ColumnElements(t) == {Element("column", Identity(t), c) : c \in t.columns}
KeyElements(t) ==
    {Element("relationship", Identity(t), Qualified(t.schema, fk.table)) : fk \in Range(t.fks)}
ViewElement(v) == Element("view", Qualified(NoSchema, v), NoTable)

Embedded(report) ==
    {ViewElement(v) : v \in report.views}
    \cup UNION {{TableElement(t)} \cup ColumnElements(t) \cup KeyElements(t) : t \in report.tables}

(* A discovery walks a finite catalog.  It files its report under the      *)
(* schema it asked for, which its tables carry too; they have names, and a *)
(* name is one table's within a schema.                                    *)
Discovered(report) ==
    /\ IsFiniteSet(report.tables)
    /\ \A t \in report.tables : t.schema = report.schema /\ t.name # NoTable
    /\ \A t, u \in report.tables : t.name = u.name => t = u

(* Mutant: a key goes with the table that has it only.                     *)
DeleteTablesOneEnd(vectors, ids) ==
    {e \in vectors : e.kind \in {"view", "semantic_context"} \/ e.id \notin ids}

(* delete_tables: by identity and by what the metadata records, never the  *)
(* context a person wrote.                                                 *)
DeleteTables(vectors, ids) ==
    {e \in vectors : \/ e.kind \in {"view", "semantic_context"}
                     \/ /\ e.id \notin ids
                        /\ e.kind = "relationship" => e.detail \notin ids}

(* What the schema reported before and no longer does.                     *)
Dropped(m, report) ==
    LET present == {Identity(t) : t \in report.tables}
        missing == TablesOfSchema(m.graph, report.schema) \ present
    IN missing \ TablesClaimedElsewhere(m.graph, report.schema, missing)

(* _publish_schema: one block without an await.  Deleting the vectors of   *)
(* dropped tables may fail, which is only logged.                          *)
PublishSchema(m, report, accumulate) ==
    LET kept == RemoveTables(m.graph, Dropped(m, report))
        graph == IF accumulate THEN AddToGraph(kept, report.tables)
                 ELSE BuildGraph(kept, report.tables)
    IN [m EXCEPT !.graph = graph,
                 !.communities = Nodes(graph),
                 !.last = report.schema,
                 !.names = IF report.schema \in Range(@) THEN @
                           ELSE Append(@, report.schema),
                 !.ready = TRUE]

PublishVectors(m, vectors, report, deleteFails) ==
    (IF deleteFails THEN vectors ELSE DeleteTables(vectors, Dropped(m, report)))
    \cup Embedded(report)

-----------------------------------------------------------------------------
(* save_state: what the worker reads, and the files it writes.  A schema   *)
(* without tables of its own is written with everyone's.                   *)

Captured(m) ==
    [names |-> m.names, tables |-> Range(m.graph.tables), communities |-> m.communities]

SchemaFile(captured, schema) ==
    LET own == {t \in captured.tables : t.schema = schema}
    IN IF own = {} THEN captured.tables ELSE own

(* load_state: the combined graph, or the schema's own file; the graph is  *)
(* rebuilt from the tables.  "files" holds combined and bySchema.          *)
NoFile == [names |-> << >>, tables |-> {}, communities |-> {}]

LoadState(m, files) ==
    LET source == IF files.combined # NoFile THEN files.combined
                  ELSE [names |-> << m.last >>, tables |-> At(files.bySchema, m.last, {}),
                        communities |-> {}]
        graph == LoadGraph(m.graph, source.tables)
    IN [m EXCEPT !.graph = graph,
                 !.names = IF source.tables = {} THEN @ ELSE source.names,
                 !.communities = source.communities,
                 !.ready = @ \/ Nodes(graph) # {}]

-----------------------------------------------------------------------------
(* Business names.  A target is text: the table, or table and column,      *)
(* joined with a dot although either may contain one.                      *)

HasColumn(g, id, column) == id \in Nodes(g) /\ column \in g.tables[id].columns

(* Mutant: the first dot separates table and column.                       *)
ReadingsFirstDot(g, target) ==
    {[table |-> id, column |-> NoTable] : id \in EveryTableFor(g, target)}
    \cup UNION {LET table == SubSeq(target, 1, i - 1)
                    column == SubSeq(target, i + 1, Len(target))
                IN {[table |-> id, column |-> column] :
                      id \in {x \in EveryTableFor(g, table) : HasColumn(g, x, column)}}
                : i \in {j \in DOMAIN target : target[j] = Dot
                                               /\ \A k \in 1..(j - 1) : target[k] # Dot}}

(* _resolve_target's readings: the whole text, and every dot as the split. *)
Readings(g, target) ==
    {[table |-> id, column |-> NoTable] : id \in EveryTableFor(g, target)}
    \cup UNION {LET table == SubSeq(target, 1, i - 1)
                    column == SubSeq(target, i + 1, Len(target))
                IN IF target[i] # Dot \/ table = NoTable \/ column = NoTable THEN {}
                   ELSE {[table |-> id, column |-> column] :
                           id \in {x \in EveryTableFor(g, table) : HasColumn(g, x, column)}}
                : i \in DOMAIN target}

ResolveTarget(g, target) ==
    IF Cardinality(Readings(g, target)) = 1 THEN Readings(g, target) ELSE {}

(* business_name_matches: hits in order, each resolved or left out.        *)
BusinessMatches(g, hits) ==
    FlattenSeq([i \in DOMAIN hits |->
       IF ResolveTarget(g, hits[i].target) = {} THEN << >>
       ELSE LET r == CHOOSE x \in ResolveTarget(g, hits[i].target) : TRUE
            IN << [table |-> r.table, column |-> r.column, score |-> hits[i].score] >>])

(* sorted(..., key = -score)[:k] keeps the order of equals.                *)
BestFirst(hits, k) ==
    LET before(i, j) == \/ hits[i].score > hits[j].score
                        \/ hits[i].score = hits[j].score /\ i < j
        order == SetToSortSeq(DOMAIN hits, before)
    IN SubSeq([i \in DOMAIN order |-> hits[order[i]]], 1, Min({k, Len(hits)}))

(* A hit of a table has no column.                                         *)
HitKey(hit) == << hit.table, hit.column >>

(* Mutant: a match replaces the hit of its key, better or not.             *)
RaisedAlways(hits, match) ==
    LET held == {i \in DOMAIN hits : HitKey(hits[i]) = HitKey(match)}
    IN IF held = {} THEN Append(hits, match)
       ELSE [i \in DOMAIN hits |-> IF i \in held THEN match ELSE hits[i]]

(* The merges of _merge_table_hits and _merge_column_hits: a match raises  *)
(* the hit of its key or adds one; a hit at least as good stands.          *)
Raised(hits, match) ==
    LET held == {i \in DOMAIN hits : HitKey(hits[i]) = HitKey(match)}
    IN IF held = {} THEN Append(hits, match)
       ELSE [i \in DOMAIN hits |->
               IF i \in held /\ hits[i].score < match.score THEN match ELSE hits[i]]

MergeTableHits(hits, matches, k) ==
    BestFirst(FoldLeft(LAMBDA h, match : Raised(h, [match EXCEPT !.column = NoTable]), hits,
                       matches), k)

MergeColumnHits(hits, matches, k) ==
    BestFirst(FoldLeft(LAMBDA h, match : Raised(h, match), hits,
                       SelectSeq(matches, LAMBDA x : x.column # NoTable)), k)

(* get_query_context: the tables found, those the graph knows, and the     *)
(* joins offered between each two of them.                                 *)
QueryContext(m, g, tableHits, columnHits, contextHits, maxTables, maxColumns) ==
    LET matches == BusinessMatches(g, contextHits)
        primary == MergeTableHits(tableHits, matches, maxTables)
        pairs == {p \in (DOMAIN primary) \X (DOMAIN primary) : p[1] < p[2]}
        found == [i \in DOMAIN primary |-> primary[i].table]
        related == UNION {UNION Range(RelatedTables(g, found[i], 1)) : i \in DOMAIN found}
    IN [primary |-> primary,
        described |-> SelectSeq(primary, LAMBDA h : h.table \in Nodes(m.graph)),
        columns |-> MergeColumnHits(columnHits, matches, maxColumns),
        joined |-> {p \in pairs : JoinPaths(g, found[p[1]], found[p[2]], 12) # {}},
        fanTraps |-> FanTraps(g, Range(found) \cup related)]
=============================================================================
