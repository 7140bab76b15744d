------------------------------ MODULE JoinGraph ------------------------------
(***************************************************************************)
(* graphrag/retriever.py: the graph of tables and foreign keys that join   *)
(* paths, reachability and fan traps are read from.  The operators take a  *)
(* graph and return the graph a method leaves, or the answer it gives.     *)
(*                                                                         *)
(* A graph g is a record: tables (the nodes, each with the table reported  *)
(* for it), members (which tables each schema reported last), byName (bare *)
(* name to identities), edges (one per pair of tables), generation and     *)
(* snapshot (the cached undirected reading).  A table is a record: schema, *)
(* name, columns, and fks, the sequence of its foreign keys.               *)
(***************************************************************************)
EXTENDS TableIdentity

Nothing == << >>                    (* the empty function                  *)
At(f, x, default) == IF x \in DOMAIN f THEN f[x] ELSE default
(* f where it is defined, h elsewhere: TLC's @@, as a function to reason   *)
(* about.                                                                  *)
Over(f, h) == [x \in DOMAIN f \cup DOMAIN h |-> IF x \in DOMAIN f THEN f[x] ELSE h[x]]
NoSnapshot == [generation |-> -1, edges |-> {}]

(* A table as discovery reports it.                                        *)
Name == Seq(STRING)
ForeignKey == [column : Name, table : Name, referenced : Name, inferred : BOOLEAN]
Table == [schema : Name, name : Name, columns : SUBSET Name, fks : Seq(ForeignKey)]

EmptyGraph == [tables |-> Nothing, members |-> Nothing, byName |-> Nothing,
               edges |-> Nothing, generation |-> 0, snapshot |-> NoSnapshot]

Nodes(g) == DOMAIN g.tables
Identity(t) == Qualified(t.schema, t.name)
TablesOfSchema(g, schema) == At(g.members, schema, {})

TablesClaimedElsewhere(g, schema, ids) ==
    ids \cap UNION {g.members[other] : other \in DOMAIN g.members \ {schema}}

(* Mutant: a change says nothing to the snapshot taken before it.          *)
GraphChangedUnsaid(g) == g

GraphChanged(g) == [g EXCEPT !.generation = @ + 1, !.snapshot = NoSnapshot]

-----------------------------------------------------------------------------
(* Reading names.                                                          *)

ResolveName(g, name, current) ==
    Choose(name, name \in Nodes(g), At(g.byName, name, {}), current)

IdentityFor(g, name, current) ==
    LET found == ResolveName(g, name, current)
    IN IF Found(found) THEN found.identity ELSE name

EveryTableFor(g, name) ==
    At(g.byName, name, {}) \cup ({name} \cap Nodes(g))

(* str.casefold on the one letter the instances use in both cases.         *)
Casefold(name) == [i \in DOMAIN name |-> IF name[i] = "O" THEN "o" ELSE name[i]]

IndexedName(g, name) ==
    LET alike == {n \in DOMAIN g.byName : Casefold(n) = Casefold(name)}
    IN IF name \in DOMAIN g.byName THEN name
       ELSE IF Cardinality(alike) = 1 THEN CHOOSE n \in alike : TRUE
       ELSE NoTable

-----------------------------------------------------------------------------
(* Changing the graph.                                                     *)

RemoveTables(g, ids) ==
    LET gone == ids \cap Nodes(g)
        names == [n \in DOMAIN g.byName |->
                    g.byName[n] \ {id \in ids : DisplayName(id) = n}]
        left == [g EXCEPT
                   !.tables = Restrict(@, DOMAIN @ \ ids),
                   !.members = [s \in DOMAIN @ |-> @[s] \ ids],
                   !.byName = RestrictValues(names, LAMBDA tables : tables # {}),
                   !.edges = Restrict(@, {e \in DOMAIN @ :
                                            e[1] \notin ids /\ e[2] \notin ids})]
    IN IF gone = {} THEN left ELSE GraphChanged(left)

(* _fk_target: the referencing table's schema first, then a unique match.  *)
FkTarget(g, fk, schema) ==
    LET within == Qualified(schema, fk.table)
    IN IF within \in Nodes(g) THEN within
       ELSE ResolveName(g, fk.table, schema).identity

(* One edge per pair of tables, for the last key of the one to the other;  *)
(* a declared key outranks an inferred one, whichever came first.          *)
EdgeTo(g, t, target) ==
    LET keys == {i \in DOMAIN t.fks : FkTarget(g, t.fks[i], t.schema) = target}
        declared == {i \in keys : ~t.fks[i].inferred}
        fk == t.fks[Max(IF declared = {} THEN keys ELSE declared)]
    IN [column |-> fk.column, referenced |-> fk.referenced,
        inferred |-> fk.inferred, ontology |-> FALSE]

(* _add_node for every table of a report, and the membership the builders  *)
(* record with it.  A report has a table once.                             *)
WithNodes(g, ts) ==
    LET ids(us) == {Identity(t) : t \in us}
    IN [g EXCEPT
          !.tables = Over([id \in ids(ts) |-> CHOOSE t \in ts : Identity(t) = id], @),
          !.byName = Over([n \in {t.name : t \in ts} |->
                             At(@, n, {}) \cup ids({t \in ts : t.name = n})], @),
          !.members = Over([s \in {t.schema : t \in ts} |->
                              At(@, s, {}) \cup ids({t \in ts : t.schema = s})], @)]

(* _add_foreign_keys for every table of a report, when all have a node and *)
(* none has an edge.                                                       *)
WithKeys(g, ts) ==
    LET pairs == UNION {{<< Identity(t), FkTarget(g, fk, t.schema) >> : fk \in Range(t.fks)}
                        : t \in ts}
    IN [g EXCEPT !.edges = Over([e \in {p \in pairs : p[2] # NoTable} |->
                                   EdgeTo(g, g.tables[e[1]], e[2])], @)]

BuildGraph(g, ts) ==
    LET cleared == [GraphChanged(g) EXCEPT !.tables = Nothing, !.members = Nothing,
                                           !.byName = Nothing, !.edges = Nothing]
    IN GraphChanged(WithKeys(WithNodes(cleared, ts), ts))

LoadGraph(g, ts) == IF ts = {} THEN g ELSE BuildGraph(g, ts)

(* Mutant: the keys the tables had are kept.                               *)
AddToGraphKeepKeys(g, ts) ==
    LET asked == [GraphChanged(g) EXCEPT
                    !.members = Over([s \in {t.schema : t \in ts} |-> {}], @)]
    IN GraphChanged(WithKeys(WithNodes(asked, ts), ts))

(* add_to_graph: a schema in the batch reports all its tables, so its      *)
(* membership is replaced; so are the keys of the tables in the batch.     *)
AddToGraph(g, ts) ==
    LET batch == {Identity(t) : t \in ts}
        asked == [GraphChanged(g) EXCEPT
                    !.members = Over([s \in {t.schema : t \in ts} |-> {}], @)]
        placed == WithNodes(asked, ts)
        bare == [placed EXCEPT !.edges =
                   Restrict(@, {e \in DOMAIN @ : e[1] \notin batch})]
    IN GraphChanged(WithKeys(bare, ts))

(* _ontology_table: the table an ontology's text stands for.  "schema" is   *)
(* where the ontology places it, NoSchema when it does not say.            *)
OntologyTable(g, name, schema, current) ==
    LET indexed == IndexedName(g, name)
        placed == Qualified(schema, indexed)
        found == ResolveName(g, indexed, current)
    IN IF indexed = NoTable THEN NoTable
       ELSE IF schema # NoSchema THEN (IF placed \in Nodes(g) THEN placed ELSE NoTable)
       ELSE IF Ambiguous(found) THEN NoTable ELSE found.identity

(* _join_graph: what an ontology asserts of tables the graph has, at the   *)
(* place it asserts it.                                                    *)
Asserted(g, assertions, current) ==
    LET placed(i) == [source |-> OntologyTable(g, assertions[i].source, assertions[i].placed, current),
                      column |-> assertions[i].column,
                      target |-> OntologyTable(g, assertions[i].target, assertions[i].placed, current),
                      referenced |-> assertions[i].referenced]
    IN [i \in {j \in DOMAIN assertions :
                 placed(j).source # NoTable /\ placed(j).target # NoTable} |-> placed(i)]

(* with_relationships: a copy for one session, extended with what its own  *)
(* ontology asserts.  Declared keys stay; the first assertion about a pair *)
(* wins; an inferred edge is replaced.                                     *)
WithRelationships(g, relationships) ==
    LET pair(i) == << relationships[i].source, relationships[i].target >>
        declared(e) == e \in DOMAIN g.edges /\ ~g.edges[e].inferred
        new == {i \in DOMAIN relationships :
                  /\ {relationships[i].source, relationships[i].target} \subseteq Nodes(g)
                  /\ relationships[i].source # relationships[i].target
                  /\ ~declared(pair(i))}
        first(e) == relationships[Min({i \in new : pair(i) = e})]
        asserted(e) == [column |-> first(e).column, referenced |-> first(e).referenced,
                        inferred |-> FALSE, ontology |-> TRUE]
    IN IF new = {} THEN g
       ELSE GraphChanged([g EXCEPT !.edges = Over([e \in {pair(i) : i \in new} |-> asserted(e)], @)])

-----------------------------------------------------------------------------
(* Join paths.                                                             *)

BothWays(pairs) == pairs \cup {<< e[2], e[1] >> : e \in pairs}

(* _undirected_snapshot: what it returns, and the graph it leaves.         *)
UndirectedSnapshot(g) ==
    IF g.snapshot.generation = g.generation THEN g.snapshot.edges
    ELSE BothWays(DOMAIN g.edges)

Looked(g) == [g EXCEPT !.snapshot = [generation |-> g.generation,
                                     edges |-> UndirectedSnapshot(g)]]

(* networkx.shortest_path: any path of the least length, {} without one.   *)
(* The tables are met hop by hop; a shortest path takes one of each hop.   *)
ShortestPaths(nodes, pairs, a, b) ==
    LET meet[n \in 0..Cardinality(nodes)] ==
          IF n = 0 THEN [paths |-> {<< a >>}, seen |-> {a}]
          ELSE LET before == meet[n - 1]
                   longer == {Append(q[1], q[2]) : q \in
                                {x \in before.paths \X (nodes \ before.seen) :
                                   << Last(x[1]), x[2] >> \in pairs}}
               IN IF b \in before.seen THEN before
                  ELSE [paths |-> longer, seen |-> before.seen \cup {Last(p) : p \in longer}]
    IN IF {a, b} \subseteq nodes
       THEN {p \in meet[Cardinality(nodes)].paths : Last(p) = b}
       ELSE {}

(* find_join_path reads the graph along its keys, against them, and both   *)
(* ways at once, and takes the first shortest of the three answers.        *)
ChosenPaths(g, a, b) ==
    LET along == ShortestPaths(Nodes(g), DOMAIN g.edges, a, b)
        against == {Reverse(p) : p \in ShortestPaths(Nodes(g), DOMAIN g.edges, b, a)}
        mixed == ShortestPaths(Nodes(g), UndirectedSnapshot(g), a, b)
        all == along \cup against \cup mixed
        least == {p \in all : \A q \in all : Len(p) <= Len(q)}
    IN IF least \cap along # {} THEN along
       ELSE IF least \cap against # {} THEN against
       ELSE mixed

(* The tables of every path find_join_path may answer with, {} for None.   *)
JoinPaths(g, from, to, maxHops) ==
    {p \in ChosenPaths(g, IdentityFor(g, from, NoSchema), IdentityFor(g, to, NoSchema)) :
       Len(p) - 1 <= maxHops}

JoinsAlong(g, path) ==
    [i \in 1..(Len(path) - 1) |->
       LET forth == << path[i], path[i + 1] >>
           back == << path[i + 1], path[i] >>
       IN IF forth \in DOMAIN g.edges
          THEN [from |-> path[i], to |-> path[i + 1],
                fromColumn |-> g.edges[forth].column,
                toColumn |-> g.edges[forth].referenced,
                inferred |-> g.edges[forth].inferred]
          ELSE [from |-> path[i], to |-> path[i + 1],
                fromColumn |-> g.edges[back].referenced,
                toColumn |-> g.edges[back].column,
                inferred |-> g.edges[back].inferred]]

(* The answers find_alternative_join_paths may give: other shortest paths, *)
(* in the order networkx finds them, until the limit is reached.           *)
AlternativePaths(g, from, to, chosen, limit) ==
    LET others == {p \in ShortestPaths(Nodes(g), UndirectedSnapshot(g),
                                       IdentityFor(g, from, NoSchema), IdentityFor(g, to, NoSchema)) :
                     Len(p) = Len(chosen) /\ p # chosen}
    IN {answer \in SUBSET others :
          /\ Cardinality(answer) <= limit
          /\ answer # others => Cardinality(answer) = limit}

-----------------------------------------------------------------------------
(* Neighbourhoods.  An edge runs from the finer grain to the coarser.      *)

Referenced(g, id) == {b \in Nodes(g) : << id, b >> \in DOMAIN g.edges}
Referencing(g, id) == {a \in Nodes(g) : << a, id >> \in DOMAIN g.edges}

(* _directed_closure: the tables first met at each number of hops along    *)
(* the links.                                                              *)
Closure(g, id, maxHops, links) ==
    LET layer[d \in 0..maxHops] ==
          IF d = 0 THEN [here |-> {id} \cap Nodes(g), seen |-> {id}]
          ELSE LET met == layer[d - 1]
                   next == {l[2] : l \in {x \in links : x[1] \in met.here}}
               IN [here |-> next \ met.seen, seen |-> next \cup met.seen]
    IN [d \in 1..maxHops |-> layer[d].here]

ReachableFrom(g, id, maxHops) == Closure(g, id, maxHops, DOMAIN g.edges)
MeasurableFrom(g, id, maxHops) == Closure(g, id, maxHops, {<< l[2], l[1] >> : l \in DOMAIN g.edges})
AllHops(g) == Cardinality(Nodes(g))
Dimensions(g, id) == UNION Range(ReachableFrom(g, id, AllHops(g)))

(* get_related_tables, both directions: a table that references itself is  *)
(* its own neighbour.                                                      *)
RelatedTables(g, id, maxDistance) ==
    [d \in 1..maxDistance |->
       ReachableFrom(g, id, maxDistance)[d] \cup MeasurableFrom(g, id, maxDistance)[d]
       \cup IF d = 1 THEN Referenced(g, id) \cup Referencing(g, id) ELSE {}]

FanTraps(g, names) ==
    {id \in {IdentityFor(g, n, NoSchema) : n \in names} \cap Nodes(g) :
       Cardinality(Referenced(g, id)) > 1}

-----------------------------------------------------------------------------
(* Mutant: only a fact another one references directly is no leg.          *)
PlanCompositeDirect(g, facts, dimensions) ==
    LET reach == [f \in facts |-> Dimensions(g, f)]
        roots == {f \in facts : \A h \in facts \ {f} : f \notin Referenced(g, h)}
        asked == IF dimensions = {} THEN UNION Range(reach) ELSE dimensions
    IN [roots |-> roots,
        composite |-> Cardinality(roots) >= 2,
        conformed |-> {d \in asked : roots # {} /\ \A r \in roots : d \in reach[r]},
        legs |-> [r \in roots |-> [dimensions |-> asked \cap reach[r],
                                   nullPad |-> asked \ reach[r]]]]

(* plan_composite_query: the legs a query over several facts falls into.   *)
(* A fact that is a dimension of another is no leg of its own.             *)
PlanComposite(g, facts, dimensions) ==
    LET reach == [f \in facts |-> Dimensions(g, f)]
        roots == {f \in facts : \A h \in facts \ {f} : f \notin reach[h]}
        asked == IF dimensions = {} THEN UNION Range(reach) ELSE dimensions
    IN [roots |-> roots,
        composite |-> Cardinality(roots) >= 2,
        conformed |-> {d \in asked : roots # {} /\ \A r \in roots : d \in reach[r]},
        legs |-> [r \in roots |-> [dimensions |-> asked \cap reach[r],
                                   nullPad |-> asked \ reach[r]]]]
=============================================================================
