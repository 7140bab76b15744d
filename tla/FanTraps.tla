------------------------------ MODULE FanTraps ------------------------------
(***************************************************************************)
(* OBQC's fan-trap rules: which tables a SELECT takes its measures from,   *)
(* which relationships its joins use, whether they repeat rows of those    *)
(* tables, and what blocks.  Validate is OBQCValidator.validate.           *)
(***************************************************************************)
EXTENDS QueryScopes
LOCAL INSTANCE FiniteSetsExt
LOCAL INSTANCE SequencesExt

(* MIN, MAX and DISTINCT read the same off repeated rows.                  *)
Sensitive(query, i) ==
    {a \in query.selects[i].aggs : a.fn \in {"sum", "avg", "count"} /\ ~a.distinct}

(* The tables in scope a column may be of: what its qualifier stands for,  *)
(* or the one table that declares the bare name.                           *)
OwnersOf(ont, query, i, ref) ==
    LET map == AliasMap(query, i)
        declaring == {t \in {map[h] : h \in DOMAIN map} \cap DOMAIN ont.tables :
                        ref.c \in DOMAIN ont.tables[t]}
    IN IF ref.q # Unset THEN (IF ref.q \in DOMAIN map THEN {map[ref.q]} ELSE {})
       ELSE IF Cardinality(declaring) = 1 THEN declaring ELSE {}

MeasureTables(ont, query, i) ==
    UNION {UNION {OwnersOf(ont, query, i, r) : r \in a.values} : a \in Sensitive(query, i)}

(* Counting by a condition on one table.                                   *)
CountedTables(ont, query, i) ==
    LET tested(a) == UNION {OwnersOf(ont, query, i, r) : r \in a.tests}
    IN UNION {tested(a) : a \in {x \in Sensitive(query, i) :
                                   x.values = {} /\ Cardinality(tested(x)) = 1}}

-----------------------------------------------------------------------------
(* What a join is tied to, and by which equalities.                        *)

TableNamed(query, i, name) ==
    LET map == AliasMap(query, i) IN IF name \in DOMAIN map THEN map[name] ELSE name

Equalities(conditions) == {x \in conditions : x.equal /\ IsColumn(x.l) /\ IsColumn(x.r)}

(* The comma form states in WHERE what ON states for the others.           *)
OnTables(query, i, n) ==
    LET s == query.selects[i].sources[n]
        anchors == {x \in Equalities(query.selects[i].where) :
                      /\ HandleOf(s) \in Qualifiers({x})
                      /\ Cardinality(Qualifiers({x})) = 2}
    IN {TableNamed(query, i, q) :
          q \in Qualifiers(IF s.joined = "on" THEN s.on ELSE anchors)} \ {s.table}

(* Under OR an equality does not hold of every row.                        *)
OnComparisons(query, i, n) ==
    LET s == query.selects[i].sources[n]
        ref(side) == << TableNamed(query, i, side.q), side.c >>
    IN IF s.joined # "on" THEN {}
       ELSE {{ref(x.l), ref(x.r)} : x \in {y \in Equalities(s.on) :
               y.conjunct /\ y.l.q # Unset /\ y.r.q # Unset}}

RelationshipsBetween(ont, a, b) == {rel \in ont.relationships : {rel.from, rel.to} = {a, b}}

UsedRelationships(between, comparisons) ==
    {rel \in between : \A pair \in rel.pairs :
       {<< rel.from, pair[1] >>, << rel.to, pair[2] >>} \in comparisons}

(* _join_relationships: the join's own columns decide which, if they can.  *)
JoinRelationships(ont, a, b, comparisons) ==
    LET between == RelationshipsBetween(ont, a, b)
        used == UsedRelationships(between, comparisons)
    IN IF used # {} THEN used ELSE between

ManySide(rel) == IF rel.type = "many_to_one" THEN rel.from ELSE rel.to
OneSide(rel) == IF rel.type = "many_to_one" THEN rel.to ELSE rel.from

(* Mutant: a target that repeats fans out whatever else the join compares. *)
FanOutUnbounded(ont, joined, anchor, comparisons) ==
    {rel \in JoinRelationships(ont, joined, anchor, comparisons) :
       /\ rel.type \in {"many_to_one", "one_to_many"}
       /\ ManySide(rel) # joined => TargetNotUnique(rel)}

(* The relationships by which the joined table repeats rows of the anchor. *)
(* A key compared in full that is known not to repeat bounds the matches,  *)
(* whatever else is compared.                                              *)
FanOutRelationships(ont, joined, anchor, comparisons) ==
    LET used == UsedRelationships(RelationshipsBetween(ont, joined, anchor), comparisons)
        bounded == {rel.to : rel \in {r \in used :
                      r.type = "many_to_one" /\ ~TargetNotUnique(r) /\ ~Assumed(r)}}
    IN {rel \in JoinRelationships(ont, joined, anchor, comparisons) :
          /\ rel.type \in {"many_to_one", "one_to_many"}
          /\ ManySide(rel) # joined =>
               TargetNotUnique(rel) /\ OneSide(rel) \notin bounded}

(* The generator's axiom rests on guesses if every parent the two share    *)
(* does; one no shared parent explains was written by hand.                *)
DisjointnessAssumed(ont, pair) ==
    LET parents(table, guessed) ==
          {rel.to : rel \in {r \in ont.relationships :
             r.from = table /\ r.type = "many_to_one" /\ Assumed(r) = guessed}}
        refuted(table) == {l[2] : l \in {x \in ont.refuted : x[1] = table}}
        all(table) == parents(table, FALSE) \cup parents(table, TRUE) \cup refuted(table)
        shared(of(_)) == {t \in UNION {of(x) : x \in pair} : \A x \in pair : t \in of(x)}
        firm(table) == parents(table, FALSE)
    IN shared(firm) = {} /\ shared(all) # {}

-----------------------------------------------------------------------------
(* Findings: a kind, the table measured (for some), the tables and whether *)
(* it only rests on names.                                                 *)

Found(kind, measured, tables, assumed) ==
    [kind |-> kind, measured |-> measured, tables |-> tables, assumed |-> assumed]

(* Mutant: a join is judged from the table it attaches to only.            *)
RepeatsOfAnchors(ont, query, join, measures) ==
    LET i == join[1]
        table == query.selects[i].sources[join[2]].table
        ends == {<< a, table >> : a \in OnTables(query, i, join[2])}
        by(pair) == FanOutRelationships(ont, pair[2], pair[1], OnComparisons(query, i, join[2]))
    IN {<< pair, \A rel \in by(pair) : Assumed(rel) >> :
          pair \in {p \in ends : p[1] \in measures /\ by(p) # {}}}

(* The (measure, other) pairs of a join, judged from both ends.            *)
Repeats(ont, query, join, measures) ==
    LET i == join[1]
        table == query.selects[i].sources[join[2]].table
        ends == UNION {{<< a, table >>, << table, a >>} : a \in OnTables(query, i, join[2])}
        by(pair) == FanOutRelationships(ont, pair[2], pair[1], OnComparisons(query, i, join[2]))
    IN {<< pair, \A rel \in by(pair) : Assumed(rel) >> :
          pair \in {p \in ends : p[1] \in measures /\ by(p) # {}}}

(* The firmest evidence for each pair; measures holds the tables of each   *)
(* SELECT.                                                                 *)
InflatedMeasures(ont, query, measures, kind) ==
    LET all == UNION {Repeats(ont, query, join, measures[join[1]]) : join \in Joins(query)}
    IN {Found(kind, r[1][1], {r[1][1], r[1][2]}, \A x \in all : x[1] = r[1] => x[2]) :
          r \in all}

Aggregating(query) == {i \in DOMAIN query.selects : Sensitive(query, i) # {}}

(* Pairs the ontology declares disjoint, in one SELECT that aggregates.    *)
DisjointHits(ont, query) ==
    {pair \in ont.disjoint : \E i \in Aggregating(query) : pair \subseteq Names(query, i)}

(* The joins of a SELECT that fan out from the table they attach to.       *)
FanOutJoins(ont, query, i) ==
    LET by(n) == UNION {FanOutRelationships(ont, query.selects[i].sources[n].table, a,
                                            OnComparisons(query, i, n)) :
                          a \in OnTables(query, i, n)}
    IN {<< n, \A rel \in by(n) : Assumed(rel) >> :
          n \in {m \in 2..Len(query.selects[i].sources) : by(m) # {}}}

MultipleFanOuts(ont, query) ==
    LET several == {i \in Aggregating(query) : Cardinality(FanOutJoins(ont, query, i)) >= 2}
        blocks(i) == Cardinality({j \in FanOutJoins(ont, query, i) : ~j[2]}) >= 2
    IN IF several = {} THEN {}
       ELSE {Found("multiple_fan_out_joins", Unset, {}, ~ \E i \in several : blocks(i))}

Firm(findings) == \E f \in findings : ~f.assumed

(* Strongest first: what is firm settles the matter.                       *)
FanTrapFindings(ont, query) ==
    LET measures == [i \in DOMAIN query.selects |-> MeasureTables(ont, query, i)]
        counted == [i \in DOMAIN query.selects |-> CountedTables(ont, query, i)]
        inflated == InflatedMeasures(ont, query, measures, "measure_across_fan_out")
        hits == DisjointHits(ont, query)
        disjoint == IF hits = {} THEN {}
                    ELSE {Found("disjoint_facts", Unset, UNION hits,
                                \A pair \in hits : DisjointnessAssumed(ont, pair))}
        counts == InflatedMeasures(ont, query, counted, "conditional_row_count")
    IN IF \/ \A join \in Joins(query) : join[1] \notin Aggregating(query)
          \/ Cardinality(AllNames(query)) < 2 THEN {}
       ELSE IF Firm(inflated) THEN inflated
       ELSE IF Firm(disjoint) THEN inflated \cup disjoint
       ELSE inflated \cup disjoint \cup counts \cup MultipleFanOuts(ont, query)

(* Counts are ambiguous: they never block.                                 *)
Blocks(finding) == ~finding.assumed /\ finding.kind # "conditional_row_count"

(* What _note_assumed_keys says aloud.                                     *)
AssumedKeys(ont, query) ==
    UNION {LET i == join[1]
               table == query.selects[i].sources[join[2]].table
           IN {rel \in UNION {JoinRelationships(ont, table, a, OnComparisons(query, i, join[2])) :
                                a \in OnTables(query, i, join[2])} :
                 /\ i \in Aggregating(query)
                 /\ Assumed(rel) /\ rel.type = "many_to_one"
                 /\ rel.from \in MeasureTables(ont, query, i)} :
             join \in Joins(query)}

FanTrapIssue(finding, allowFanOut) ==
    Issue("fan_trap", IF Blocks(finding) /\ ~allowFanOut THEN "error" ELSE "warning",
          << finding.kind, finding.measured >>)

-----------------------------------------------------------------------------
(* validate.  With no ontology, or one without annotations, nothing is     *)
(* checked.                                                                *)

Unchecked(reason, severity) ==
    [issues |-> {Issue(reason, severity, << >>)}, findings |-> {}, valid |-> TRUE,
     blocking |-> FALSE, overridden |-> FALSE, evaluated |-> FALSE]

Rules(ont, query) ==
    ValidateTables(ont, query) \cup ValidateColumns(ont, query) \cup ValidateJoins(ont, query)
    \cup TypeIssues(ont, query) \cup ValidateAggregationContext(ont, query)
    \cup MeasureIssues(ont, query)

Validate(ont, query, allowFanOut) ==
    LET findings == FanTrapFindings(ont, query)
        traps == {FanTrapIssue(f, allowFanOut) : f \in findings}
        notes == {Issue("fan_trap", "info", << rel.from, rel.to >>) : rel \in AssumedKeys(ont, query)}
        issues == Rules(ont, query) \cup traps \cup notes
    IN IF ~ont.compatible THEN Unchecked("not_annotated", "info")
       ELSE [issues |-> issues, findings |-> findings,
             valid |-> \A x \in issues : x.severity # "error",
             blocking |-> \E x \in traps : x.severity = "error",
             overridden |-> allowFanOut /\ \E f \in findings : Blocks(f),
             evaluated |-> TRUE]
=============================================================================
