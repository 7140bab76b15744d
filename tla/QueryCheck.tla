----------------------------- MODULE QueryCheck -----------------------------
(***************************************************************************)
(* A query validator at work: the ontology it holds is prepared again when *)
(* validate_relationship records a verdict, and every query is judged      *)
(* against it.  The properties compare the judgements with what a query    *)
(* would do to small databases, and with those on the same query written   *)
(* differently.                                                            *)
(***************************************************************************)
EXTENDS FanTraps, OntologyGenerator
LOCAL INSTANCE FiniteSetsExt
LOCAL INSTANCE SequencesExt
LOCAL INSTANCE Functions

CONSTANTS
    Workloads       \* a sequence of records: ontologies that were loaded,
                    \* each with the keys its database declares, schemas that
                    \* one is generated from, the verdicts that may be
                    \* recorded on them, and the queries asked of them

VARIABLES
    workload,       \* which of them
    ontology,       \* the ontology, with the verdicts recorded so far
    prepared,       \* what prepare_ontology read out of it
    asked,          \* the query last judged; << >> before
    verdict         \* the judgement (OBQCResult)

vars == << workload, ontology, prepared, asked, verdict >>

Nothing == << >>

(* What a generated ontology says, next to what the database declares.     *)
Generated(schema) ==
    LET ont == GenerateFromSchema(schema, TRUE)
    IN [tables |-> ont.tables, properties |-> ont.properties, disjoint |-> ont.disjoint,
        views |-> ont.views, declared |-> schema.declared]

Init ==
    /\ workload \in DOMAIN Workloads
    /\ LET w == Workloads[workload]
       IN ontology \in w.ontologies \cup {Generated(schema) : schema \in w.schemas}
    /\ prepared = PrepareOntology(ontology)
    /\ asked = Nothing
    /\ verdict = Nothing

(* _record_verdict, then reset_session_obqc_validator: the next validator  *)
(* is built from what was recorded.                                        *)
Record(v) ==
    /\ asked = Nothing
    /\ ontology' = RecordInGraph(ontology, v)
    /\ prepared' = PrepareOntology(ontology')
    /\ UNCHANGED << workload, asked, verdict >>

Check(query, allowFanOut) ==
    /\ asked = Nothing
    /\ asked' = << query >>
    /\ verdict' = << Validate(prepared, query, allowFanOut) >>
    /\ UNCHANGED << workload, ontology, prepared >>

Answer ==
    /\ asked # Nothing
    /\ asked' = Nothing
    /\ verdict' = Nothing
    /\ UNCHANGED << workload, ontology, prepared >>

Next ==
    \/ \E v \in Workloads[workload].verdicts : Record(v)
    \/ \E query \in Workloads[workload].queries, allow \in BOOLEAN : Check(query, allow)
    \/ Answer

Spec == Init /\ [][Next]_vars

-----------------------------------------------------------------------------
(* What a join of two tables does to a database of two rows each, which    *)
(* enforces the keys it declares, whatever the ontology says of them.      *)

Database(tables) ==
    LET rows(t) == [1..2 -> [DOMAIN prepared.tables[t] -> 1..2]]
    IN {db \in [tables -> UNION {rows(t) : t \in tables}] : \A t \in tables : db[t] \in rows(t)}

(* What was checked is so: the referenced columns are a key, or they       *)
(* repeat; and what the database declares is, unless that says otherwise.  *)
Consistent(db) ==
    LET repeats(table, pairs) ==
          [pair \in pairs |-> db[table][1][pair[2]]] = [pair \in pairs |-> db[table][2][pair[2]]]
        within == {rel \in prepared.relationships : {rel.from, rel.to} \subseteq DOMAIN db}
    IN /\ \A rel \in within : rel.status \in Checked =>
            (TargetNotUnique(rel) <=> repeats(rel.to, rel.pairs))
       /\ \A key \in ontology.declared :
            \/ ~({key.from, key.to} \subseteq DOMAIN db)
            \/ \E rel \in within : /\ TargetNotUnique(rel)
                                   /\ << rel.from, rel.to, rel.pairs >> = << key.from, key.to, key.pairs >>
            \/ ~repeats(key.to, key.pairs)

(* Some row of a table is in the join twice.                               *)
Inflates(db, query, table) ==
    LET sources == query.selects[1].sources
        of(q) == CHOOSE s \in 1..2 : HandleOf(sources[s]) = q
        value(side, at) == db[sources[of(side.q)].table][at[of(side.q)]][side.c]
        joined == {at \in [1..2 -> 1..2] :
                     \A x \in sources[2].on : value(x.l, at) = value(x.r, at)}
        own == CHOOSE s \in 1..2 : sources[s].table = table
    IN \E a, b \in joined : a # b /\ a[own] = b[own]

(* One SELECT that joins two tables by equalities of their columns.        *)
IsPlainJoin(query) ==
    LET sources == query.selects[1].sources
    IN /\ Len(query.selects) = 1 /\ Len(sources) = 2
       /\ sources[2].joined = "on" /\ sources[2].on # {}
       /\ \A x \in sources[2].on :
            x.equal /\ x.conjunct /\ Qualifiers({x}) = {HandleOf(s) : s \in Range(sources)}

(* The relationships every column of which it compares.                    *)
KeysFollowed(query) ==
    LET tables == Names(query, 1)
    IN UsedRelationships({r \in prepared.relationships : {r.from, r.to} = tables},
                         OnComparisons(query, 1, 2))

(* It compares nothing else.                                               *)
ComparesKeysOnly(query) ==
    OnComparisons(query, 1, 2) =
        UNION {{{<< r.from, pair[1] >>, << r.to, pair[2] >>} : pair \in r.pairs} :
                 r \in KeysFollowed(query)}

(* FanTrapsAreReal: if a query joins two tables by their keys and is       *)
(* blocked, or would be but for allow_fan_out, because the join repeats    *)
(* rows of a table it sums, it really counts them twice on some database   *)
(* that agrees with everything declared or checked; and if it compares a   *)
(* key in full, whatever else it compares, and nothing is said of it, not  *)
(* even that it rests on guesses, it never does (_detect_fan_trap,         *)
(* _fan_out_relationship, _note_assumed_keys).                             *)
FanTrapsAreReal ==
    asked # Nothing /\ IsPlainJoin(asked[1]) /\ KeysFollowed(asked[1]) # {} =>
        LET query == asked[1]
            possible == {db \in Database(Names(query, 1)) : Consistent(db)}
            doubted == {f \in verdict[1].findings : Blocks(f) /\ f.measured # Unset}
        IN /\ possible # {} /\ ComparesKeysOnly(query) =>
                \A f \in doubted : \E db \in possible : Inflates(db, query, f.measured)
           /\ (\A x \in verdict[1].issues : x.kind # "fan_trap") =>
                \A t \in MeasureTables(prepared, query, 1) :
                   \A db \in possible : ~Inflates(db, query, t)
           /\ doubted # {} => verdict[1].blocking # verdict[1].overridden

-----------------------------------------------------------------------------
(* The same query with a WITH alias renamed.                               *)

(* The declaration a name stands for in a SELECT, innermost first.         *)
Binding(query, i, name) ==
    LET declared(k, limit) == {n \in 1..limit : query.selects[k].ctes[n] = name}
        at(k, limit, further) ==
          IF declared(k, limit) # {} THEN << k, Max(declared(k, limit)) >> ELSE further
        limitOf(k) == LET s == query.selects[k]
                          outer == query.selects[s.up]
                      IN IF ~s.body THEN Len(outer.ctes)
                         ELSE IF outer.recursive THEN s.position ELSE s.position - 1
        outside[k \in 0..i] ==
          IF k = 0 \/ query.selects[k].up = 0 THEN << >>
          ELSE LET up == query.selects[k].up IN at(up, limitOf(k), outside[up])
    IN at(i, Len(query.selects[i].ctes), outside[i])

Renamed(query, declaration, fresh) ==
    LET source(i, s) ==
          IF Binding(query, i, s.table) = declaration THEN [s EXCEPT !.table = fresh] ELSE s
        select(i) ==
          LET s == query.selects[i]
          IN [s EXCEPT !.sources = [n \in DOMAIN @ |-> source(i, @[n])],
                       !.ctes = [n \in DOMAIN @ |-> IF << i, n >> = declaration THEN fresh ELSE @[n]]]
    IN [query EXCEPT !.selects = [i \in DOMAIN @ |-> select(i)]]

Declarations(query) ==
    UNION {{i} \X DOMAIN query.selects[i].ctes : i \in DOMAIN query.selects}


-----------------------------------------------------------------------------
(* The same joins in another order, or in the comma form.                  *)

(* One SELECT without WITH, every condition of which ties two tables.      *)
IsJoinOfTables(query) ==
    LET s == query.selects[1]
    IN /\ Len(query.selects) = 1 /\ s.ctes = << >>
       /\ \A x \in s.where \cup UNION {t.on : t \in Range(s.sources)} :
            x.equal /\ x.conjunct /\ Cardinality(Qualifiers({x})) = 2

Conditions(query) ==
    LET s == query.selects[1] IN s.where \cup UNION {t.on : t \in Range(s.sources)}

WrittenOut(query, order, comma) ==
    LET s == query.selects[1]
        known(n) == {HandleOf(s.sources[order[m]]) : m \in 1..n}
        stated(n) == {x \in Conditions(query) :
                        Qualifiers({x}) \subseteq known(n) /\ ~(Qualifiers({x}) \subseteq known(n - 1))}
        source(n) ==
          [s.sources[order[n]] EXCEPT
             !.joined = IF n = 1 THEN "from" ELSE IF comma \/ stated(n) = {} THEN "bare" ELSE "on",
             !.on = IF comma THEN {} ELSE stated(n)]
    IN [query EXCEPT !.selects = << [s EXCEPT !.sources = [n \in DOMAIN @ |-> source(n)],
                                              !.where = IF comma THEN Conditions(query) ELSE {}] >>]

Measured(ont, query) ==
    {<< f.measured, f.tables, f.assumed >> :
        f \in InflatedMeasures(ont, query, << MeasureTables(ont, query, 1) >>, "measure")}

(* The comma form does not say which of several relationships it uses.     *)
RelatedOneWay(query) ==
    \A a, b \in Names(query, 1) : Cardinality(RelationshipsBetween(prepared, a, b)) <= 1

(* JoinsAreJudged: which table comes first in FROM, in which order the     *)
(* others are joined, and whether the conditions are written in ON or in   *)
(* WHERE changes neither whether some tables are taken for a cross product,*)
(* which they are exactly if no condition ties them to the rest, nor which *)
(* measures are found to be inflated, unless the comma form leaves open    *)
(* which relationship is meant (_unjoined_tables, _inflated_measures,      *)
(* _where_anchors).                                                        *)
JoinsAreJudged ==
    asked # Nothing /\ IsJoinOfTables(asked[1]) =>
        LET query == asked[1]
            handles == {HandleOf(s) : s \in Sources(query, 1)}
            untied == \E part \in (SUBSET handles) \ {{}, handles} :
                        \A x \in Conditions(query) :
                           Qualifiers({x}) \subseteq part \/ Qualifiers({x}) \cap part = {}
            positions == DOMAIN query.selects[1].sources
            orders == {o \in [positions -> positions] : Range(o) = positions}
        IN \A order \in orders, comma \in BOOLEAN :
             LET other == WrittenOut(query, order, comma)
             IN /\ HasUnjoined(other, 1) <=> untied
                /\ (comma => RelatedOneWay(query)) =>
                     Measured(prepared, other) = Measured(prepared, query)

=============================================================================
