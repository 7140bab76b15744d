----------------------------- MODULE QueryScopes -----------------------------
(***************************************************************************)
(* How OBQC reads the scopes of a parsed query: which references name a    *)
(* WITH alias, what a qualifier or a bare column may mean, whether the     *)
(* tables of a FROM are all joined, and the rules that need no more than   *)
(* that.                                                                   *)
(*                                                                         *)
(* A query is a dialect and a sequence of SELECTs, each after the one that *)
(* encloses it:                                                            *)
(*   up, body, position  the enclosing SELECT (0 for none), and whether    *)
(*                       this is the body of that one's n-th CTE           *)
(*   ctes, recursive     the names its own WITH declares, in order         *)
(*   sources             its FROM items: table, alias, catalog (qualified  *)
(*                       by a catalog schema), how joined, ON condition    *)
(*   where               conditions; outputs, keys (GROUP BY), others      *)
(*                       (ORDER BY, HAVING, ...): columns; aggs            *)
(* A condition compares two sides; a side is a column, a literal (of a     *)
(* type) or another expression.                                            *)
(***************************************************************************)
EXTENDS PreparedOntology
LOCAL INSTANCE FiniteSetsExt
LOCAL INSTANCE SequencesExt
LOCAL INSTANCE Functions

IsColumn(side) == side.c # Unset
Columns(condition) == {side \in {condition.l, condition.r} : IsColumn(side)}
Qualifiers(conditions) ==
    {side.q : side \in UNION {Columns(x) : x \in conditions}} \ {Unset}

Sources(query, i) == Range(query.selects[i].sources)
Names(query, i) == {s.table : s \in Sources(query, i)}
(* parsed_tables                                                           *)
AllNames(query) == UNION {Names(query, i) : i \in DOMAIN query.selects}
HandleOf(source) == IF source.alias = Unset THEN source.table ELSE source.alias

(* The SELECT a name not found here is looked for in: the body of a CTE    *)
(* does not see the query that declares it.                                *)
Outer(query, i) == IF query.selects[i].body THEN 0 ELSE query.selects[i].up


(* _visible_ctes.  A CTE sees the siblings before it and, in a recursive   *)
(* WITH, itself; the query they belong to sees them all.                   *)
VisibleCtes(query, i) ==
    LET select(k) == query.selects[k]
        before(k) == {select(select(k).up).ctes[n] : n \in
                        1..(select(k).position
                            - IF select(select(k).up).recursive THEN 0 ELSE 1)}
        above[k \in 0..i] ==
          IF k = 0 \/ select(k).up = 0 THEN {}
          ELSE above[select(k).up]
               \cup IF select(k).body THEN before(k) ELSE Range(select(select(k).up).ctes)
    IN above[i] \cup Range(select(i).ctes)

IsCteReference(query, i, source) == source.table \in VisibleCtes(query, i)

(* _build_alias_map: the last reference to take a name keeps it.           *)
AliasMap(query, i) ==
    LET sources == query.selects[i].sources
        taken == {s.table : s \in Range(sources)} \cup ({s.alias : s \in Range(sources)} \ {Unset})
    IN [name \in taken |->
          sources[Max({n \in DOMAIN sources : name \in {sources[n].table, sources[n].alias}})].table]

(* _resolve_qualifier_table: the first reference that answers to the name, *)
(* here or further out.                                                    *)
QualifierSource(query, i, name) ==
    LET answering(k) == SelectSeq(query.selects[k].sources,
                                  LAMBDA s : name \in {s.table, s.alias})
        found[k \in 0..i] ==
          IF k = 0 THEN << >>
          ELSE IF answering(k) # << >> THEN << [at |-> k, source |-> Head(answering(k))] >>
          ELSE found[Outer(query, k)]
    IN found[i]

(* _scope_tables: what a bare name may resolve against, innermost first.   *)
ScopeLevels(query, i) ==
    LET own(k) == {<< s.table, IsCteReference(query, k, s) >> : s \in Sources(query, k)}
        levels[k \in 0..i] ==
          IF k = 0 THEN << >>
          ELSE (IF own(k) = {} THEN << >> ELSE << own(k) >>) \o levels[Outer(query, k)]
    IN levels[i]

-----------------------------------------------------------------------------
(* Aliases of the select list.                                             *)

VisibleClauses(dialect) ==
    CASE dialect = "postgresql" -> {"order", "group", "qualify"}
      [] dialect = "duckdb" -> {"order", "group", "having", "qualify", "where"}
      [] OTHER -> {"order", "group", "having", "qualify"}

References(query, i) ==
    LET s == query.selects[i]
        at(refs, clause, whole) ==
            {[q |-> r.q, c |-> r.c, clause |-> clause, whole |-> whole] : r \in refs}
        compared(conditions) == UNION {Columns(x) : x \in conditions}
    IN s.others
       \cup at(s.keys, "group", TRUE)
       \cup at({o \in s.outputs : o.c # Unset}, "select", TRUE)
       \cup at(compared(s.where), "where", FALSE)
       \cup at(compared(UNION {x.on : x \in Range(s.sources)}), "from", FALSE)
       \cup at(UNION {a.values \cup a.tests : a \in s.aggs}, "select", FALSE)

(* _select_alias_references: PostgreSQL takes an output name as a whole    *)
(* sort or group key only.                                                 *)
IsAliasReference(query, i, ref) ==
    /\ ref.q = Unset
    /\ ref.c \in {o.alias : o \in query.selects[i].outputs} \ {Unset}
    /\ ref.clause \in VisibleClauses(query.dialect)
    /\ query.dialect = "postgresql" => ref.whole

-----------------------------------------------------------------------------
(* The rules.  An issue is a kind, a severity and the names it is about.   *)

Issue(kind, severity, about) == [kind |-> kind, severity |-> severity, about |-> about]

(* Catalog tables are told apart by bare name, unless it is used otherwise *)
(* as well.                                                                *)
CatalogTables(query) ==
    LET named(catalog) == {s.table : s \in {x \in UNION {Sources(query, i) : i \in
                             DOMAIN query.selects} : x.catalog = catalog}}
    IN named(TRUE) \ named(FALSE)

ValidateTables(ont, query) ==
    LET described == UNION {{s.table : s \in {x \in Sources(query, i) :
                               ~IsCteReference(query, i, x)}} : i \in DOMAIN query.selects}
    IN {Issue("table_not_found", "error", << t >>) :
          t \in described \ (CatalogTables(query) \cup DOMAIN ont.views \cup DOMAIN ont.tables)}

ProvidesColumn(ont, table, column) ==
    IF table \in DOMAIN ont.views THEN column \in ont.views[table]
    ELSE table \in DOMAIN ont.tables /\ column \in DOMAIN ont.tables[table]

QualifiedIssues(ont, query, i, ref) ==
    LET found == QualifierSource(query, i, ref.q)
        table == IF found = << >> THEN ref.q ELSE found[1].source.table
        ofCte == found # << >> /\ IsCteReference(query, found[1].at, found[1].source)
        missing == \/ table \in DOMAIN ont.views
                      /\ ont.views[table] # {} /\ ref.c \notin ont.views[table]
                   \/ table \in (DOMAIN ont.tables) \ DOMAIN ont.views
                      /\ ref.c \notin DOMAIN ont.tables[table]
    IN IF ~ofCte /\ missing THEN {Issue("column_not_found", "error", << table, ref.c >>)} ELSE {}

(* The innermost level that has the name decides.  A name found nowhere is *)
(* missing only if everything that could have it is described.             *)
UnqualifiedIssues(ont, query, i, ref) ==
    LET levels == ScopeLevels(query, i)
        matches == [n \in DOMAIN levels |->
                      {p \in levels[n] : ~p[2] /\ ProvidesColumn(ont, p[1], ref.c)}]
        having == {n \in DOMAIN levels : matches[n] # {}}
        visible == UNION Range(levels)
        undescribed == {p \in visible : \/ p[2] \/ p[1] \in CatalogTables(query)
                                        \/ p[1] \in DOMAIN ont.views /\ ont.views[p[1]] = {}}
    IN CASE having = {} /\ visible # {} /\ undescribed = {} ->
              {Issue("column_not_found", "error", << Unset, ref.c >>)}
         [] having # {} /\ Cardinality(matches[Min(having)]) > 1 ->
              {Issue("ambiguous_column", "warning", << Unset, ref.c >>)}
         [] OTHER -> {}

ValidateColumns(ont, query) ==
    UNION {UNION {IF r.q = Unset THEN UnqualifiedIssues(ont, query, i, r)
                  ELSE QualifiedIssues(ont, query, i, r) :
                    r \in {x \in References(query, i) : ~IsAliasReference(query, i, x)}} :
             i \in DOMAIN query.selects}

-----------------------------------------------------------------------------
(* Joins.                                                                  *)

(* What each FROM item is tied to: the WHERE compares columns of both, or  *)
(* its own condition names the other, or names none and ties it to all     *)
(* before it.                                                              *)
JoinEdges(query, i) ==
    LET s == query.selects[i]
        where == {<< x.l.q, x.r.q >> : x \in
                    {y \in s.where : /\ IsColumn(y.l) /\ IsColumn(y.r) /\ ~y.wrapped
                                     /\ y.l.q # Unset /\ y.r.q # Unset}}
        named(n) == Qualifiers(s.sources[n].on) \ {HandleOf(s.sources[n])}
        preceding(n) == {HandleOf(s.sources[m]) : m \in 1..(n - 1)}
        joined(n) == CASE s.sources[n].joined = "on" ->
                            IF named(n) # {} THEN named(n) ELSE preceding(n)
                       [] s.sources[n].joined = "using" -> preceding(n)
                       [] OTHER -> {}
    IN where \cup UNION {{HandleOf(s.sources[n])} \X joined(n) : n \in DOMAIN s.sources}

(* _unjoined_tables, as whether there are any.                             *)
HasUnjoined(query, i) ==
    LET handles == {HandleOf(s) : s \in Sources(query, i)}
        edges == JoinEdges(query, i)
        all == handles \cup {e[1] : e \in edges} \cup {e[2] : e \in edges}
        reached[n \in 0..Cardinality(all)] ==
          IF n = 0 THEN {CHOOSE h \in handles : TRUE}
          ELSE LET r == reached[n - 1]
               IN r \cup {e[2] : e \in {x \in edges : x[1] \in r}}
                    \cup {e[1] : e \in {x \in edges : x[2] \in r}}
    IN Len(query.selects[i].sources) > 1 /\ ~(handles \subseteq reached[Cardinality(all)])

CrossProducts(query) == {i \in DOMAIN query.selects : HasUnjoined(query, i)}

WhereJoinsTables(query, i) ==
    \E x \in query.selects[i].where :
       /\ IsColumn(x.l) /\ IsColumn(x.r)
       /\ x.l.q # Unset /\ x.r.q # Unset /\ x.l.q # x.r.q

(* A view's joins and grain are its own: it is joined to nothing.          *)
ViewJoins(ont, query) ==
    {i \in DOMAIN query.selects :
       LET described == SelectSeq(query.selects[i].sources,
                                  LAMBDA s : ~IsCteReference(query, i, s))
       IN Len(described) > 1 /\ \E s \in Range(described) : s.table \in DOMAIN ont.views}

(* The condition mentions every column of some relationship of the table,  *)
(* as text.                                                                *)
Mentions(text, name) ==
    \E n \in 0..(Len(text) - Len(name)) : SubSeq(text, n + 1, n + Len(name)) = name

IsValidJoinCondition(ont, source) ==
    LET words == UNION {{side.q, side.c} : side \in UNION {Columns(x) : x \in source.on}}
        stated(name) == \E w \in words : Mentions(w, name)
    IN \E rel \in ont.relationships :
         /\ source.table \in {rel.from, rel.to}
         /\ \A pair \in rel.pairs : stated(pair[1]) /\ stated(pair[2])

Joins(query) ==
    UNION {{i} \X (2..Len(query.selects[i].sources)) : i \in DOMAIN query.selects}

ConditionIssues(ont, query) ==
    UNION {LET i == join[1]
               s == query.selects[i].sources[join[2]]
           IN CASE s.joined = "bare" /\ ~WhereJoinsTables(query, i) ->
                     {Issue("missing_join_condition", "error", << s.table >>)}
                [] /\ s.joined = "on" /\ ~IsCteReference(query, i, s)
                   /\ ~IsValidJoinCondition(ont, s) ->
                     {Issue("invalid_join", "warning", << s.table >>)}
                [] OTHER -> {} :
             join \in Joins(query)}

ValidateJoins(ont, query) ==
    {Issue("view_not_joinable", "error", << >>) : i \in ViewJoins(ont, query)}
    \cup IF CrossProducts(query) # {}
         THEN {Issue("missing_join_condition", "error", << >>) : i \in CrossProducts(query)}
         ELSE IF Cardinality(AllNames(query)) < 2 THEN {} ELSE ConditionIssues(ont, query)

-----------------------------------------------------------------------------
(* Types.  Unknown types and categories are compatible with all.           *)

(* A bare column is looked for in every table of the ontology, in scope or *)
(* not; a qualifier that names nothing is taken for a table.               *)
InferType(ont, query, i, side) ==
    LET found == QualifierSource(query, i, side.q)
        table == IF found = << >> THEN side.q ELSE found[1].source.table
        having == {t \in DOMAIN ont.tables : side.c \in DOMAIN ont.tables[t]}
        owner == IF side.q = Unset THEN having ELSE having \cap {table}
    IN CASE ~IsColumn(side) -> side.type
         [] owner # {} -> ont.tables[CHOOSE t \in owner : TRUE][side.c].type
         [] OTHER -> Unset

Compatible(left, right) == left = right \/ Unset \in {left, right}

(* A date is written as a string.                                          *)
IsDateComparison(left, right, x) ==
    \/ left = "temporal" /\ ~IsColumn(x.r) /\ x.dated
    \/ right = "temporal" /\ ~IsColumn(x.l) /\ x.dated

TypeIssues(ont, query) ==
    UNION {{Issue("type_mismatch", "warning", << x.l.c, x.r.c >>) : x \in
              {y \in query.selects[i].where \cup UNION {s.on : s \in Sources(query, i)} :
                 LET left == InferType(ont, query, i, y.l)
                     right == InferType(ont, query, i, y.r)
                 IN ~Compatible(left, right) /\ ~IsDateComparison(left, right, y)}} :
             i \in DOMAIN query.selects}

-----------------------------------------------------------------------------
(* GROUP BY.  An aggregate of a window groups nothing.                     *)

GroupingAggregates(query, i) == {a \in query.selects[i].aggs : ~a.windowed}

IsRealColumn(ont, query, name) ==
    \E t \in AllNames(query) \cap DOMAIN ont.tables : name \in DOMAIN ont.tables[t]

(* Grouping by an alias groups by what it stands for, unless the name is a *)
(* column as well.                                                         *)
GroupedBy(ont, query, i) ==
    LET s == query.selects[i]
        throughAlias == {o \in s.outputs :
            /\ o.c # Unset /\ o.alias # Unset
            /\ [q |-> Unset, c |-> o.alias] \in s.keys
            /\ ~IsRealColumn(ont, query, o.alias)}
    IN s.keys \cup UNION {{[q |-> o.q, c |-> o.c], [q |-> Unset, c |-> o.c]} : o \in throughAlias}

Ungrouped(ont, query, i) ==
    {o \in query.selects[i].outputs :
       /\ o.c # Unset
       /\ {[q |-> o.q, c |-> o.c], [q |-> Unset, c |-> o.c]} \cap GroupedBy(ont, query, i) = {}
       /\ \A a \in GroupingAggregates(query, i) : \A r \in a.values \cup a.tests :
            ~(r.c = o.c /\ (r.q = o.q \/ o.alias # Unset))}

ValidateAggregationContext(ont, query) ==
    UNION {{Issue("non_aggregated_column", "error", << o.c >>) : o \in Ungrouped(ont, query, i)} :
             i \in {k \in DOMAIN query.selects : GroupingAggregates(query, k) # {}}}

-----------------------------------------------------------------------------
(* SUM only what can be summed.                                            *)

(* _resolve_column_schema: unless a WITH alias could have provided it, or  *)
(* more than one table does.                                               *)
MeasuredIn(ont, query, i, ref) ==
    LET found == QualifierSource(query, i, ref.q)
        local == IF \E s \in Sources(query, i) : IsCteReference(query, i, s) THEN {}
                 ELSE Names(query, i)
        tables == IF ref.q = Unset THEN local
                  ELSE IF found = << >> \/ IsCteReference(query, found[1].at, found[1].source)
                  THEN {} ELSE {found[1].source.table}
        owners == {t \in tables \cap DOMAIN ont.tables : ref.c \in DOMAIN ont.tables[t]}
    IN IF Cardinality(owners) = 1 THEN owners ELSE {}

MeasureIssues(ont, query) ==
    LET judged(i) == UNION {UNION {{<< t, r.c >> : t \in MeasuredIn(ont, query, i, r)} :
                              r \in a.values} : a \in {x \in query.selects[i].aggs : x.fn = "sum"}}
        bad(t, c) == ont.tables[t][c].measure \in {"attribute", "non_additive"}
    IN {Issue("invalid_aggregation",
              IF ont.tables[m[1]][m[2]].structural THEN "error" ELSE "warning", m) :
          m \in {x \in UNION {judged(i) : i \in DOMAIN query.selects} : bad(x[1], x[2])}}
=============================================================================
