-------------------------- MODULE OntologyGenerator --------------------------
(***************************************************************************)
(* OntologyGenerator.generate_from_schema: the ontology of a schema, in    *)
(* the form PreparedOntology reads: the keys the database declares, those  *)
(* the names of columns suggest, how each column may be aggregated, and    *)
(* which tables are disjoint.                                              *)
(*                                                                         *)
(* A schema is a sequence of tables (name, schema, columns, primaryKeys,   *)
(* foreignKeys) and one of views (name, columns).  Its names are compared  *)
(* in pieces: Spelling cuts a name, in lower case, so finely that what two *)
(* names have in common and endings like "s" and "id" are pieces.          *)
(* A data type is its whole words and the known words it contains (for     *)
(* "date" and "time": begins with).  Names whose URIs coincide (clean_name)*)
(* are not modelled.                                                       *)
(***************************************************************************)
EXTENDS PreparedOntology
LOCAL INSTANCE FiniteSetsExt
LOCAL INSTANCE SequencesExt
LOCAL INSTANCE Functions

CONSTANTS
    Spelling,       \* name -> the sequence of its pieces
    Letters,        \* piece -> how many letters it has
    NonAdditive, SemiAdditive, Additive,    \* what the names of measures contain
    Quantity        \* what the names of quantities contain

Length(text) == FoldLeft(LAMBDA n, piece : n + Letters[piece], 0, text)
EndsWith(text, ending) == IsSuffix(ending, text)
Without(text, n) == SubSeq(text, 1, Len(text) - n)
In(text, name) == text \in SubSeqs(name)
NamedWith(name, texts) == \E text \in texts : In(text, Spelling[name])

(* The first, in order, of what is there.                                  *)
FirstOf(options) ==
    LET there == SelectSeq(options, LAMBDA x : x # {}) IN IF there = << >> THEN {} ELSE there[1]

(* What the first of some rules that a test accepts says.                  *)
Settled(rules, Accepts(_), otherwise) ==
    LET hits == SelectSeq(rules, LAMBDA rule : Accepts(rule[1]))
    IN IF hits = << >> THEN otherwise ELSE hits[1][2]

-----------------------------------------------------------------------------
(* Which table a text names.                                               *)

Singular(text) ==
    CASE EndsWith(text, << "i", "e", "s" >>) -> {Without(text, 3) \o << "y" >>}
      [] EndsWith(text, << "e", "s" >>) /\ ~EndsWith(text, << "i", "e", "s" >>) ->
           {Without(text, 2)}
      [] EndsWith(text, << "s" >>) /\ ~EndsWith(text, << "e", "s" >>) -> {Without(text, 1)}
      [] OTHER -> {}

Variations(table) == {Spelling[table.name]} \cup Singular(Spelling[table.name])

(* rstrip takes every "s" at the end.                                      *)
Stripped(text) ==
    SubSeq(text, 1, Max({0} \cup {n \in DOMAIN text : text[n] # "s"}))

LookupForms(table) ==
    LET text == Spelling[table.name]
        ending(e, form) == IF EndsWith(text, e) THEN {form} ELSE {}
    IN {text} \cup ending(<< "s" >>, Stripped(text))
              \cup ending(<< "e", "s" >>, Without(text, 2))
              \cup ending(<< "i", "e", "s" >>, Without(text, 3) \o << "y" >>)

(* _build_table_lookup: the last table of a form has it.                   *)
LookUp(tables, text) ==
    LET having == {i \in DOMAIN tables : text \in LookupForms(tables[i])}
    IN IF having = {} THEN {} ELSE {Max(having)}

FindMatchingTable(tables, text) ==
    LET plural(ending) == LookUp(tables, text \o ending)
        singular(ending, more) ==
          IF EndsWith(text, ending) /\ Len(text) > Len(ending)
          THEN LookUp(tables, Without(text, Len(ending)) \o more) ELSE {}
    IN FirstOf(<< LookUp(tables, text), plural(<< "s" >>), plural(<< "e", "s" >>),
                  plural(<< "i", "e", "s" >>), singular(<< "i", "e", "s" >>, << "y" >>),
                  singular(<< "e", "s" >>, << >>), singular(<< "s" >>, << >>),
                  IF EndsWith(text, << "y" >>)
                  THEN LookUp(tables, Without(text, 1) \o << "i", "e", "s" >>) ELSE {} >>)

-----------------------------------------------------------------------------
(* Keys nobody declared.                                                   *)

KeyEndings == {<< "id" >>, << "_", "id" >>, << "sk" >>, << "_", "sk" >>, << >>}

(* What follows the first occurrence of a text in a name.                  *)
After(text, name) ==
    SubSeq(name, IndexFirstSubSeq(text, name) + Len(text), Len(name))

TablesCalled(tables, text) == {i \in DOMAIN tables : text \in Variations(tables[i])}

(* A table named in the column and followed by the ending of a key; the    *)
(* longest name, and of two as long the one entered first.                 *)
EmbeddedNames(tables, t, name) ==
    {text \in UNION {Variations(tables[i]) : i \in DOMAIN tables} :
       /\ Max(TablesCalled(tables, text)) # t
       /\ Length(text) >= 4
       /\ In(text, name) /\ After(text, name) \in KeyEndings}

LongestOf(tables, texts) ==
    LET rank(text) == << Length(text), Min(TablesCalled(tables, text)) >>
        before(a, b) == a[1] > b[1] \/ (a[1] = b[1] /\ a[2] <= b[2])
    IN {text \in texts : \A other \in texts : before(rank(text), rank(other))}

EmbeddedTable(tables, t, name) ==
    {[to |-> Max(TablesCalled(tables, text)), text |-> text, pattern |-> "embedded_table_name"] :
       text \in LongestOf(tables, EmbeddedNames(tables, t, name))}

(* FK_PATTERNS, in order, and what each takes for the name of a table.     *)
Extracted(name) ==
    LET trim(text) == IF Len(text) > 1 /\ Last(text) = "_" THEN Front(text) ELSE text
        suffix(text, p) ==
          IF Len(text) > 1 /\ Last(text) = p THEN {trim(Front(text))} ELSE {}
        prefix(p) ==
          IF Len(name) < 2 \/ Head(name) # p THEN {}
          ELSE {IF name[2] = "_" /\ Len(name) > 2 THEN Tail(Tail(name)) ELSE Tail(name)}
        underscores == {u \in DOMAIN name : name[u] = "_"}
        short == underscores # {} /\ Length(SubSeq(name, 1, Min(underscores) - 1)) \in 1..3
    IN << [pattern |-> "suffix_id", texts |-> suffix(name, "id")],
          [pattern |-> "prefix_id", texts |-> prefix("id")],
          [pattern |-> "prefix_fk", texts |-> prefix("fk")],
          [pattern |-> "suffix_fk", texts |-> suffix(name, "fk")],
          [pattern |-> "suffix_sk", texts |-> suffix(name, "sk")],
          [pattern |-> "tpcds_sk",
           texts |-> IF short
                     THEN suffix(SubSeq(name, Min(underscores) + 1, Len(name)), "sk") ELSE {}] >>

PatternTable(tables, t, name) ==
    LET named(x) == {[to |-> i, text |-> text, pattern |-> x.pattern] : << i, text >> \in
                       {y \in ((DOMAIN tables) \ {t}) \X x.texts :
                          Length(y[2]) >= 3 /\ y[1] \in FindMatchingTable(tables, y[2])}}
        inOrder(extracts) == FirstOf([n \in DOMAIN extracts |-> named(extracts[n])])
    IN inOrder(Extracted(name))

(* A point or two for each thing that speaks for the guess.                *)
CalculateFkConfidence(table, column, text) ==
    LET keys == SelectSeq(table.columns, LAMBDA c : Contains(table.primaryKeys, c.name))
        name == Spelling[column.name]
        alike == keys # << >> /\ (\/ "int" \in column.type.parts \cap keys[1].type.parts
                                  \/ column.type = keys[1].type)
        points == (IF alike THEN 2 ELSE 0)
                  + (IF text = Spelling[table.name] THEN 2
                     ELSE IF text \o << "s" >> = Spelling[table.name] THEN 1 ELSE 0)
                  + (IF EndsWith(name, << "id" >>) THEN 1 ELSE 0)
    IN IF points >= 4 THEN "high" ELSE IF points >= 2 THEN "medium" ELSE "low"

IsDeclared(table, column) ==
    \E n \in DOMAIN table.foreignKeys : table.foreignKeys[n].column = column.name

(* The referenced column is the first of the primary key, or "id".         *)
Guesses(tables, t, column) ==
    LET name == Spelling[column.name]
        found == IF IsDeclared(tables[t], column) \/ Contains(tables[t].primaryKeys, column.name)
                 THEN {}
                 ELSE FirstOf(<< EmbeddedTable(tables, t, name), PatternTable(tables, t, name) >>)
        key(i) == tables[i].primaryKeys
    IN {[from |-> tables[t].name, column |-> column.name, to |-> tables[f.to].name,
         target |-> IF key(f.to) = << >> THEN "id" ELSE key(f.to)[1],
         confidence |-> CalculateFkConfidence(tables[f.to], column, f.text),
         pattern |-> f.pattern, schema |-> tables[t].schema] : f \in found}

(* In the order of the tables and of their columns.                        *)
InferImplicitRelationships(tables) ==
    FlattenSeq([t \in DOMAIN tables |->
       FlattenSeq([c \in DOMAIN tables[t].columns |->
          SetToSeq(Guesses(tables, t, tables[t].columns[c]))])])

-----------------------------------------------------------------------------
(* Declared keys (foreign_keys): the entries of one constraint, or an      *)
(* entry of its own.                                                       *)

Entries(table) ==
    {n \in DOMAIN table.foreignKeys :
       Unset \notin {table.foreignKeys[n].table, table.foreignKeys[n].column}}

(* Mutant: each column is a key of its own.                                *)
KeyPerColumn(table) == {{n} : n \in Entries(table)}

ForeignKeys(table) ==
    LET entry(n) == table.foreignKeys[n]
        together(n) == {m \in Entries(table) : entry(m).constraint = entry(n).constraint
                                               /\ entry(m).table = entry(n).table}
    IN {IF entry(n).constraint = Unset THEN {n} ELSE together(n) : n \in Entries(table)}

(* _name_apart: keys to one table are told apart by their columns, then by *)
(* those they reference, then by numbers.                                  *)
Via(table, key) ==
    LET entry(n) == table.foreignKeys[n]
        listed(k) == SetToSortSeq(k, LAMBDA a, b : a < b)
        to(k) == entry(Min(k)).table
        columns(k) == [n \in DOMAIN listed(k) |-> entry(listed(k)[n]).column]
        refs(k) == [n \in DOMAIN listed(k) |-> entry(listed(k)[n]).ref]
        siblings == {k \in ForeignKeys(table) : to(k) = to(key)}
        same == {k \in siblings : columns(k) = columns(key)}
        twins == {k \in same : refs(k) = refs(key)}
    IN [columns |-> IF siblings = {key} THEN << >> ELSE columns(key),
        refs |-> IF same = {key} THEN << >> ELSE refs(key),
        number |-> IF twins = {key} THEN 0
                   ELSE Cardinality({k \in twins : Min(k) <= Min(key)})]

NoVia == [columns |-> << >>, refs |-> << >>, number |-> 0]

(* _add_relationship_to_ontology, for the entries of a key.                *)
KeyProperty(table, key) ==
    LET entries == {table.foreignKeys[n] : n \in key}
        referenced(e) == IF e.ref = Unset THEN "id" ELSE e.ref
        to == table.foreignKeys[Min(key)].table
    IN [name |-> << table.name, to, Via(table, key) >>, from |-> table.name, to |-> to,
        fks |-> {e.column : e \in entries}, refs |-> {referenced(e) : e \in entries},
        conditions |-> {[left |-> << table.name, e.column >>, right |-> << to, referenced(e) >>] :
                          e \in entries},
        constraints |-> {e.constraint : e \in entries} \ {Unset},
        type |-> "many_to_one", inferred |-> FALSE, status |-> Unset, schema |-> table.schema,
        toSchema |-> table.foreignKeys[Min(key)].schema]

(* A guess names no key: it is passed over if the only declared key, or an *)
(* earlier guess, between the tables has the name.                         *)
AddInferred(properties, guess) ==
    LET name == << guess.from, guess.to, NoVia >>
        right == << guess.to, guess.target >>
    IN IF \E p \in properties : p.name = name THEN properties
       ELSE properties \cup
            {[name |-> name, from |-> guess.from, to |-> guess.to, fks |-> {guess.column},
              refs |-> {guess.target},
              conditions |-> {[left |-> << guess.from, guess.column >>, right |-> right]},
              constraints |-> {}, type |-> "many_to_one", inferred |-> TRUE, status |-> Unset,
              schema |-> guess.schema, toSchema |-> Unset]}

-----------------------------------------------------------------------------
(* Columns.                                                                *)

Composite == {"array", "map", "struct", "json", "geometry"}
Numeric == {"int", "bigint", "decimal", "double"}
Text == {"char", "varchar", "text"}
NonNumeric == Text \cup {"date", "timestamp", "interval", "bool", "uuid", "binary"}

(* No set settles an unknown type.                                         *)
SqlTypeKind(type) ==
    Settled(<< << Composite, "non_numeric" >>, << Numeric, "numeric" >>,
               << NonNumeric, "non_numeric" >> >>,
            LAMBDA words : type.tokens \cap words # {}, "unknown")

Measure(measure, structural) == [measure |-> measure, structural |-> structural]

(* A key, declared or guessed, is no measure, whatever it is called.       *)
ClassifyMeasure(table, column, guessed) ==
    LET kind == SqlTypeKind(column.type)
        byName == Settled(<< << NonAdditive, "non_additive" >>,
                             << SemiAdditive, "semi_additive" >>, << Additive, "additive" >> >>,
                          LAMBDA texts : NamedWith(column.name, texts), "none")
    IN IF \/ Contains(table.primaryKeys, column.name) \/ IsDeclared(table, column)
          \/ << table.name, column.name >> \in guessed
          \/ kind = "non_numeric" THEN Measure("attribute", TRUE)
       ELSE IF kind = "unknown" THEN Measure("none", FALSE)
       ELSE Measure(byName, FALSE)

(* _map_sql_to_xsd, as far as types are told apart when compared: the      *)
(* words are looked for anywhere in the type, in this order.               *)
MapSqlToXsd(column) ==
    LET has(words) == column.type.parts \cap words # {}
        fraction == {"float", "double", "decimal", "numeric", "real"}
    IN IF has(fraction) /\ NamedWith(column.name, Quantity) THEN "numeric"
       ELSE Settled(<< << {"int", "serial"}, "numeric" >>,
                       << Text \cup {"string", "blob"}, "string" >>,
                       << {"date", "time"}, "temporal" >>,
                       << fraction \cup {"number", "money"}, "numeric" >>,
                       << {"bool", "bit"}, "boolean" >>,
                       << {"binary", "bytea"}, Unset >> >>, has, "string")

Described(type, measure) ==
    [type |-> type, measure |-> measure.measure, structural |-> measure.structural]

ColumnsOf(table, guessed) ==
    LET at(c) == CHOOSE x \in Range(table.columns) : x.name = c
        described(column) ==
          Described(MapSqlToXsd(column), ClassifyMeasure(table, column, guessed))
    IN [c \in {x.name : x \in Range(table.columns)} |-> described(at(c))]

-----------------------------------------------------------------------------
(* _add_disjoint_axioms: tables that reference one table, and not one      *)
(* another, by a key declared or kept.                                     *)
Disjoint(tables, properties) ==
    LET keys == {<< p.from, p.to >> : p \in properties}
                \cup UNION {{<< tables[t].name, e.table >> : e \in Range(tables[t].foreignKeys)} :
                              t \in DOMAIN tables}
        known == {tables[t].name : t \in DOMAIN tables}
    IN {{a, b} : << a, b >> \in
          {pair \in known \X known :
             /\ pair[1] # pair[2]
             /\ {pair, << pair[2], pair[1] >>} \cap keys = {}
             /\ \E d \in {k[2] : k \in keys} \ {Unset} :
                  {<< pair[1], d >>, << pair[2], d >>} \subseteq keys}}

(* A view has columns, if they are known, and no keys.                     *)
ViewsOf(views) ==
    [name \in {v.name : v \in Range(views)} |->
       UNION {{c.name : c \in Range(v.columns)} : v \in {x \in Range(views) : x.name = name}}]

DeclaredProperties(tables) ==
    UNION {{KeyProperty(tables[t], key) : key \in ForeignKeys(tables[t])} : t \in DOMAIN tables}

TablesOf(tables, guessed) ==
    LET named(name) == CHOOSE t \in Range(tables) : t.name = name
    IN [name \in {t.name : t \in Range(tables)} |-> ColumnsOf(named(name), guessed)]

OntologyOf(schema, guessed, properties) ==
    [tables |-> TablesOf(schema.tables, guessed), properties |-> properties,
     disjoint |-> Disjoint(schema.tables, properties), views |-> ViewsOf(schema.views)]

(* Guesses are made before the columns are written, which they classify,   *)
(* kept or not, and added after the declared keys.                         *)
WithGuesses(schema, guesses) ==
    OntologyOf(schema, {<< g.from, g.column >> : g \in Range(guesses)},
               FoldLeft(AddInferred, DeclaredProperties(schema.tables), guesses))

GenerateFromSchema(schema, includeInferred) ==
    WithGuesses(schema, IF includeInferred THEN InferImplicitRelationships(schema.tables)
                        ELSE << >>)
=============================================================================
