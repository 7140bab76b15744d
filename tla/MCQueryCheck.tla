---------------------------- MODULE MCQueryCheck ----------------------------
(***************************************************************************)
(* Four workloads.  Orders and their items, related by up to two keys,     *)
(* each declared, guessed or not there, and by one over both columns or    *)
(* not, joined in every way on three of the equalities.  Queries with two  *)
(* WITH aliases, one of which may be called like a table, and a subquery,  *)
(* each reading any of the names.  Customers, orders and items joined on   *)
(* any of three equalities, one of them no relationship.  Orders and items *)
(* again, whose ontologies are generated from schemas.                     *)
(***************************************************************************)
EXTENDS QueryCheck, TLC
LOCAL INSTANCE SequencesExt
LOCAL INSTANCE Functions

Col(type) == [type |-> type, measure |-> "none", structural |-> FALSE]
Amount == [type |-> "numeric", measure |-> "non_additive", structural |-> TRUE]
Column(q, c) == [q |-> q, c |-> c, type |-> Unset]
Equal(a, b) == [l |-> a, r |-> b, equal |-> TRUE, conjunct |-> TRUE, wrapped |-> FALSE,
                dated |-> FALSE]
Sum(q, c) == [fn |-> "sum", distinct |-> FALSE, windowed |-> FALSE,
              values |-> {[q |-> q, c |-> c]}, tests |-> {}]
Source(table, alias, joined, on) ==
    [table |-> table, alias |-> alias, catalog |-> FALSE, joined |-> joined, on |-> on]
Select(up, body, position, ctes, recursive, sources, aggs, outputs) ==
    [up |-> up, body |-> body, position |-> position, ctes |-> ctes, recursive |-> recursive,
     sources |-> sources, where |-> {}, aggs |-> aggs, outputs |-> outputs, keys |-> {},
     others |-> {}]
Query(selects) == [dialect |-> "duckdb", selects |-> selects]

Property(from, to, pairs, constraint, inferred) ==
    [from |-> from, to |-> to, fks |-> {p[1] : p \in pairs}, refs |-> {p[2] : p \in pairs},
     conditions |-> {[left |-> << from, p[1] >>, right |-> << to, p[2] >>] : p \in pairs},
     constraints |-> constraint, type |-> "many_to_one", inferred |-> inferred,
     status |-> Unset, schema |-> "s", toSchema |-> "s"]
Ontology(tables, properties) ==
    [tables |-> tables, properties |-> properties, disjoint |-> {}, views |-> << >>,
     declared |-> {[from |-> p.from, to |-> p.to,
                    pairs |-> {<< c.left[2], c.right[2] >> : c \in p.conditions}] :
                     p \in {x \in properties : ~x.inferred}}]

-----------------------------------------------------------------------------
Tables == [customers |-> [cid |-> Col("numeric")],
           orders |-> [id |-> Col("numeric"), code |-> Col("numeric"), cid |-> Col("numeric")],
           items |-> [pid |-> Col("numeric"), pcode |-> Col("numeric")]]

Pair == [t \in {"orders", "items"} |-> [c \in (DOMAIN Tables[t]) \ {"cid"} |-> Tables[t][c]]]

(* Absent, declared or guessed.                                            *)
Maybe(pairs, constraint) ==
    {{}} \cup {{Property("items", "orders", pairs, constraint, g)} : g \in BOOLEAN}

ById == {<< "pid", "id" >>}
ByCode == {<< "pcode", "code" >>}

Verdicts ==
    {[schema |-> "s", from |-> "items", column |-> p[1], to |-> "orders", toSchema |-> "s",
      toColumn |-> p[2],
      status |-> Classify(100, s.matched, 10, s.distinct)] :
        p \in ById \cup ByCode,
        s \in {[matched |-> 100, distinct |-> 10], [matched |-> 50, distinct |-> 10],
               [matched |-> 100, distinct |-> 9]}}

PairQueries ==
    LET on == SUBSET {Equal(Column("i", "pid"), Column("o", "id")),
                      Equal(Column("i", "pcode"), Column("o", "code")),
                      Equal(Column("o", "code"), Column("i", "pid"))}
        from(joined, x) == [o |-> Source("orders", "o", joined, x),
                            i |-> Source("items", "i", joined, x)]
    IN {Query(<< Select(0, FALSE, 0, << >>, FALSE,
                        << from("from", {})[h[1]], from("on", x)[h[2]] >>, {m}, {}) >>) :
          h \in {<< "o", "i" >>, << "i", "o" >>}, x \in on,
          m \in {Sum("o", "id"), Sum("i", "pid")}}

PairWorkload ==
    [ontologies |-> {Ontology(Pair, a \cup b \cup c) :
                       a \in Maybe(ById, {"k1"}), b \in Maybe(ByCode, {"k2"}),
                       c \in {{}, {Property("items", "orders", ById \cup ByCode, {"k3"}, FALSE)}}},
     schemas |-> {},
     verdicts |-> Verdicts, queries |-> PairQueries]

-----------------------------------------------------------------------------
(* The outer query declares two aliases; each body, a subquery of the first*)
(* body, and the outer query read one name; the subquery has an alias of   *)
(* its own.                                                                *)
ScopeNames == {"orders", "items", "c"}

ScopeQueries ==
    LET reads(t, c) == [sources |-> << Source(t, "x", "from", {}) >>,
                        outputs |-> {[q |-> Unset, c |-> c, alias |-> Unset]}]
        scope(up, body, position, ctes, recursive, t, c, aggs) ==
          Select(up, body, position, ctes, recursive, reads(t, c).sources, aggs,
                 reads(t, c).outputs)
    IN {Query(<< scope(0, FALSE, 0, ctes, recursive, t[1], "id", {Sum("x", "id")}),
                 scope(1, TRUE, 1, << >>, FALSE, t[2], "id", {}),
                 scope(2, FALSE, 0, inner, FALSE, t[3], "pid", {}),
                 scope(1, TRUE, 2, << >>, FALSE, t[4], "id", {Sum("x", "id")}) >>) :
          ctes \in {<< "orders", "c" >>, << "c", "orders" >>, << "items", "c" >>},
          recursive \in BOOLEAN, inner \in {<< >>, << "orders" >>},
          t \in [1..4 -> ScopeNames]}

ScopeWorkload ==
    [ontologies |-> {Ontology([orders |-> [id |-> Amount, code |-> Col("numeric")],
                               items |-> [pid |-> Col("numeric")]], {})},
     schemas |-> {}, verdicts |-> {}, queries |-> ScopeQueries]

-----------------------------------------------------------------------------
Chain == {Property("orders", "customers", {<< "cid", "cid" >>}, {"k1"}, FALSE),
          Property("items", "orders", ById, {"k2"}, FALSE)}

ChainQueries ==
    LET on == SUBSET {Equal(Column("o", "cid"), Column("c", "cid")),
                      Equal(Column("i", "pid"), Column("o", "id")),
                      Equal(Column("i", "pcode"), Column("c", "cid"))}
        about(x, handles) == {y \in x : y.l.q \in handles /\ y.r.q \in handles}
        last(x) == about(x, {"c", "o", "i"}) \ about(x, {"c", "o"})
    IN {Query(<< Select(0, FALSE, 0, << >>, FALSE,
                        << Source("customers", "c", "from", {}),
                           Source("orders", "o", "on", about(x, {"c", "o"})),
                           Source("items", "i", "on", last(x)) >>, {m}, {}) >>) :
          x \in {y \in on : about(y, {"c", "o"}) # {} /\ last(y) # {}},
          m \in {Sum("c", "cid"), Sum("o", "id"), Sum("i", "pid")}}
       \cup
       {Query(<< Select(0, FALSE, 0, << >>, FALSE,
                        << Source("customers", "c", "from", {}), Source("orders", "o", "bare", {}),
                           Source("items", "i", "bare", {}) >>, {m}, {}) >>) :
          m \in {Sum("o", "id")}}

ChainWorkload ==
    [ontologies |-> {Ontology(Tables, Chain)}, schemas |-> {},
     verdicts |-> {v \in Verdicts : v.column = "pid" /\ v.status = "target_not_unique"},
     queries |-> ChainQueries]

(* Schemas: items and orders, declared to be related or not, and the keys  *)
(* that the names of their columns suggest.                                *)
MCSpelling ==
    [categories |-> << "categor", "i", "e", "s" >>, orders |-> << "order", "s" >>,
     items |-> << "item", "s" >>, refunds |-> << "refund", "s" >>,
     credits |-> << "credit", "s" >>, id |-> << "id" >>, code |-> << "code" >>,
     category_fk |-> << "categor", "y", "_", "fk" >>, pid |-> << "order", "_", "id" >>,
     pcode |-> << "bill", "_", "order", "_", "id" >>]
MCLetters ==
    [categor |-> 7, refund |-> 6, credit |-> 6, order |-> 5, item |-> 4, bill |-> 4,
     code |-> 4, id |-> 2, fk |-> 2, s |-> 1, e |-> 1, i |-> 1, y |-> 1] @@ ("_" :> 1)
MCNonAdditive == {<< "_", "price" >>}
MCSemiAdditive == {<< "stock" >>}
MCAdditive == {<< "amount" >>}
MCQuantity == {<< "quantity" >>}

Table(name, columns, primaryKeys, foreignKeys) ==
    [name |-> name, schema |-> "s", columns |-> columns, primaryKeys |-> primaryKeys,
     foreignKeys |-> foreignKeys]
BigInt(name) == [name |-> name, type |-> [tokens |-> {"bigint"}, parts |-> {"int"}]]

(* An entry for each column of each key, as drivers report them.           *)
EntriesOf(keys) ==
    LET entries(key) == [n \in DOMAIN key.pairs |->
          [column |-> key.pairs[n][1], table |-> "orders", ref |-> key.pairs[n][2],
           constraint |-> key.constraint, schema |-> "s"]]
    IN FlattenSeq([k \in DOMAIN keys |-> entries(keys[k])])

Key(pairs, constraint) == [pairs |-> pairs, constraint |-> constraint]
ToId == << "pid", "id" >>
ToCode == << "pcode", "code" >>
BillToId == << "pcode", "id" >>

(* One key or two, unnamed or named, one of them over both columns.        *)
DeclaredKeys ==
    {<< >>,
     << Key(<< ToId >>, Unset) >>,
     << Key(<< BillToId >>, Unset) >>,
     << Key(<< ToId >>, Unset), Key(<< ToCode >>, Unset) >>,
     << Key(<< BillToId >>, Unset), Key(<< ToCode >>, Unset) >>,
     << Key(<< ToId >>, "k1"), Key(<< BillToId >>, "k2") >>,
     << Key(<< ToId, ToCode >>, "k1") >>,
     << Key(<< ToId, ToCode >>, "k1"), Key(<< ToId >>, "k2") >>}

Schema(keys, primary) ==
    LET columns(names) == [n \in DOMAIN names |-> BigInt(names[n])]
    IN [tables |-> << Table("categories", columns(<< "id" >>), << "id" >>, << >>),
                      Table("refunds", columns(<< "category_fk" >>), << >>, << >>),
                      Table("credits", columns(<< "category_fk" >>), << >>, << >>),
                      Table("orders", columns(<< "id", "code" >>), primary, << >>),
                      Table("items", columns(<< "pid", "pcode" >>), << >>, EntriesOf(keys)) >>,
        views |-> << [name |-> "summary", columns |-> columns(<< "id" >>)] >>,
        declared |-> {[from |-> "items", to |-> "orders", pairs |-> Range(key.pairs)] :
                        key \in Range(keys)}]

GeneratedQueries ==
    LET on == SUBSET {Equal(Column("i", "pid"), Column("o", "id")),
                      Equal(Column("i", "pcode"), Column("o", "code")),
                      Equal(Column("i", "pcode"), Column("o", "id"))}
        from(joined, x) == [o |-> Source("orders", "o", joined, x),
                            i |-> Source("items", "i", joined, x)]
    IN {Query(<< Select(0, FALSE, 0, << >>, FALSE,
                        << from("from", {})[h[1]], from("on", x)[h[2]] >>, {m}, {}) >>) :
          h \in {<< "o", "i" >>, << "i", "o" >>}, x \in on \ {{}},
          m \in {Sum("o", "code"), Sum("i", "pid")}}

GeneratedWorkload ==
    [ontologies |-> {},
     schemas |-> {Schema(keys, primary) :
                    keys \in DeclaredKeys, primary \in {<< >>, << "id" >>, << "code" >>}},
     verdicts |-> {v \in Verdicts : v.column = "pid"}, queries |-> GeneratedQueries]

MCWorkloads == << PairWorkload, ScopeWorkload, ChainWorkload, GeneratedWorkload >>
=============================================================================
