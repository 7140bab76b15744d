----------------------------- MODULE MCRetrieval -----------------------------
(* Retrieval for TLC: names of up to three characters of which some need   *)
(* quotes; four tables in two schemas, two of which share a bare name, one *)
(* with a dot in its name and one column name with a dot.                  *)
EXTENDS Retrieval

Char == {"a", Dot, Quote}
Text(low, high) == UNION {[1..n -> Char] : n \in low..high}

TableOf(schema, name, columns, fks) ==
    [schema |-> schema, name |-> name, columns |-> columns, fks |-> fks]
Key(column, table) ==
    [column |-> column, table |-> table, referenced |-> <<"a">>, inferred |-> FALSE]

S == <<"s">>   A == <<"a">>   B == <<"b">>   AA == <<"a", ".", "a">>
Tables ==
  { TableOf(S, A, {A, B}, << Key(B, B), Key(A, AA) >>),
    TableOf(S, B, {A}, << >>),
    TableOf(S, AA, {B}, << >>),
    TableOf(B, A, {AA}, << >>) }

MCIndexed == PublishSchema(NewManager(S), [schema |-> S, tables |-> Tables, views |-> {}], FALSE)

MCNameQuestions == [schema : {S, B} \cup Text(0, 2), table : Text(1, 3) \cup {B} \cup {Identity(t) : t \in Tables}]

(* What a search returns: distinct hits, best first.                       *)
Scores == 1..2
TableHits ==
    LET ids == {Identity(t) : t \in Tables}
        hit == [table : ids, column : {NoTable}, score : Scores]
    IN {<< >>} \cup {<<h>> : h \in hit}
       \cup {p \in hit \X hit : p[1].table # p[2].table /\ p[1].score >= p[2].score}

ContextHits ==
    LET hit == [target : {Qualified(S, A), <<"b", ".", "a">>, <<"s", ".", "a", ".", "b">>},
                score : 1..2]
    IN {<< >>} \cup {<<h>> : h \in hit} \cup {p \in hit \X hit : p[1].target # p[2].target /\ p[1].score >= p[2].score}

ColumnHits ==
    { << >>, << [table |-> Qualified(S, B), column |-> A, score |-> 2] >> }

MCHitQuestions ==
    [tables : TableHits, columns : ColumnHits, contexts : ContextHits, limit : 1..2]
=============================================================================
