-------------------------- MODULE MCGraphNavigation --------------------------
(* GraphNavigation for TLC: two schemas whose tables share a bare name,    *)
(* keys within a schema and across, an inferred key beside a declared one, *)
(* a table that references itself, a cycle of keys, a table with a dot in  *)
(* its name, and reports that drop a table or a key.                       *)
EXTENDS GraphNavigation

Key(column, table, inferred) ==
    [column |-> column, table |-> table, referenced |-> <<"k">>, inferred |-> inferred]
TableOf(schema, name, fks) ==
    [schema |-> schema, name |-> name, columns |-> {<<"k">>}, fks |-> fks]

S == <<"s">>   T == <<"t">>
Orders == <<"o">>   Customer == <<"c">>   Region == <<"r">>   Product == <<"p">>
Dotted == <<"s", ".", "o">>

Report(schema, tables) == [schema |-> schema, tables |-> tables, views |-> {}]

MCReports ==
  { Report(S, { TableOf(S, Orders, << Key(<<"x">>, Customer, FALSE), Key(<<"y">>, Customer, TRUE),
                                      Key(<<"p">>, Product, FALSE) >>),
                TableOf(S, Customer, << Key(<<"r">>, Region, FALSE), Key(<<"p">>, Product, FALSE) >>),
                TableOf(S, Region, << >>) }),
    Report(S, { TableOf(S, Orders, << Key(<<"r">>, Region, FALSE) >>),
                TableOf(S, Region, << Key(<<"p">>, Region, FALSE), Key(<<"y">>, Customer, TRUE) >>) }),
    Report(T, { TableOf(T, Region, << Key(<<"x">>, Dotted, FALSE), Key(<<"p">>, Product, TRUE) >>),
                TableOf(T, Dotted, << Key(<<"r">>, Region, FALSE), Key(<<"o">>, Orders, FALSE),
                                      Key(<<"y">>, Customer, TRUE) >>),
                TableOf(T, Product, << >>) }) }

MCAssertions ==
  << [source |-> <<"O">>, column |-> <<"z">>, placed |-> S,
      target |-> Region, referenced |-> <<"k">>],
     [source |-> Customer, column |-> <<"z">>, placed |-> NoSchema,
      target |-> Region, referenced |-> <<"k">>],
     [source |-> Region, column |-> <<"z">>, placed |-> NoSchema,
      target |-> Orders, referenced |-> <<"k">>] >>

MCSchemas == {S, T}
=============================================================================
