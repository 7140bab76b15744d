--------------------------- MODULE MCGraphRAGIndex ---------------------------
(* GraphRAGIndex for TLC: a schema reported twice, with a table more the   *)
(* first time, and another schema.                                         *)
EXTENDS GraphRAGIndex

TableOf(schema, name) == [schema |-> schema, name |-> name, columns |-> {}, fks |-> << >>]
Report(schema, names) ==
    [schema |-> schema, tables |-> {TableOf(schema, n) : n \in names}, views |-> {}]

MCReports == { Report(<<"s">>, {<<"a">>, <<"b">>}), Report(<<"s">>, {<<"b">>, <<"c">>}),
               Report(<<"t">>, {<<"a">>}) }

(* Bound: a second life of the runtime, or a cleanup in the first, but not *)
(* both in one behaviour.                                                  *)
LifeOrCleanup == life + cleanups <= 2
=============================================================================
