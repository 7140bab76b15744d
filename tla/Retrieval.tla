------------------------------ MODULE Retrieval ------------------------------
(***************************************************************************)
(* The read side of the index, question by question: how a name a caller   *)
(* gives is written and read back, which table it means, and how a         *)
(* question's context ranks the hits of the vector search with the         *)
(* business names people recorded.  The graph does not change here;        *)
(* GraphNavigation is about its changes.                                   *)
(***************************************************************************)
EXTENDS GraphRAGManager

CONSTANTS
    Indexed,        (* the manager the questions are put to                *)
    NameQuestions,  (* records: schema, table                              *)
    HitQuestions    (* records: tables, columns, contexts (hits of the     *)
                    (* three searches) and limit                           *)

VARIABLES question, answer

vars == << question, answer >>

NoAnswer == [kind |-> "none"]

Init ==
    /\ question \in [kind : {"name"}, of : NameQuestions] \cup [kind : {"hits"}, of : HitQuestions]
    /\ answer = NoAnswer

(* _resolve_table_for_session: the caller's text, in its own schema.       *)
AskName ==
    /\ question.kind = "name" /\ answer = NoAnswer
    /\ answer' = [kind |-> "table",
                  identity |-> Qualified(question.of.schema, question.of.table),
                  of |-> ResolveName(Indexed.graph, question.of.table, question.of.schema)]
    /\ UNCHANGED question

AskContext ==
    /\ question.kind = "hits" /\ answer = NoAnswer
    /\ answer' = [kind |-> "context",
                  of |-> QueryContext(Indexed, Indexed.graph, question.of.tables,
                                      question.of.columns, question.of.contexts,
                                      question.of.limit, question.of.limit)]
    /\ UNCHANGED question

Next == AskName \/ AskContext

Spec == Init /\ [][Next]_vars

-----------------------------------------------------------------------------
(* An identity is read back as the schema and the table it was made of, a  *)
(* dot or a quote in either notwithstanding, so no two tables share one    *)
(* (qualified, split).                                                     *)
IdentitiesRoundTrip ==
    answer.kind = "table" => Split(answer.identity) = question.of

(* Resolving through the index of bare names says what walking every known *)
(* identity would say (GraphRetriever.resolve_name, identity.resolve).     *)
IndexResolvesAlike ==
    answer.kind = "table" =>
      answer.of = Resolve(question.of.table, Nodes(Indexed.graph), question.of.schema)

(* A name several schemas share is never guessed: it means a table only as *)
(* an identity, in the caller's own schema, or because there is one.       *)
NeverGuessed ==
    (answer.kind = "table" /\ Found(answer.of)) =>
      LET name == question.of.table
          id == answer.of.identity
          alike == {x \in Nodes(Indexed.graph) : DisplayName(x) = name}
      IN \/ id = name /\ name \in Nodes(Indexed.graph)
         \/ id \in alike /\ Split(id).schema = question.of.schema
         \/ alike = {id}

(* The tables a context lists are the best of the search and the business  *)
(* names together: each once, best first, at its best score, and none left *)
(* out that beats one listed (_merge_table_hits).                          *)
ContextIsBestFirst ==
    answer.kind = "context" =>
      \A offers \in {{[table |-> h.table, score |-> h.score] :
                       h \in Range(question.of.tables)
                             \cup Range(BusinessMatches(Indexed.graph, question.of.contexts))}} :
      LET listed == answer.of.primary
          tables == {o.table : o \in offers}
          best == [t \in tables |-> CHOOSE s \in {o.score : o \in offers} :
                     /\ [table |-> t, score |-> s] \in offers
                     /\ \A o \in offers : o.table = t => o.score <= s]
      IN /\ \A i, j \in DOMAIN listed : i < j =>
              listed[i].score >= listed[j].score /\ listed[i].table # listed[j].table
         /\ \A i \in DOMAIN listed : listed[i].score = best[listed[i].table]
         /\ Len(listed) = Min({Cardinality(tables), question.of.limit})
         /\ \A t \in tables \ {h.table : h \in Range(listed)} :
              \A i \in DOMAIN listed : best[t] <= listed[i].score

(* A business name recorded for a table's column, in the form the docs     *)
(* give, reaches that column's table even where the text has other dots:   *)
(* it is dropped only when it can be read in two ways (_resolve_target).   *)
ColumnNamesReachTheirTable ==
    (answer.kind = "context") =>
      \A i \in DOMAIN question.of.contexts :
         \A readings \in {Readings(Indexed.graph, question.of.contexts[i].target)} :
         LET target == question.of.contexts[i].target
         IN \A id \in Nodes(Indexed.graph) : \A c \in Indexed.graph.tables[id].columns :
              target \in {id \o <<Dot>> \o c, DisplayName(id) \o <<Dot>> \o c} =>
                /\ [table |-> id, column |-> c] \in readings
                /\ (\A r \in readings : r = [table |-> id, column |-> c]) /\ question.of.limit >= 2 =>
                     \/ \E h \in Range(answer.of.columns) : h.table = id /\ h.column = c
                     \/ \A h \in Range(answer.of.columns) :
                          h.score >= question.of.contexts[i].score

(* A table's identity, and the names that lead to it, its columns' too.    *)
NamesLeadToOneTable ==
    IdentitiesRoundTrip /\ IndexResolvesAlike /\ NeverGuessed /\ ColumnNamesReachTheirTable
=============================================================================
