-------------------------- MODULE PreparedOntology --------------------------
(***************************************************************************)
(* What query validation reads out of an ontology (prepare_ontology), and  *)
(* the verdicts validate_relationship writes into it.                      *)
(*                                                                         *)
(* An ontology is a record of its annotated tables (name to columns), its  *)
(* object properties, its owl:disjointWith pairs and its views (name to    *)
(* columns, {} when they are not known).  A property holds sets of key and *)
(* referenced columns, which do not say which goes with which, and the     *)
(* equalities of its join conditions, which do.  Case is not modelled.     *)
(***************************************************************************)
EXTENDS Naturals, FiniteSets, Sequences
LOCAL INSTANCE FiniteSetsExt
LOCAL INSTANCE SequencesExt

Unset == "unset"            \* None, of a status, schema or qualifier

Checked == {"confirmed", "partial", "target_not_unique"}

(* One key over several columns: its constraint is named exactly once.     *)
IsCompositeKey(p) == Cardinality(p.fks) > 1 /\ Cardinality(p.constraints) = 1

(* A check counts one key column against one referenced column.            *)
Checkable(p) == Cardinality(p.fks) <= 1 /\ Cardinality(p.refs) <= 1

(* _key_column_pairs.  The key side may be written on either side; a key   *)
(* whose columns are not all compared cannot be paired.                    *)
WrittenPairs(p) ==
    {<< c.left[2], c.right[2] >> :
        c \in {x \in p.conditions : x.left[1] = p.from /\ x.left[2] \in p.fks}}
    \cup {<< c.right[2], c.left[2] >> :
        c \in {x \in p.conditions : /\ ~(x.left[1] = p.from /\ x.left[2] \in p.fks)
                                    /\ x.right[1] = p.from /\ x.right[2] \in p.fks}}

KeyColumnPairs(p) ==
    IF Cardinality(p.fks) = 1
    THEN p.fks \X (IF p.refs = {} THEN {"id"} ELSE p.refs)
    ELSE IF {pair[1] : pair \in WrittenPairs(p)} = p.fks THEN WrittenPairs(p) ELSE {}

(* Columns of one constraint are a key together, other columns each are a  *)
(* key of their own; columns that cannot be paired are read as one of them.*)
Keys(p) ==
    LET pairs == KeyColumnPairs(p)
    IN IF Cardinality(pairs) > 1 /\ IsCompositeKey(p) THEN {pairs}
       ELSE IF pairs # {} THEN {{pair} : pair \in pairs}
       ELSE {{<< CHOOSE c \in p.fks : TRUE,
                 IF p.refs = {} THEN "id" ELSE CHOOSE c \in p.refs : TRUE >>}}

(* A verdict is heard only where it can be about one key.                  *)
StatusOf(p) == IF Checkable(p) THEN p.status ELSE Unset

Usable(ont) == {p \in ont.properties : p.fks # {} /\ p.from \in DOMAIN ont.tables}

Relationships(ont) ==
    UNION {{[from |-> p.from, to |-> p.to, pairs |-> key, type |-> p.type,
             inferred |-> p.inferred, status |-> StatusOf(p)] : key \in Keys(p)} :
           p \in {x \in Usable(ont) : StatusOf(x) # "refuted"}}

RefutedLinks(ont) ==
    {<< p.from, p.to >> : p \in {x \in Usable(ont) : StatusOf(x) = "refuted"}}

(* Only naming backs it; the data showed it repeats.                       *)
Assumed(rel) == rel.inferred /\ rel.status \notin Checked
TargetNotUnique(rel) == rel.status = "target_not_unique"

(* OBQC needs a table and a column it can name.                            *)
CheckCompatibility(ont) ==
    /\ ont.tables # << >>
    /\ \E t \in DOMAIN ont.tables : ont.tables[t] # << >>

PrepareOntology(ont) ==
    [tables |-> ont.tables, relationships |-> Relationships(ont),
     refuted |-> RefutedLinks(ont), disjoint |-> {d \in ont.disjoint : Cardinality(d) = 2},
     views |-> ont.views, compatible |-> CheckCompatibility(ont)]

-----------------------------------------------------------------------------
(* relationship_validation.  Ratios of 99 and 90 in the hundred.           *)

Classify(checkedRows, matched, targetRows, distinct) ==
    CASE checkedRows <= 0 -> "no_data"
      [] checkedRows > 0 /\ distinct < targetRows -> "target_not_unique"
      [] OTHER -> IF 100 * matched >= 99 * checkedRows THEN "confirmed"
                  ELSE IF 100 * matched >= 90 * checkedRows THEN "partial"
                  ELSE "refuted"

(* The properties stating a relationship from a column (find_relationships)*)
FindRelationships(ont, table, column, to) ==
    {p \in Usable(ont) : p.from = table /\ column \in p.fks /\ to \in {p.to, Unset}}

RefOf(p, column) ==
    [schema |-> p.schema, from |-> p.from, column |-> column, toSchema |-> p.toSchema,
     to |-> p.to, toColumns |-> IF p.refs = {} THEN {"id"} ELSE p.refs]

(* The verdict is about this relationship, end to end; a schema left out   *)
(* of the ontology is the verdict's.                                       *)
States(ref, verdict) ==
    /\ ref.from = verdict.from /\ ref.column = verdict.column
    /\ ref.to = verdict.to /\ verdict.toColumn \in ref.toColumns
    /\ ref.schema \in {Unset, verdict.schema}
    /\ ref.toSchema \in {Unset, verdict.toSchema}

RecordInGraph(ont, verdict) ==
    LET stated == {p \in FindRelationships(ont, verdict.from, verdict.column, verdict.to) :
                     States(RefOf(p, verdict.column), verdict)}
    IN [ont EXCEPT !.properties = {p \in @ : p \notin stated}
                                  \cup {[p EXCEPT !.status = verdict.status] : p \in stated}]

ApplyRecorded(ont, verdicts) == FoldLeft(RecordInGraph, ont, verdicts)
=============================================================================
