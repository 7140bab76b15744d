----------------------------- MODULE MCRetention -----------------------------
(***************************************************************************)
(* A TLC instance of Retention: schema a has been discovered four times,   *)
(* with GraphRAG and ontology the first two times; schema b on the same    *)
(* connection has an ontology only, or shares what a has.                  *)
(***************************************************************************)
EXTENDS Retention, TLC

CONSTANTS a, b, g

MCKeep == ("graphrag" :> 1) @@ ("ontology" :> 3)

Result(k, s, n) ==
    [state |-> "archived", file |-> File(k, s, n),
     resource |-> IF k = "graphrag" THEN Collection(a) ELSE g]

Old(parts) == [status |-> "archived", part |-> parts]

PastOfA ==
    << Old([k \in Kinds |-> Result(k, a, 1)]),
       Old([k \in Kinds |-> Result(k, a, 2)]),
       Old([k \in Kinds |-> Blank("archived")]),
       [status |-> "active", part |-> [k \in Kinds |-> Blank("active")]] >>

PastOfB ==
    << [status |-> "active",
        part |-> [k \in Kinds |-> [Result(k, b, 1) EXCEPT !.state = "active"]]] >>

MCPasts == {(a :> PastOfA) @@ (b :> h) : h \in {<<>>, PastOfB}}

(* So many versions and cleanups, and one of each of the others.           *)
MCQuota(opened, cleaned, others) ==
    [what \in Starts |->
        CASE what = "version" -> opened
          [] what = "cleanup" -> cleaned
          [] OTHER -> IF what \in others THEN 1 ELSE 0]

MCQuotas ==
    [p \in MCPasts |->
        IF p[b] = <<>>
        THEN {MCQuota(2, 1, {}), MCQuota(1, 1, {"store"})}
        ELSE {MCQuota(1, 2, {"server"}), MCQuota(0, 1, {"index", "auto"})}
                \cup {MCQuota(1, 1, {task}) : task \in Tasks \ {"auto"}}]
=============================================================================
