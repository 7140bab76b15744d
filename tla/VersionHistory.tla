--------------------------- MODULE VersionHistory ---------------------------
(***************************************************************************)
(* The version history that metadata.json keeps for each schema of one     *)
(* connection, and the retention list made from it.                        *)
(*                                                                         *)
(* A version is one generation of a schema: discovery opens it, and the    *)
(* producers of its two parts, the GraphRAG index and the ontology, fill   *)
(* them in.  Records are appended and never removed, so the number of a    *)
(* version is its place in the history.  The read-modify-write of the file *)
(* holds a lock of the process (mutate_workspace_metadata), so it is one   *)
(* step; a save that fails is swallowed and leaves the file as it was.     *)
(*                                                                         *)
(* Counts, hashes and the changes from one version to the next are left    *)
(* out.  The age of a version is left open, except that an older version   *)
(* is not younger than a newer one.                                        *)
(***************************************************************************)
EXTENDS Integers, Sequences, FiniteSets

CONSTANTS
    Schemas,
    Graphs,       (* URIs of named graphs, derived from a schema or explicit *)
    Keep,         (* {graphrag,ontology}_keep_versions                      *)
    MinVersions,  (* RetentionPolicy.min_versions                           *)
    None

Kinds == {"graphrag", "ontology"}

Collection(s) == <<"collection", s>>
Resources == Graphs \cup {Collection(s) : s \in Schemas}

(* The files of one generation: rewritten under another timestamp, they    *)
(* are the same files.                                                     *)
File(k, s, n) == <<k, s, n>>
Files == Kinds \X Schemas \X Nat

ASSUME HistoryAssumption ==
    /\ Keep \in [Kinds -> Nat \ {0}]
    /\ MinVersions \in Nat
    /\ None \notin Files \cup Resources
    /\ \A s \in Schemas : Collection(s) \notin Graphs

VARIABLE
    versions      (* schemas[s].versions                                    *)

Part == [state : {"active", "archived", "deleted"},
         file : Files \cup {None},
         resource : Resources \cup {None}]

Version == [status : {"active", "archived"}, part : [Kinds -> Part]]

-----------------------------------------------------------------------------
(* Opening a version.                                                      *)

Blank(state) == [state |-> state, file |-> None, resource |-> None]

(* A workspace that has results but no history yet, be it older than       *)
(* version recording or never discovered, becomes version 1.  What it has  *)
(* is taken as arbitrary; its files are those of generation 0.             *)
Seed(indexed, file, graph) ==
    [status |-> "active",
     part |-> [k \in Kinds |->
         IF k = "graphrag"
         THEN Blank(IF indexed THEN "active" ELSE "archived")
         ELSE [state |-> IF file # None THEN "active" ELSE "archived",
               file |-> file, resource |-> graph]]]

Seeds(file) ==
    {Seed(indexed, file, graph) : indexed \in BOOLEAN,
                                  graph \in IF file = None THEN {None} ELSE Graphs \cup {None}}

(* The histories to open a version on: the recorded one or, if there is    *)
(* none, one that begins with a seed.                                      *)
Histories(s, known) ==
    {versions[s]}
        \cup (IF versions[s] = <<>> THEN {<<seed>> : seed \in UNION {Seeds(f) : f \in known}}
              ELSE {})

Superseded(p) == IF p.state = "active" THEN [p EXCEPT !.state = "archived"] ELSE p

Archived(v) ==
    [v EXCEPT !.status = "archived",
              !.part = [k \in Kinds |-> Superseded(v.part[k])]]

Fresh ==
    [status |-> "active",
     part |-> [k \in Kinds |-> Blank("active")]]

Opened(h) == Append([n \in DOMAIN h |-> Archived(h[n])], Fresh)

-----------------------------------------------------------------------------
(* Looking a version up, and filling in a part of it.                      *)

Newest(S, count) == {n \in S : Cardinality({m \in S : m > n}) < count}

ActiveIn(h) == {n \in DOMAIN h : h[n].status = "active"}

(* get_current_version: the active one, or the latest; 0 stands for none.  *)
Current(h) ==
    IF ActiveIn(h) = {} THEN {Len(h)} ELSE Newest(ActiveIn(h), 1)

(* Mutant: whoever finishes fills in the version active then.              *)
AddressedLate(h, n) == Newest(ActiveIn(h), 1)

(* update_version: the version addressed or, if none is, the active one.   *)
(* An update of a version that is not there is dropped; only the fields    *)
(* named are replaced.                                                     *)
Addressed(h, n) ==
    IF n # 0 THEN {n} \cap DOMAIN h ELSE Newest(ActiveIn(h), 1)

Updated(p, fields) ==
    [f \in DOMAIN p |-> IF f \in DOMAIN fields THEN fields[f] ELSE p[f]]

Filled(h, n, k, fields) ==
    [m \in DOMAIN h |->
        IF m \in Addressed(h, n) THEN [h[m] EXCEPT !.part[k] = Updated(@, fields)] ELSE h[m]]

Marked(h, n, k) ==
    [m \in DOMAIN h |->
        IF m = n THEN [h[m] EXCEPT !.part[k].state = "deleted"] ELSE h[m]]

-----------------------------------------------------------------------------
(* The retention list.                                                     *)

InState(h, k, state) == {n \in DOMAIN h : h[n].part[k].state = state}

(* Mutant: age alone condemns.                                             *)
ExpiredByAge(h, k, old) == {n \in InState(h, k, "archived") : n <= old}

(* What age condemns, of the archived versions that are not the latest     *)
(* ones: those up to a certain version are too old.                        *)
Expired(h, k, old) ==
    LET archived == InState(h, k, "archived")
    IN {n \in archived \ Newest(archived, Keep[k]) : n <= old}

(* What must be spared of it for MinVersions archived ones to remain.      *)
Shortfall(h, k, old) ==
    MinVersions
        - (Cardinality(InState(h, k, "archived")) - Cardinality(Expired(h, k, old)))

(* Mutant: the minimum is asked for before, and not after.                 *)
ToCleanUpUntrimmed(h, k, old) ==
    IF Cardinality(InState(h, k, "archived")) < MinVersions THEN {} ELSE Expired(h, k, old)

ToCleanUp(h, k, old) ==
    IF Cardinality(InState(h, k, "archived")) < MinVersions
    THEN {}
    ELSE Expired(h, k, old) \ Newest(Expired(h, k, old), Shortfall(h, k, old))

(* The resources that outlive the deletion of the listed versions of s.    *)
Survivors(all, s, k, doomed) ==
    (UNION {{all[t][n].part[k].resource : n \in
         {m \in DOMAIN all[t] :
             all[t][m].part[k].state # "deleted" /\ ~(t = s /\ m \in doomed)}} : t \in Schemas})
        \ {None}
=============================================================================
