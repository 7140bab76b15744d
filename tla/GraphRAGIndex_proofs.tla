------------------------- MODULE GraphRAGIndex_proofs -------------------------
(***************************************************************************)
(* What holds of the index of a database for any number of tasks, reports, *)
(* runtimes and cleanups: index_lock is always handed on, the flag means   *)
(* an index that can be asked, what was saved without an overlap is the    *)
(* index as it is, and what finished stays in it.                          *)
(***************************************************************************)
EXTENDS GraphRAGIndex, TLAPS

-----------------------------------------------------------------------------
(* The inductive invariant.                                                *)

(* A sequence, whatever its elements.                                      *)
Listing(s) == Len(s) \in Nat /\ s = [k \in 1..Len(s) |-> s[k]]

(* The records, by their fields.                                           *)
IsManager(m) ==
    /\ m = [graph |-> m.graph, names |-> m.names, last |-> m.last, ready |-> m.ready,
            home |-> m.home, communities |-> m.communities]
    /\ m.ready \in BOOLEAN

IsSaver(s) ==
    s = [pc |-> s.pc, manager |-> s.manager, captured |-> s.captured, next |-> s.next,
         name |-> s.name]

IsRestore(r) ==
    /\ r = [pc |-> r.pc, life |-> r.life, manager |-> r.manager]
    /\ r.pc = "loading" /\ r.life \in Lives /\ IsManager(r.manager)

Phases == {"preparing", "waiting", "embedding", "saving", "saved", "done", "failed"}

TaskRecord ==
    [pc : Phases, kind : {"task", "call"}, life : Lives, report : Reports,
     version : Nat, accumulate : BOOLEAN, manager : Nat]

TypeOK ==
    /\ life \in Lives /\ held \in BOOLEAN /\ raced \in BOOLEAN /\ cleanups \in Nat
    /\ disturbed \subseteq Lives
    /\ flag \in [Lives -> BOOLEAN]
    /\ line \in [Lives -> Seq(Tasks)]
    /\ versions \in [Schemas -> Nat]
    /\ Listing(managers) /\ \A k \in 1..Len(managers) : IsManager(managers[k])
    /\ ref \in [Lives -> Nat] /\ \A l \in Lives : ref[l] <= Len(managers)
    /\ task \in [Tasks -> {IdleTask} \cup TaskRecord]
    /\ saver = [t \in Tasks |-> saver[t]]
    /\ \A t \in Tasks : saver[t] = IdleSaver \/ IsSaver(saver[t])
    /\ restore = NoRestore \/ IsRestore(restore)
    /\ files = [combined |-> files.combined, bySchema |-> files.bySchema,
                snapshots |-> files.snapshots]

(* Who has come to a lock and not given it up, and who is through.         *)
Queued(t) == task[t].pc \in {"embedding", "waiting"}
Ended(t) == task[t].pc \in {"idle", "failed", "done"}

(* A lock's line has its own runtime's tasks, each once, and everyone who  *)
(* came: only the first may be embedding.                                  *)
Lined ==
    /\ \A l \in Lives : \A i \in 1..Len(line[l]) :
         /\ Queued(line[l][i]) /\ task[line[l][i]].life = l
         /\ i >= 2 => AtPc(line[l][i], "waiting")
         /\ \A j \in 1..Len(line[l]) : line[l][i] = line[l][j] => i = j
    /\ \A t \in Tasks : Queued(t) =>
         \E i \in 1..Len(line[task[t].life]) : line[task[t].life][i] = t

(* A background task that runs is one of the runtime that is held.         *)
Current ==
    \A t \in Tasks : ~AtPc(t, "idle") =>
       /\ task[t].life <= life
       /\ ~Ended(t) /\ task[t].kind = "task" => held /\ task[t].life = life

(* An index that can be asked.                                             *)
Indexed(l) == ref[l] # None /\ managers[ref[l]].ready

(* Where no manager was replaced, the flag and what is being saved have an *)
(* index behind them, and a task embeds into the state's own manager.      *)
Backed ==
    \A l \in Lives \ disturbed :
       /\ flag[l] => Indexed(l)
       /\ \A t \in Tasks : ~AtPc(t, "idle") /\ task[t].life = l =>
            /\ AtPc(t, "embedding") => task[t].manager = ref[l] /\ ref[l] # None
            /\ task[t].pc \in {"saving", "saved"} => Indexed(l)

(* Before the first task nothing is there to be restored.                  *)
Untouched ==
    (\A t \in Tasks : AtPc(t, "idle")) =>
       /\ sections = << >> /\ restore = NoRestore
       /\ \A l \in Lives : ref[l] = None
       /\ \A t \in Tasks : ~Saving(t)

(* No overlap, no replacement, no failure, and no task of an earlier       *)
(* runtime.                                                                *)
Pristine ==
    /\ ~raced /\ disturbed = {}
    /\ \A t \in Tasks : AtPc(t, "idle") \/ (~AtPc(t, "failed") /\ task[t].life = life)

(* Where a worker is once the combined file is written.                    *)
AtSchemas == {"schemas", "schema", "copying"}

(* The saved graph is the graph.                                           *)
Kept == files.combined = Captured(managers[ref[life]])

(* In such a state no restore can have begun, one worker at most saves, it *)
(* holds the state's manager, and what it read of it is still so.          *)
Faithful(t) ==
    /\ saver[t].manager = ref[life]
    /\ \A u \in Tasks : Saving(u) => u = t
    /\ saver[t].pc \in {"reading", "opening", "writing"} \cup AtSchemas
    /\ saver[t].pc \in {"opening", "writing"} =>
         saver[t].captured = Captured(managers[ref[life]])
    /\ saver[t].pc \in AtSchemas => Kept

Orderly ==
    /\ restore = NoRestore
    /\ sections # << >> => flag[life]
    /\ Indexed(life) /\ (\A t \in Tasks : ~Saving(t)) => Kept
    /\ \A t \in Tasks :
         /\ task[t].pc \in {"saving", "saved"} => task[t].kind = "task" \/ flag[life]
         /\ Saving(t) <=> AtPc(t, "saving")
         /\ Saving(t) => Faithful(t)

Undisturbed == Pristine => Orderly

Inv == TypeOK /\ Lined /\ Current /\ Backed /\ Untouched /\ Undisturbed

-----------------------------------------------------------------------------
(* Sequences and records.                                                  *)

LEMMA Appending ==
    ASSUME NEW s, Listing(s), NEW x
    PROVE  /\ Listing(Append(s, x)) /\ Len(Append(s, x)) = Len(s) + 1
           /\ Append(s, x)[Len(s) + 1] = x
           /\ \A k \in 1..Len(s) : Append(s, x)[k] = s[k]
<1> DEFINE S == {s[k] : k \in 1..Len(s)} \cup {x}
<1>1. s \in Seq(S)
    <2>1. s \in [1..Len(s) -> S]
        BY DEF Listing
    <2> QED  BY <2>1 DEF Listing
<1>2. x \in S
    OBVIOUS
<1> HIDE DEF S
<1>3. /\ Append(s, x) \in Seq(S) /\ Len(Append(s, x)) = Len(s) + 1
      /\ Append(s, x)[Len(s) + 1] = x
      /\ \A k \in 1..Len(s) : Append(s, x)[k] = s[k]
    BY <1>1, <1>2
<1>4. Listing(Append(s, x))
    <2> DEFINE r == Append(s, x)
    <2>1. r \in Seq(S)
        BY <1>3
    <2> HIDE DEF r
    <2>2. r \in [1..Len(r) -> S] /\ Len(r) \in Nat
        BY <2>1
    <2>3. r = [k \in 1..Len(r) |-> r[k]]
        BY <2>2
    <2>4. Listing(r)
        BY <2>2, <2>3 DEF Listing
    <2> QED  BY <2>4 DEF r
<1> QED  BY <1>3, <1>4

Replaced(s, k, x) == [s EXCEPT ![k] = x]

LEMMA Replacing ==
    ASSUME NEW s, Listing(s), NEW k, NEW x, NEW r, r = Replaced(s, k, x)
    PROVE  /\ Listing(r) /\ Len(r) = Len(s)
           /\ k \in 1..Len(s) => r[k] = x
           /\ \A j \in 1..Len(s) : j # k => r[j] = s[j]
<1> DEFINE S == {s[j] : j \in 1..Len(s)} \cup {x}
<1>1. r = [j \in 1..Len(s) |-> IF j = k THEN x ELSE s[j]]
    BY DEF Listing, Replaced
<1>2. r \in [1..Len(s) -> S] /\ Len(s) \in Nat
    BY <1>1 DEF Listing
<1>3. r \in Seq(S) /\ Len(r) = Len(s)
    BY <1>2
<1> QED  BY <1>1, <1>3 DEF Listing

(* Tail moves everyone up.                                                 *)
LEMMA Tailing ==
    ASSUME NEW S, NEW s \in Seq(S), s # << >>
    PROVE  /\ Tail(s) \in Seq(S) /\ Len(s) > 0 /\ Len(Tail(s)) = Len(s) - 1
           /\ Head(s) = s[1]
           /\ \A k \in 1..Len(Tail(s)) : Tail(s)[k] = s[k + 1]
OBVIOUS

LEMMA Made ==
    ASSUME NEW schema
    PROVE  IsManager(NewManager(schema)) /\ NewManager(schema).ready = FALSE
BY DEF IsManager, NewManager

LEMMA Reset ==
    ASSUME NEW m, IsManager(m), NEW g
    PROVE  /\ IsManager([m EXCEPT !.graph = g])
           /\ [m EXCEPT !.graph = g].ready = m.ready
<1> DEFINE n == [graph |-> m.graph, names |-> m.names, last |-> m.last, ready |-> m.ready,
                 home |-> m.home, communities |-> m.communities]
<1>1. m = n
    BY DEF IsManager
<1>2. [n EXCEPT !.graph = g] = [graph |-> g, names |-> m.names, last |-> m.last,
                                ready |-> m.ready, home |-> m.home,
                                communities |-> m.communities]
    OBVIOUS
<1>3. [m EXCEPT !.graph = g] = [n EXCEPT !.graph = g]
    BY <1>1
<1> HIDE DEF n
<1> QED  BY <1>2, <1>3 DEF IsManager

(* The graph and the names a publication leaves.                           *)
Republished(m, report, accumulate) ==
    LET kept == RemoveTables(m.graph, Dropped(m, report))
    IN IF accumulate THEN AddToGraph(kept, report.tables) ELSE BuildGraph(kept, report.tables)

Joined(names, schema) == IF schema \in Range(names) THEN names ELSE Append(names, schema)

LEMMA Published ==
    ASSUME NEW m, IsManager(m), NEW report, NEW accumulate
    PROVE  LET n == PublishSchema(m, report, accumulate)
           IN /\ IsManager(n) /\ n.ready = TRUE
              /\ n.graph = Republished(m, report, accumulate)
              /\ n.names = Joined(m.names, report.schema)
<1> DEFINE n == [graph |-> m.graph, names |-> m.names, last |-> m.last, ready |-> m.ready,
                 home |-> m.home, communities |-> m.communities]
<1>1. m = n
    BY DEF IsManager
<1>2. ASSUME NEW g, NEW c, NEW s, NEW b, NEW y
      PROVE  [[[[[n EXCEPT !.graph = g] EXCEPT !.communities = c] EXCEPT !.last = s]
                EXCEPT !.names = b] EXCEPT !.ready = y] =
             [graph |-> g, names |-> b, last |-> s, ready |-> y, home |-> m.home,
              communities |-> c]
    <2> DEFINE r(g1, n1, l1, r1, c1) ==
                 [graph |-> g1, names |-> n1, last |-> l1, ready |-> r1,
                  home |-> m.home, communities |-> c1]
    <2>1. [n EXCEPT !.graph = g] = r(g, m.names, m.last, m.ready, m.communities)
        OBVIOUS
    <2>2. [r(g, m.names, m.last, m.ready, m.communities) EXCEPT !.communities = c] =
          r(g, m.names, m.last, m.ready, c)
        OBVIOUS
    <2>3. [r(g, m.names, m.last, m.ready, c) EXCEPT !.last = s] = r(g, m.names, s, m.ready, c)
        OBVIOUS
    <2>4. [r(g, m.names, s, m.ready, c) EXCEPT !.names = b] = r(g, b, s, m.ready, c)
        OBVIOUS
    <2>5. [r(g, b, s, m.ready, c) EXCEPT !.ready = y] = r(g, b, s, y, c)
        OBVIOUS
    <2> HIDE DEF n, r
    <2>6. [[[n EXCEPT !.graph = g] EXCEPT !.communities = c] EXCEPT !.last = s] =
          r(g, m.names, s, m.ready, c)
        BY <2>1, <2>2, <2>3
    <2>7. [[[[[n EXCEPT !.graph = g] EXCEPT !.communities = c] EXCEPT !.last = s]
                EXCEPT !.names = b] EXCEPT !.ready = y] =
          [[r(g, m.names, s, m.ready, c) EXCEPT !.names = b] EXCEPT !.ready = y]
        BY <2>6, Zenon
    <2>8. @ = [r(g, b, s, m.ready, c) EXCEPT !.ready = y]
        BY <2>4, Zenon
    <2>9. @ = r(g, b, s, y, c)
        BY <2>5, Zenon
    <2> QED  BY <2>7, <2>8, <2>9 DEF r
<1> DEFINE g == Republished(m, report, accumulate)
           b == Joined(m.names, report.schema)
<1>3. PublishSchema(m, report, accumulate) =
        [[[[[m EXCEPT !.graph = g] EXCEPT !.communities = Nodes(g)] EXCEPT !.last = report.schema]
           EXCEPT !.names = b] EXCEPT !.ready = TRUE]
    BY <1>1 DEF PublishSchema, Republished, Joined
<1> HIDE DEF g, b
<1>4. PublishSchema(m, report, accumulate) =
        [graph |-> g, names |-> b, last |-> report.schema, ready |-> TRUE, home |-> m.home,
         communities |-> Nodes(g)]
    BY <1>1, <1>2, <1>3
<1> QED  BY <1>4 DEF IsManager, g, b

(* What a restore reads.                                                   *)
Source(m, fs) ==
    IF fs.combined # NoFile THEN fs.combined
    ELSE [names |-> << m.last >>, tables |-> At(fs.bySchema, m.last, {}), communities |-> {}]

LEMMA Restored ==
    ASSUME NEW m, IsManager(m), NEW fs
    PROVE  LET n == LoadState(m, fs)
           IN /\ IsManager(n)
              /\ n.graph = LoadGraph(m.graph, Source(m, fs).tables)
              /\ n.names \in {m.names, Source(m, fs).names}
<1> DEFINE n == [graph |-> m.graph, names |-> m.names, last |-> m.last, ready |-> m.ready,
                 home |-> m.home, communities |-> m.communities]
<1>1. m = n
    BY DEF IsManager
<1>2. ASSUME NEW g, NEW c, NEW s, NEW b
      PROVE  [[[[n EXCEPT !.graph = g] EXCEPT !.names = s] EXCEPT !.communities = c]
                EXCEPT !.ready = b] =
             [graph |-> g, names |-> s, last |-> m.last, ready |-> b, home |-> m.home,
              communities |-> c]
    <2> DEFINE r(g1, n1, r1, c1) ==
                 [graph |-> g1, names |-> n1, last |-> m.last, ready |-> r1,
                  home |-> m.home, communities |-> c1]
    <2>1. [n EXCEPT !.graph = g] = r(g, m.names, m.ready, m.communities)
        OBVIOUS
    <2>2. [r(g, m.names, m.ready, m.communities) EXCEPT !.names = s] =
          r(g, s, m.ready, m.communities)
        OBVIOUS
    <2>3. [r(g, s, m.ready, m.communities) EXCEPT !.communities = c] = r(g, s, m.ready, c)
        OBVIOUS
    <2>4. [r(g, s, m.ready, c) EXCEPT !.ready = b] = r(g, s, b, c)
        OBVIOUS
    <2> HIDE DEF n, r
    <2>5. [[[[n EXCEPT !.graph = g] EXCEPT !.names = s] EXCEPT !.communities = c]
                EXCEPT !.ready = b] = r(g, s, b, c)
        BY <2>1, <2>2, <2>3, <2>4
    <2> QED  BY <2>5 DEF r
<1> DEFINE g == LoadGraph(m.graph, Source(m, fs).tables)
<1>3. PICK c, s : \E b \in BOOLEAN :
        /\ LoadState(m, fs) = [[[[m EXCEPT !.graph = g] EXCEPT !.names = s]
                                 EXCEPT !.communities = c] EXCEPT !.ready = b]
        /\ s \in {m.names, Source(m, fs).names}
    BY <1>1 DEF LoadState, IsManager, Source
<1> HIDE DEF g
<1>4. \E b \in BOOLEAN : LoadState(m, fs) =
        [graph |-> g, names |-> s, last |-> m.last, ready |-> b, home |-> m.home,
         communities |-> c]
    BY <1>1, <1>2, <1>3
<1> QED  BY <1>3, <1>4 DEF IsManager, g

-----------------------------------------------------------------------------
(* What the steps do to a task, to the managers and to a line.             *)

(* One task goes to another phase.                                         *)
Goes(t, pc) ==
    /\ task' \in [Tasks -> {IdleTask} \cup TaskRecord]
    /\ task'[t] \in TaskRecord /\ task'[t].pc = pc
    /\ task'[t].life = task[t].life /\ task'[t].kind = task[t].kind
    /\ task'[t].report = task[t].report /\ task'[t].version = task[t].version
    /\ \A u \in Tasks \ {t} : task'[u] = task[u]

LEMMA Running ==
    ASSUME TypeOK, NEW t \in Tasks, ~AtPc(t, "idle")
    PROVE  task[t] \in TaskRecord
BY DEF TypeOK, AtPc, IdleTask

LEMMA Moving ==
    ASSUME TypeOK, NEW t \in Tasks, ~AtPc(t, "idle"), NEW pc \in Phases,
           task' = Moved(t, pc)
    PROVE  /\ Goes(t, pc) /\ task'[t].manager = task[t].manager
           /\ task'[t].accumulate = task[t].accumulate
<1>1. task[t] \in TaskRecord /\ task \in [Tasks -> {IdleTask} \cup TaskRecord]
    BY Running DEF TypeOK
<1>2. task' = [task EXCEPT ![t] = [task[t] EXCEPT !.pc = pc]]
    BY <1>1 DEF Moved
<1>3. /\ [task[t] EXCEPT !.pc = pc] \in TaskRecord /\ [task[t] EXCEPT !.pc = pc].pc = pc
      /\ [task[t] EXCEPT !.pc = pc].life = task[t].life
      /\ [task[t] EXCEPT !.pc = pc].kind = task[t].kind
      /\ [task[t] EXCEPT !.pc = pc].report = task[t].report
      /\ [task[t] EXCEPT !.pc = pc].version = task[t].version
      /\ [task[t] EXCEPT !.pc = pc].manager = task[t].manager
      /\ [task[t] EXCEPT !.pc = pc].accumulate = task[t].accumulate
    BY <1>1 DEF TaskRecord
<1> QED  BY <1>1, <1>2, <1>3 DEF Goes

(* A manager may be added, and those there are stay at least as ready.     *)
Grown ==
    /\ Listing(managers') /\ \A k \in 1..Len(managers') : IsManager(managers'[k])
    /\ Len(managers) <= Len(managers')
    /\ \A k \in 1..Len(managers) : managers[k].ready => managers'[k].ready

LEMMA Growing ==
    ASSUME TypeOK, NEW m, IsManager(m), managers' = Append(managers, m)
    PROVE  /\ Grown /\ Len(managers') = Len(managers) + 1 /\ Len(managers') \in Nat
           /\ managers'[Len(managers')] = m
           /\ \A k \in 1..Len(managers) : managers'[k] = managers[k]
<1>1. Listing(managers) /\ \A k \in 1..Len(managers) : IsManager(managers[k])
    BY DEF TypeOK
<1>2. Len(managers) \in Nat
    BY <1>1 DEF Listing
<1>3. /\ Listing(managers') /\ Len(managers') = Len(managers) + 1
      /\ managers'[Len(managers) + 1] = m
      /\ \A k \in 1..Len(managers) : managers'[k] = managers[k]
    BY <1>1, Appending
<1>4. ASSUME NEW k \in 1..Len(managers')
      PROVE  IsManager(managers'[k])
    BY <1>1, <1>2, <1>3, k \in 1..Len(managers) \/ k = Len(managers) + 1
<1> QED  BY <1>2, <1>3, <1>4 DEF Grown

LEMMA Updating ==
    ASSUME TypeOK, NEW k, NEW m, k \in 1..Len(managers) => IsManager(m),
           k \in 1..Len(managers) /\ managers[k].ready => m.ready,
           managers' = [managers EXCEPT ![k] = m]
    PROVE  /\ Grown /\ Len(managers') = Len(managers)
           /\ k \in 1..Len(managers) => managers'[k] = m
           /\ \A j \in 1..Len(managers) : j # k => managers'[j] = managers[j]
<1>1. Listing(managers) /\ \A j \in 1..Len(managers) : IsManager(managers[j])
    BY DEF TypeOK
<1>2. Len(managers) \in Nat
    BY <1>1 DEF Listing
<1>3. /\ Listing(managers') /\ Len(managers') = Len(managers)
      /\ k \in 1..Len(managers) => managers'[k] = m
      /\ \A j \in 1..Len(managers) : j # k => managers'[j] = managers[j]
    <2>1. PICK r : r = managers'
        OBVIOUS
    <2>2. r = Replaced(managers, k, m)
        BY <2>1 DEF Replaced
    <2>3. /\ Listing(r) /\ Len(r) = Len(managers)
          /\ k \in 1..Len(managers) => r[k] = m
          /\ \A j \in 1..Len(managers) : j # k => r[j] = managers[j]
        BY <1>1, <2>2, Replacing
    <2> QED  BY <2>1, <2>3
<1> QED  BY <1>1, <1>2, <1>3 DEF Grown

LEMMA Standing ==
    ASSUME TypeOK, UNCHANGED managers
    PROVE  Grown
BY DEF TypeOK, Grown, Listing

LEMMA Entering ==
    ASSUME TypeOK, NEW t \in Tasks, ~AtPc(t, "idle"), Entered(t),
           NEW l, l = task[t].life
    PROVE  /\ Goes(t, "embedding") /\ task'[t].manager = ref'[l]
           /\ task'[t].accumulate = (ref[l] # None)
           /\ Grown /\ \A k \in 1..Len(managers) : managers'[k] = managers[k]
           /\ ref' \in [Lives -> Nat] /\ \A j \in Lives : ref'[j] <= Len(managers')
           /\ \A j \in Lives : j # l => ref'[j] = ref[j]
           /\ ref'[l] # None
           /\ ref[l] # None => ref'[l] = ref[l] /\ UNCHANGED managers
           /\ ref[l] = None => managers'[ref'[l]].ready = FALSE
<1>1. /\ task[t] \in TaskRecord /\ task \in [Tasks -> {IdleTask} \cup TaskRecord]
      /\ l \in Lives /\ ref \in [Lives -> Nat] /\ \A j \in Lives : ref[j] <= Len(managers)
      /\ Len(managers) \in Nat
    BY Running DEF TypeOK, TaskRecord, Listing
<1>2. /\ Grown /\ \A k \in 1..Len(managers) : managers'[k] = managers[k]
      /\ ref' = [ref EXCEPT ![l] = IF ref[l] = None THEN Len(managers') ELSE ref[l]]
      /\ Len(managers') \in Nat /\ Len(managers') >= Len(managers)
      /\ ref[l] # None => UNCHANGED managers
      /\ ref[l] = None => /\ Len(managers') = Len(managers) + 1
                          /\ managers'[Len(managers')].ready = FALSE
    <2>1. CASE ref[l] = None
        <3>1. managers' = Append(managers, NewManager(SchemaOf(t)))
            BY <2>1 DEF Entered
        <3>2. /\ IsManager(NewManager(SchemaOf(t))) /\ NewManager(SchemaOf(t)).ready = FALSE
            BY Made
        <3> QED  BY <1>1, <2>1, <3>1, <3>2, Growing DEF Entered, Grown, Listing
    <2>2. CASE ref[l] # None
        <3>1. UNCHANGED managers
            BY <2>2 DEF Entered
        <3> QED  BY <1>1, <2>2, <3>1, Standing DEF Entered
    <2> QED  BY <2>1, <2>2
<1>3. /\ ref' \in [Lives -> Nat] /\ \A j \in Lives : ref'[j] <= Len(managers')
      /\ \A j \in Lives : j # l => ref'[j] = ref[j]
      /\ ref'[l] = IF ref[l] = None THEN Len(managers') ELSE ref[l]
    BY <1>1, <1>2
<1>4. PICK a \in BOOLEAN :
        /\ a = (ref[l] # None)
        /\ task' = [task EXCEPT ![t] = [[[task[t] EXCEPT !.pc = "embedding"]
                                          EXCEPT !.accumulate = a] EXCEPT !.manager = ref'[l]]]
    BY <1>1 DEF Entered
<1>5. \A r \in TaskRecord :
        /\ [r EXCEPT !.pc = "embedding"] \in TaskRecord
        /\ [r EXCEPT !.pc = "embedding"].pc = "embedding"
        /\ [r EXCEPT !.pc = "embedding"].life = r.life
        /\ [r EXCEPT !.pc = "embedding"].kind = r.kind
        /\ [r EXCEPT !.pc = "embedding"].report = r.report
        /\ [r EXCEPT !.pc = "embedding"].version = r.version
    BY DEF TaskRecord, Phases
<1>6. \A r \in TaskRecord :
        /\ [r EXCEPT !.accumulate = a] \in TaskRecord
        /\ [r EXCEPT !.accumulate = a].pc = r.pc
        /\ [r EXCEPT !.accumulate = a].life = r.life
        /\ [r EXCEPT !.accumulate = a].kind = r.kind
        /\ [r EXCEPT !.accumulate = a].report = r.report
        /\ [r EXCEPT !.accumulate = a].version = r.version
        /\ [r EXCEPT !.accumulate = a].accumulate = a
    BY DEF TaskRecord
<1>7. \A r \in TaskRecord : \A n \in Nat :
        /\ [r EXCEPT !.manager = n] \in TaskRecord /\ [r EXCEPT !.manager = n].manager = n
        /\ [r EXCEPT !.manager = n].pc = r.pc
        /\ [r EXCEPT !.manager = n].life = r.life
        /\ [r EXCEPT !.manager = n].kind = r.kind
        /\ [r EXCEPT !.manager = n].report = r.report
        /\ [r EXCEPT !.manager = n].version = r.version
        /\ [r EXCEPT !.manager = n].accumulate = r.accumulate
    BY DEF TaskRecord
<1>8. /\ Goes(t, "embedding") /\ task'[t].manager = ref'[l]
      /\ task'[t].accumulate = (ref[l] # None)
    <2> DEFINE r1 == [task[t] EXCEPT !.pc = "embedding"]
               r2 == [r1 EXCEPT !.accumulate = a]
               r3 == [r2 EXCEPT !.manager = ref'[l]]
    <2>1. task' = [task EXCEPT ![t] = r3]
        BY <1>4
    <2>2. /\ r1 \in TaskRecord /\ r1.pc = "embedding"
          /\ r1.life = task[t].life /\ r1.kind = task[t].kind
          /\ r1.report = task[t].report /\ r1.version = task[t].version
        BY <1>1, <1>5
    <2>3. /\ r2 \in TaskRecord /\ r2.pc = r1.pc /\ r2.life = r1.life /\ r2.kind = r1.kind
          /\ r2.report = r1.report /\ r2.version = r1.version /\ r2.accumulate = a
        BY <2>2, <1>6
    <2>4. ref'[l] \in Nat
        BY <1>1, <1>3
    <2>5. /\ r3 \in TaskRecord /\ r3.manager = ref'[l]
          /\ r3.pc = r2.pc /\ r3.life = r2.life /\ r3.kind = r2.kind
          /\ r3.report = r2.report /\ r3.version = r2.version /\ r3.accumulate = r2.accumulate
        BY ZenonT(60), <2>3, <2>4, <1>7
    <2> HIDE DEF r1, r2, r3
    <2> QED  BY <1>1, <1>4, <2>1, <2>2, <2>3, <2>5 DEF Goes
<1>9. ref'[l] # None
    BY <1>1, <1>2, <1>3 DEF None
<1> QED  BY <1>1, <1>2, <1>3, <1>8, <1>9

-----------------------------------------------------------------------------
(* Types.                                                                  *)

LEMMA TypesAtFirst ==
    Init => TypeOK
<1>1. SUFFICES ASSUME Init
               PROVE  TypeOK
    OBVIOUS
<1>2. Listing(managers) /\ Len(managers) = 0
    BY <1>1 DEF Init, Listing
<1>3. /\ line \in [Lives -> Seq(Tasks)] /\ versions \in [Schemas -> Nat]
      /\ flag \in [Lives -> BOOLEAN] /\ ref \in [Lives -> Nat]
      /\ \A l \in Lives : ref[l] = 0
    BY <1>1 DEF Init, None
<1>4. /\ task \in [Tasks -> {IdleTask} \cup TaskRecord] /\ saver = [t \in Tasks |-> saver[t]]
      /\ \A t \in Tasks : saver[t] = IdleSaver
    BY <1>1 DEF Init
<1>5. files = [combined |-> files.combined, bySchema |-> files.bySchema,
               snapshots |-> files.snapshots]
    BY <1>1 DEF Init
<1>6. /\ life \in Lives /\ held \in BOOLEAN /\ raced \in BOOLEAN /\ cleanups \in Nat
      /\ disturbed \subseteq Lives /\ restore = NoRestore
    <2>1. 1 \in Lives
        BY IndexAssumption DEF Lives
    <2> QED  BY <1>1, <2>1 DEF Init
<1>7. \A k \in 1..Len(managers) : IsManager(managers[k])
    BY <1>2
<1>8. \A l \in Lives : ref[l] <= Len(managers)
    BY <1>2, <1>3
<1> QED
    BY <1>2, <1>3, <1>4, <1>5, <1>6, <1>7, <1>8 DEF TypeOK

(* What is left of the types when the managers and the tasks are typed.    *)
LEMMA TypesRest ==
    ASSUME TypeOK, Grown, task' \in [Tasks -> {IdleTask} \cup TaskRecord],
           ref' \in [Lives -> Nat], \A l \in Lives : ref'[l] <= Len(managers'),
           life' \in Lives, held' \in BOOLEAN, raced' \in BOOLEAN, cleanups' \in Nat,
           disturbed' \subseteq Lives, flag' \in [Lives -> BOOLEAN],
           line' \in [Lives -> Seq(Tasks)], versions' \in [Schemas -> Nat],
           saver' = [t \in Tasks |-> saver'[t]],
           \A t \in Tasks : saver'[t] = IdleSaver \/ IsSaver(saver'[t]),
           restore' = NoRestore \/ IsRestore(restore'),
           files' = [combined |-> files'.combined, bySchema |-> files'.bySchema,
                     snapshots |-> files'.snapshots]
    PROVE  TypeOK'
BY DEF TypeOK, Grown, IsSaver, IsRestore, IsManager, Listing, IdleSaver, NoRestore

(* The rest of the types in a state, as TypesRest asks for it.             *)
LEMMA TypesHere ==
    ASSUME TypeOK
    PROVE  /\ life \in Lives /\ held \in BOOLEAN /\ raced \in BOOLEAN /\ cleanups \in Nat
           /\ disturbed \subseteq Lives /\ flag \in [Lives -> BOOLEAN]
           /\ line \in [Lives -> Seq(Tasks)] /\ versions \in [Schemas -> Nat]
           /\ saver = [t \in Tasks |-> saver[t]]
           /\ \A t \in Tasks : saver[t] = IdleSaver \/ IsSaver(saver[t])
           /\ restore = NoRestore \/ IsRestore(restore)
           /\ files = [combined |-> files.combined, bySchema |-> files.bySchema,
                       snapshots |-> files.snapshots]
           /\ ref \in [Lives -> Nat] /\ \A l \in Lives : ref[l] <= Len(managers)
           /\ Len(managers) \in Nat
           /\ task \in [Tasks -> {IdleTask} \cup TaskRecord]
BY DEF TypeOK, Listing

(* A start: the next number is taken, for the runtime that is held.        *)
Starts(t) ==
    /\ held /\ AtPc(t, "idle")
    /\ task' \in [Tasks -> {IdleTask} \cup TaskRecord]
    /\ task'[t] \in TaskRecord /\ task'[t].pc = "preparing" /\ task'[t].life = life
    /\ \A u \in Tasks \ {t} : task'[u] = task[u]
    /\ UNCHANGED << life, held, ref, flag, line, managers, files, sections, saver, restore,
                    disturbed, raced >>

LEMMA Starting ==
    ASSUME TypeOK, NEW t \in Tasks, NEW r \in Reports, Discover(t, r) \/ Initialize(t, r)
    PROVE  Starts(t) /\ TypeOK'
<1>1. r.schema \in Schemas /\ versions[r.schema] \in Nat
    BY DEF Schemas, TypeOK
<1>2. PICK kind \in {"task", "call"}, version \in Nat : Started(t, r, kind, version)
    BY <1>1 DEF Discover, Initialize
<1>3. Starts(t)
    <2> DEFINE new == [pc |-> "preparing", kind |-> kind, life |-> life, report |-> r,
                       version |-> version, accumulate |-> FALSE, manager |-> None]
    <2>1. new \in TaskRecord
        BY TypesHere DEF TaskRecord, Phases, None
    <2>2. new.pc = "preparing" /\ new.life = life
        OBVIOUS
    <2>3. task' = [task EXCEPT ![t] = new]
        BY <1>2 DEF Started
    <2> HIDE DEF new
    <2>4. task' \in [Tasks -> {IdleTask} \cup TaskRecord] /\ task'[t] = new
          /\ \A u \in Tasks \ {t} : task'[u] = task[u]
        BY <2>1, <2>3, TypesHere
    <2> QED  BY <2>1, <2>2, <2>4 DEF Starts, Discover, Initialize, IsNext
<1>4. versions' \in [Schemas -> Nat] /\ cleanups' \in Nat
    <2> DEFINE s == r.schema
    <2>1. versions' = [versions EXCEPT ![s] = versions[s] + 1] \/ UNCHANGED versions
        BY DEF Discover, Initialize
    <2>2. s \in Schemas /\ versions[s] + 1 \in Nat
        BY <1>1
    <2> HIDE DEF s
    <2>3. versions' \in [Schemas -> Nat]
        BY <2>1, <2>2, TypesHere
    <2> QED  BY <2>3, TypesHere DEF Discover, Initialize
<1>5. Grown
    BY <1>3, Standing DEF Starts
<1>6. TypeOK'
    BY <1>3, <1>4, <1>5, TypesHere, TypesRest DEF Starts
<1> QED  BY <1>3, <1>6

(* The lock is come to: by the one who enters, or by one who waits.        *)
Comes(t) ==
    LET l == task[t].life
    IN /\ AtPc(t, "preparing")
       /\ line' = [line EXCEPT ![l] = Append(@, t)]
       /\ \/ line[l] = << >> /\ Entered(t) /\ Goes(t, "embedding")
          \/ line[l] # << >> /\ Goes(t, "waiting") /\ UNCHANGED << managers, ref >>
       /\ UNCHANGED << life, held, flag, files, sections, saver, restore, disturbed, raced >>

LEMMA Coming ==
    ASSUME TypeOK, NEW t \in Tasks, ComeToLock(t)
    PROVE  Comes(t) /\ TypeOK'
<1>1. ~AtPc(t, "idle") /\ task[t].life \in Lives
    BY Running DEF ComeToLock, AtPc, TaskRecord
<1>2. Comes(t)
    <2>1. CASE line[task[t].life] = << >>
        BY <1>1, <2>1, Entering DEF ComeToLock, Comes
    <2>2. CASE line[task[t].life] # << >>
        BY <1>1, <2>2, Moving DEF ComeToLock, Comes, Phases
    <2> QED  BY <2>1, <2>2
<1>3. line' \in [Lives -> Seq(Tasks)] /\ versions' \in [Schemas -> Nat] /\ cleanups' \in Nat
    BY <1>1, TypesHere DEF ComeToLock
<1>4. /\ Grown /\ task' \in [Tasks -> {IdleTask} \cup TaskRecord]
      /\ ref' \in [Lives -> Nat] /\ \A l \in Lives : ref'[l] <= Len(managers')
    BY <1>1, <1>2, TypesHere, Entering, Standing DEF Comes, Goes
<1>5. TypeOK'
    BY <1>2, <1>3, <1>4, TypesHere, TypesRest DEF Comes
<1> QED  BY <1>2, <1>5

LEMMA Resuming ==
    ASSUME TypeOK, NEW t \in Tasks, Resume(t)
    PROVE  Goes(t, "embedding") /\ TypeOK'
<1>1. ~AtPc(t, "idle") /\ task[t].life \in Lives
    BY Running DEF Resume, AtPc, TaskRecord
<1>2. /\ Goes(t, "embedding") /\ Grown
      /\ ref' \in [Lives -> Nat] /\ \A l \in Lives : ref'[l] <= Len(managers')
    BY <1>1, Entering DEF Resume
<1>3. TypeOK'
    BY <1>2, TypesHere, TypesRest DEF Resume, Goes
<1> QED  BY <1>2, <1>3

(* Who embeds is first in the line.                                        *)
LEMMA First ==
    ASSUME TypeOK, Lined, NEW t \in Tasks,
           \/ AtPc(t, "embedding")
           \/ AtPc(t, "waiting") /\ Head(line[task[t].life]) = t,
           NEW l, l = task[t].life
    PROVE  l \in Lives /\ line[l] \in Seq(Tasks) /\ line[l] # << >> /\ line[l][1] = t
<1>1. l \in Lives /\ line[l] \in Seq(Tasks) /\ Queued(t)
    BY Running, TypesHere DEF AtPc, TaskRecord, Queued
<1>2. PICK i \in 1..Len(line[l]) : line[l][i] = t
    BY <1>1 DEF Lined
<1>3. line[l] # << >>
    BY <1>1, <1>2
<1>4. AtPc(t, "embedding") => i < 2
    BY <1>1, <1>2 DEF Lined, AtPc
<1> QED  BY <1>1, <1>2, <1>3, <1>4

(* The lock is given up.                                                   *)
LEMMA Unlocking ==
    ASSUME TypeOK, Lined, NEW t \in Tasks,
           \/ AtPc(t, "embedding")
           \/ AtPc(t, "waiting") /\ Head(line[task[t].life]) = t,
           line' = Unlocked(t)
    PROVE  line' \in [Lives -> Seq(Tasks)]
<1> DEFINE l == task[t].life
<1>1. l \in Lives /\ line[l] \in Seq(Tasks) /\ line[l] # << >>
    BY First
<1>2. Tail(line[l]) \in Seq(Tasks)
    BY <1>1, Tailing
<1>3. line' = [line EXCEPT ![l] = Tail(line[l])]
    BY DEF Unlocked
<1> HIDE DEF l
<1> QED  BY <1>1, <1>2, <1>3, TypesHere

LEMMA Publishing ==
    ASSUME TypeOK, Lined, NEW t \in Tasks, Publish(t), NEW l, l = task[t].life
    PROVE  /\ TypeOK' /\ Grown /\ Len(managers') = Len(managers)
           /\ task[t].manager \in 1..Len(managers) => managers'[task[t].manager].ready
           /\ ref[l] = None => Goes(t, "failed") /\ UNCHANGED saver
           /\ ref[l] # None =>
                /\ Goes(t, "saving")
                /\ \A u \in Tasks \ {t} : saver'[u] = saver[u]
                /\ saver'[t].pc = "reading" /\ saver'[t].manager = ref[l]
           /\ \A j \in Lives : j # l => flag'[j] = flag[j]
           /\ flag'[l] = IF task[t].kind = "call" THEN TRUE ELSE flag[l] /\ ref[l] # None
<1>1. ~AtPc(t, "idle") /\ l \in Lives /\ task[t] \in TaskRecord
    BY Running DEF Publish, AtPc, TaskRecord
<1>2. /\ Grown /\ Len(managers') = Len(managers)
      /\ task[t].manager \in 1..Len(managers) => managers'[task[t].manager].ready
    <2> DEFINE k == task[t].manager
               m == PublishSchema(managers[k], task[t].report, task[t].accumulate)
    <2>1. managers' = [managers EXCEPT ![k] = m]
        BY DEF Publish
    <2>2. k \in 1..Len(managers) => IsManager(m) /\ m.ready
        BY Published DEF TypeOK
    <2> HIDE DEF k, m
    <2>3. /\ Grown /\ Len(managers') = Len(managers)
          /\ k \in 1..Len(managers) => managers'[k] = m
        BY <2>1, <2>2, Updating
    <2> QED  BY <2>2, <2>3 DEF k
<1>3. line' \in [Lives -> Seq(Tasks)]
    BY Unlocking DEF Publish
<1>4. /\ flag' \in [Lives -> BOOLEAN] /\ \A j \in Lives : j # l => flag'[j] = flag[j]
      /\ flag'[l] = IF task[t].kind = "call" THEN TRUE ELSE flag[l] /\ ref[l] # None
    BY <1>1, TypesHere DEF Publish
<1>5. raced' \in BOOLEAN
    BY TypesHere DEF Publish
<1>6. ref[l] = None => Goes(t, "failed") /\ UNCHANGED saver
    BY <1>1, Moving DEF Publish, Phases
<1>7. ref[l] # None =>
        /\ Goes(t, "saving")
        /\ saver' = [saver EXCEPT ![t] =
              [pc |-> "reading", manager |-> ref[l], captured |-> NoFile, next |-> 1,
                      name |-> NoSchema]]
    BY <1>1, Moving DEF Publish, Phases
<1>8. ref[l] # None =>
        /\ \A u \in Tasks \ {t} : saver'[u] = saver[u]
        /\ saver'[t].pc = "reading" /\ saver'[t].manager = ref[l] /\ IsSaver(saver'[t])
        /\ saver' = [u \in Tasks |-> saver'[u]]
    BY <1>1, <1>7, TypesHere DEF IsSaver
<1>9. TypeOK'
    <2>1. /\ saver' = [u \in Tasks |-> saver'[u]]
          /\ \A u \in Tasks : saver'[u] = IdleSaver \/ IsSaver(saver'[u])
        BY <1>6, <1>8, TypesHere
    <2>2. task' \in [Tasks -> {IdleTask} \cup TaskRecord]
        BY <1>6, <1>7 DEF Goes
    <2>3. UNCHANGED << life, held, ref, versions, files, restore, disturbed, cleanups >>
        BY DEF Publish
    <2> QED  BY <1>2, <1>3, <1>4, <1>5, <2>1, <2>2, <2>3, TypesHere, TypesRest
<1> QED  BY <1>2, <1>4, <1>6, <1>7, <1>8, <1>9

(* A failure: the flag may be cleared, and managers lose tables at most.   *)
Fails(t) ==
    /\ Goes(t, "failed") /\ Grown
    /\ \A l \in Lives : flag'[l] => flag[l]
    /\ UNCHANGED << life, held, ref, restore, sections, disturbed, raced >>

LEMMA Failing ==
    ASSUME TypeOK, NEW t \in Tasks, ~AtPc(t, "idle"), Failed(t)
    PROVE  /\ Goes(t, "failed") /\ flag' \in [Lives -> BOOLEAN]
           /\ \A l \in Lives : flag'[l] => flag[l]
<1> DEFINE l == task[t].life
           b == flag[l] /\ task[t].kind = "call"
<1>1. l \in Lives
    BY Running DEF TaskRecord
<1>2. flag' = [flag EXCEPT ![l] = b] /\ (b => flag[l]) /\ b \in BOOLEAN
    BY <1>1, TypesHere DEF Failed
<1> HIDE DEF l, b
<1>3. flag' \in [Lives -> BOOLEAN] /\ \A j \in Lives : flag'[j] => flag[j]
    BY <1>1, <1>2, TypesHere
<1>4. Goes(t, "failed")
    BY Moving DEF Failed, Phases
<1> QED  BY <1>3, <1>4

LEMMA FailingToEnter ==
    ASSUME TypeOK, Lined, NEW t \in Tasks, FailToEnter(t)
    PROVE  Fails(t) /\ TypeOK'
<1>1. ~AtPc(t, "idle")
    BY DEF FailToEnter, AtPc
<1>2. Fails(t) /\ flag' \in [Lives -> BOOLEAN]
    BY <1>1, Failing, Standing DEF FailToEnter, Fails
<1>3. line' \in [Lives -> Seq(Tasks)]
    BY Unlocking, TypesHere DEF FailToEnter
<1>4. TypeOK'
    BY <1>2, <1>3, TypesHere, TypesRest DEF FailToEnter, Fails, Goes
<1> QED  BY <1>2, <1>4

LEMMA FailingToIndex ==
    ASSUME TypeOK, Lined, NEW t \in Tasks, FailIndexing(t)
    PROVE  Fails(t) /\ TypeOK'
<1>1. ~AtPc(t, "idle")
    BY DEF FailIndexing, AtPc
<1>2. Grown /\ Len(managers') = Len(managers)
    <2>1. CASE UNCHANGED managers
        BY <2>1, Standing
    <2>2. CASE ~UNCHANGED managers
        <3> DEFINE k == task[t].manager
                   g == RemoveTables(managers[k].graph, Dropped(managers[k], task[t].report))
                   m == [managers[k] EXCEPT !.graph = g]
        <3>1. managers' = [managers EXCEPT ![k] = m]
            BY <2>2 DEF FailIndexing
        <3>2. k \in 1..Len(managers) => IsManager(managers[k])
            BY DEF TypeOK
        <3> HIDE DEF g, k
        <3>3. k \in 1..Len(managers) => IsManager(m) /\ m.ready = managers[k].ready
            BY <3>2, Reset
        <3> HIDE DEF m
        <3> QED  BY <3>1, <3>3, Updating
    <2> QED  BY <2>1, <2>2
<1>3. Fails(t) /\ flag' \in [Lives -> BOOLEAN]
    BY <1>1, <1>2, Failing DEF FailIndexing, Fails
<1>4. line' \in [Lives -> Seq(Tasks)]
    BY Unlocking DEF FailIndexing
<1>5. UNCHANGED << life, held, ref, versions, files, saver, restore, disturbed, raced, cleanups >>
    BY DEF FailIndexing
<1>6. task' \in [Tasks -> {IdleTask} \cup TaskRecord]
    BY <1>3 DEF Fails, Goes
<1>7. TypeOK'
    BY <1>2, <1>3, <1>4, <1>5, <1>6, TypesHere, TypesRest
<1> QED  BY <1>3, <1>7

(* A worker's step: a field of its record changes.                         *)
WithPc(s, x) == [s EXCEPT !.pc = x]
WithNext(s, x) == [s EXCEPT !.next = x]
WithName(s, x) == [s EXCEPT !.name = x]
WithCaptured(s, x) == [s EXCEPT !.captured = x]

LEMMA SaverRecord ==
    ASSUME NEW s, IsSaver(s), NEW x
    PROVE  /\ IsSaver(WithPc(s, x)) /\ WithPc(s, x).pc = x
           /\ WithPc(s, x).manager = s.manager
           /\ WithPc(s, x).captured = s.captured
           /\ IsSaver(WithNext(s, x)) /\ WithNext(s, x).pc = s.pc
           /\ WithNext(s, x).manager = s.manager
           /\ WithNext(s, x).captured = s.captured
           /\ IsSaver(WithCaptured(s, x)) /\ WithCaptured(s, x).pc = s.pc
           /\ WithCaptured(s, x).manager = s.manager
           /\ WithCaptured(s, x).captured = x
           /\ IsSaver(WithName(s, x)) /\ WithName(s, x).pc = s.pc
           /\ WithName(s, x).manager = s.manager
           /\ WithName(s, x).captured = s.captured
           /\ WithPc(s, x).name = s.name
<1> DEFINE n == [pc |-> s.pc, manager |-> s.manager, captured |-> s.captured, next |-> s.next,
                 name |-> s.name]
<1>1. s = n
    BY DEF IsSaver
<1>2. [n EXCEPT !.pc = x] = [pc |-> x, manager |-> s.manager, captured |-> s.captured,
                             next |-> s.next, name |-> s.name]
    OBVIOUS
<1>3. [n EXCEPT !.next = x] = [pc |-> s.pc, manager |-> s.manager, captured |-> s.captured,
                               next |-> x, name |-> s.name]
    OBVIOUS
<1>4. [n EXCEPT !.captured = x] = [pc |-> s.pc, manager |-> s.manager, captured |-> x,
                                   next |-> s.next, name |-> s.name]
    OBVIOUS
<1>9. [n EXCEPT !.name = x] = [pc |-> s.pc, manager |-> s.manager, captured |-> s.captured,
                               next |-> s.next, name |-> x]
    OBVIOUS
<1>5. /\ WithPc(s, x) = [n EXCEPT !.pc = x]
      /\ WithNext(s, x) = [n EXCEPT !.next = x]
      /\ WithCaptured(s, x) = [n EXCEPT !.captured = x]
      /\ WithName(s, x) = [n EXCEPT !.name = x]
    BY <1>1, Zenon DEF WithPc, WithNext, WithCaptured, WithName
<1> HIDE DEF n
<1>6. /\ IsSaver(WithPc(s, x)) /\ WithPc(s, x).pc = x
      /\ WithPc(s, x).manager = s.manager
      /\ WithPc(s, x).captured = s.captured
      /\ WithPc(s, x).name = s.name
    BY <1>2, <1>5 DEF IsSaver
<1>7. /\ IsSaver(WithNext(s, x)) /\ WithNext(s, x).pc = s.pc
      /\ WithNext(s, x).manager = s.manager
      /\ WithNext(s, x).captured = s.captured
    BY <1>3, <1>5 DEF IsSaver
<1>8. /\ IsSaver(WithCaptured(s, x)) /\ WithCaptured(s, x).pc = s.pc
      /\ WithCaptured(s, x).manager = s.manager
      /\ WithCaptured(s, x).captured = x
    BY <1>4, <1>5 DEF IsSaver
<1>10. /\ IsSaver(WithName(s, x)) /\ WithName(s, x).pc = s.pc
       /\ WithName(s, x).manager = s.manager
       /\ WithName(s, x).captured = s.captured
    BY <1>5, <1>9 DEF IsSaver
<1> QED  BY <1>6, <1>7, <1>8, <1>10

(* A step of a worker that goes on saving.                                 *)
Saves(t) ==
    /\ Saving(t) /\ IsSaver(saver'[t]) /\ saver'[t].manager = saver[t].manager
    /\ saver'[t].pc \in {"opening", "writing"} \cup AtSchemas
    /\ saver' = [u \in Tasks |-> saver'[u]]
    /\ \A u \in Tasks \ {t} : saver'[u] = saver[u]
    /\ UNCHANGED << life, held, ref, flag, line, managers, versions, sections, task, restore,
                    disturbed, raced, cleanups >>

LEMMA SavesTyped ==
    ASSUME TypeOK, NEW t \in Tasks, Saves(t),
           files' = [combined |-> files'.combined, bySchema |-> files'.bySchema,
                     snapshots |-> files'.snapshots]
    PROVE  TypeOK'
<1>1. \A u \in Tasks : saver'[u] = IdleSaver \/ IsSaver(saver'[u])
    BY TypesHere DEF Saves
<1> QED  BY <1>1, TypesHere, TypesRest, Standing DEF Saves

LEMMA SaverHere ==
    ASSUME TypeOK, NEW t \in Tasks, Saving(t)
    PROVE  IsSaver(saver[t])
BY TypesHere DEF Saving, IdleSaver

LEMMA Reading ==
    ASSUME TypeOK, NEW t \in Tasks, SaveReads(t)
    PROVE  /\ Saves(t) /\ TypeOK' /\ UNCHANGED files /\ saver'[t].pc = "opening"
           /\ saver'[t].captured = Captured(managers[saver[t].manager])
<1> DEFINE s == saver[t]
           c == Captured(managers[saver[t].manager])
           r == WithCaptured(s, c)
           n == WithPc(r, "opening")
<1>1. Saving(t) /\ IsSaver(s)
    BY SaverHere DEF SaveReads, SaverAt, Saving
<1>2. saver' = [saver EXCEPT ![t] = n]
    BY DEF SaveReads, WithPc, WithCaptured
<1> HIDE DEF c
<1>3. IsSaver(r) /\ r.manager = s.manager /\ r.captured = c
    BY <1>1, SaverRecord
<1> HIDE DEF r
<1>4. IsSaver(n) /\ n.manager = s.manager /\ n.captured = c /\ n.pc = "opening"
    BY <1>3, SaverRecord
<1> HIDE DEF n
<1>5. /\ saver' = [u \in Tasks |-> saver'[u]] /\ saver'[t] = n
      /\ \A u \in Tasks \ {t} : saver'[u] = saver[u]
    BY <1>2, TypesHere
<1>6. Saves(t) /\ UNCHANGED files
    BY <1>1, <1>4, <1>5 DEF SaveReads, Saves
<1> QED  BY <1>4, <1>5, <1>6, TypesHere, SavesTyped DEF c

LEMMA Opening ==
    ASSUME TypeOK, NEW t \in Tasks, SaveOpens(t)
    PROVE  /\ Saves(t) /\ TypeOK' /\ saver'[t].pc = "writing"
           /\ saver'[t].captured = saver[t].captured /\ SaverAt(t, "opening")
           /\ files'.combined = Torn /\ files'.bySchema = files.bySchema
           /\ files'.snapshots = files.snapshots
<1> DEFINE s == saver[t]
           n == WithPc(s, "writing")
<1>1. Saving(t) /\ IsSaver(s)
    BY SaverHere DEF SaveOpens, SaverAt, Saving
<1>2. saver' = [saver EXCEPT ![t] = n]
    BY DEF SaveOpens, WithPc
<1>3. IsSaver(n) /\ n.manager = s.manager /\ n.captured = s.captured /\ n.pc = "writing"
    BY <1>1, SaverRecord
<1> HIDE DEF n
<1>4. /\ saver' = [u \in Tasks |-> saver'[u]] /\ saver'[t] = n
      /\ \A u \in Tasks \ {t} : saver'[u] = saver[u]
    BY <1>2, TypesHere
<1>5. Saves(t)
    BY <1>1, <1>3, <1>4 DEF SaveOpens, Saves
<1>6. files' = [combined |-> Torn, bySchema |-> files.bySchema, snapshots |-> files.snapshots]
    BY TypesHere DEF SaveOpens
<1>7. /\ files'.combined = Torn /\ files'.bySchema = files.bySchema
      /\ files'.snapshots = files.snapshots
    BY <1>6
<1>8. files' = [combined |-> files'.combined, bySchema |-> files'.bySchema,
                snapshots |-> files'.snapshots]
    BY <1>6, <1>7
<1> QED  BY <1>3, <1>4, <1>5, <1>7, <1>8, SavesTyped DEF SaveOpens

LEMMA Writing ==
    ASSUME TypeOK, NEW t \in Tasks, SaveWrites(t)
    PROVE  /\ Saves(t) /\ TypeOK' /\ SaverAt(t, "writing") /\ saver'[t].pc = "schemas"
           /\ saver'[t].captured = saver[t].captured
           /\ ~raced => files'.combined = [saver[t].captured EXCEPT !.names = LiveNames(t)]
           /\ files'.combined \in {[saver[t].captured EXCEPT !.names = LiveNames(t)], Torn}
           /\ files'.bySchema = files.bySchema /\ files'.snapshots = files.snapshots
<1> DEFINE s == saver[t]
           n == WithPc(s, "schemas")
           f(x) == [combined |-> x, bySchema |-> files.bySchema, snapshots |-> files.snapshots]
           c == [saver[t].captured EXCEPT !.names = LiveNames(t)]
<1>1. Saving(t) /\ IsSaver(s)
    BY SaverHere DEF SaveWrites, SaverAt, Saving
<1>2. saver' = [saver EXCEPT ![t] = n]
    BY DEF SaveWrites, WithPc
<1>3. IsSaver(n) /\ n.manager = s.manager /\ n.pc = "schemas" /\ n.captured = s.captured
    BY <1>1, SaverRecord
<1> HIDE DEF n
<1>4. /\ saver' = [u \in Tasks |-> saver'[u]] /\ saver'[t] = n
      /\ \A u \in Tasks \ {t} : saver'[u] = saver[u]
    BY <1>2, TypesHere
<1>5. Saves(t)
    BY <1>1, <1>3, <1>4 DEF SaveWrites, Saves, AtSchemas
<1>6. \/ files' = [files EXCEPT !.combined = c]
      \/ raced /\ files' = [files EXCEPT !.combined = Torn]
    BY DEF SaveWrites
<1> HIDE DEF c
<1>7. files' = f(c) \/ (raced /\ files' = f(Torn))
    BY <1>6, TypesHere
<1>8. files' = [combined |-> files'.combined, bySchema |-> files'.bySchema,
                snapshots |-> files'.snapshots]
    BY <1>7
<1>9. /\ ~raced => files'.combined = c
      /\ files'.combined \in {c, Torn}
      /\ files'.bySchema = files.bySchema /\ files'.snapshots = files.snapshots
    BY <1>7
<1> QED  BY <1>3, <1>4, <1>5, <1>8, <1>9, SavesTyped DEF SaveWrites, c

(* The files of the schemas, one after another.                            *)
SavesSchema(t) == OpenSchema(t) \/ WriteSchema(t) \/ CopySnapshot(t)

LEMMA SaverGoesOn ==
    ASSUME TypeOK, NEW t \in Tasks, SavesSchema(t),
           NEW n, IsSaver(n), n.manager = saver[t].manager, n.pc \in AtSchemas,
           saver' = [saver EXCEPT ![t] = n],
           NEW b, NEW q, files' = [[files EXCEPT !.bySchema = b] EXCEPT !.snapshots = q]
    PROVE  /\ Saves(t) /\ TypeOK' /\ saver'[t] = n
           /\ files'.combined = files.combined /\ files'.bySchema = b /\ files'.snapshots = q
<1>1. Saving(t) /\ UNCHANGED << life, held, ref, flag, line, managers, versions, sections, task,
                                 restore, disturbed, raced, cleanups >>
    BY DEF SavesSchema, OpenSchema, WriteSchema, SchemaWritten, CopySnapshot, SaverAt, Saving
<1>2. /\ saver' = [u \in Tasks |-> saver'[u]] /\ saver'[t] = n
      /\ \A u \in Tasks \ {t} : saver'[u] = saver[u]
    BY TypesHere
<1>3. Saves(t)
    BY <1>1, <1>2 DEF Saves
<1>4. files' = [combined |-> files.combined, bySchema |-> b, snapshots |-> q]
    BY TypesHere
<1>5. files'.combined = files.combined /\ files'.bySchema = b /\ files'.snapshots = q
    BY <1>4
<1>6. files' = [combined |-> files'.combined, bySchema |-> files'.bySchema,
                snapshots |-> files'.snapshots]
    BY <1>4, <1>5
<1> QED  BY <1>2, <1>3, <1>5, <1>6, SavesTyped

LEMMA SameFiles ==
    ASSUME TypeOK, NEW b, NEW q
    PROVE  /\ [files EXCEPT !.bySchema = b] =
                [[files EXCEPT !.bySchema = b] EXCEPT !.snapshots = files.snapshots]
           /\ [files EXCEPT !.snapshots = q] =
                [[files EXCEPT !.bySchema = files.bySchema] EXCEPT !.snapshots = q]
           /\ files = [[files EXCEPT !.bySchema = files.bySchema] EXCEPT
                         !.snapshots = files.snapshots]
<1>1. PICK c, d, e : files = [combined |-> c, bySchema |-> d, snapshots |-> e]
    BY TypesHere
<1> QED  BY <1>1

LEMMA OpeningSchema ==
    ASSUME TypeOK, NEW t \in Tasks, OpenSchema(t)
    PROVE  /\ Saves(t) /\ TypeOK' /\ SaverAt(t, "schemas") /\ saver'[t].pc = "schema"
           /\ saver'[t].captured = saver[t].captured
           /\ files'.combined = files.combined /\ files'.snapshots = files.snapshots
           /\ \E name : files'.bySchema = Emptied(files.bySchema, name)
<1> DEFINE s == saver[t]
           i == saver[t].next + 1
           name == LiveNames(t)[saver[t].next]
           r == WithName(s, name)
           w == WithNext(r, i)
           n == WithPc(w, "schema")
           b == Emptied(files.bySchema, name)
<1>1. Saving(t) /\ IsSaver(s) /\ SaverAt(t, "schemas")
    BY SaverHere DEF OpenSchema, SaverAt, Saving
<1>2. saver' = [saver EXCEPT ![t] = n]
    <2>1. saver' = [saver EXCEPT ![t] = [[[s EXCEPT !.name = name] EXCEPT !.next = i] EXCEPT !.pc = "schema"]]
        BY <1>1 DEF OpenSchema, IsSaver
    <2> QED  BY <2>1 DEF WithPc, WithNext, WithName
<1>3. files' = [files EXCEPT !.bySchema = b]
    BY TypesHere DEF OpenSchema
<1> HIDE DEF i, name, b
<1>4. IsSaver(r) /\ r.manager = s.manager /\ r.captured = s.captured
    BY <1>1, SaverRecord
<1> HIDE DEF r
<1>5. IsSaver(w) /\ w.manager = s.manager /\ w.captured = s.captured
    BY <1>4, SaverRecord
<1> HIDE DEF w
<1>6. IsSaver(n) /\ n.manager = s.manager /\ n.captured = s.captured /\ n.pc = "schema"
    BY <1>5, SaverRecord
<1> HIDE DEF n
<1>7. files' = [[files EXCEPT !.bySchema = b] EXCEPT !.snapshots = files.snapshots]
    BY <1>3, SameFiles
<1>8. /\ Saves(t) /\ TypeOK' /\ saver'[t] = n
      /\ files'.combined = files.combined /\ files'.bySchema = b
      /\ files'.snapshots = files.snapshots
    <2>1. SavesSchema(t) /\ n.manager = saver[t].manager /\ n.pc \in AtSchemas
        BY <1>6 DEF SavesSchema, AtSchemas
    <2>2. PICK m, c, d : m = n /\ c = b /\ d = files.snapshots
        OBVIOUS
    <2>3. /\ IsSaver(m) /\ m.manager = saver[t].manager /\ m.pc \in AtSchemas
          /\ saver' = [saver EXCEPT ![t] = m]
        BY <1>2, <1>6, <2>1, <2>2
    <2>4. files' = [[files EXCEPT !.bySchema = c] EXCEPT !.snapshots = d]
        BY <1>7, <2>2
    <2>5. /\ Saves(t) /\ TypeOK' /\ saver'[t] = m
          /\ files'.combined = files.combined /\ files'.bySchema = c /\ files'.snapshots = d
        BY ONLY TypeOK, t \in Tasks, <2>1, <2>3, <2>4, SaverGoesOn
    <2> QED  BY <2>2, <2>5
<1> QED  BY <1>1, <1>6, <1>8 DEF b

LEMMA WritingSchema ==
    ASSUME TypeOK, NEW t \in Tasks, WriteSchema(t)
    PROVE  /\ Saves(t) /\ TypeOK' /\ SaverAt(t, "schema") /\ saver'[t].pc \in AtSchemas
           /\ saver'[t].captured = saver[t].captured /\ saver'[t].name = saver[t].name
           /\ saver'[t].pc = "copying" => saver[t].name = SchemaOf(t)
           /\ files'.combined = files.combined /\ files'.snapshots = files.snapshots
           /\ LET name == saver[t].name
              IN files'.bySchema \in {Emptied(files.bySchema, name),
                   Written(files.bySchema, name, SchemaFile(saver[t].captured, name))}
<1> DEFINE s == saver[t]
           name == s.name
           snapshot == name = SchemaOf(t) /\ task[t].version > 0
           pc == IF snapshot THEN "copying" ELSE "schemas"
           n == WithPc(s, pc)
           e == Emptied(files.bySchema, name)
           w == Written(files.bySchema, name, SchemaFile(s.captured, name))
<1>1. Saving(t) /\ IsSaver(s) /\ SaverAt(t, "schema")
    BY SaverHere DEF WriteSchema, SchemaWritten, SaverAt, Saving
<1>2. saver' = [saver EXCEPT ![t] = n]
    BY DEF WriteSchema, SchemaWritten, WithPc
<1>3. PICK b \in {e, w} : files' = [files EXCEPT !.bySchema = b]
    BY TypesHere DEF WriteSchema, SchemaWritten
<1>4. pc \in AtSchemas /\ (pc = "copying" => name = SchemaOf(t))
    BY DEF AtSchemas
<1> HIDE DEF pc, e, w
<1>5. /\ IsSaver(n) /\ n.manager = s.manager /\ n.captured = s.captured /\ n.pc = pc
      /\ n.name = s.name
    BY <1>1, SaverRecord
<1> HIDE DEF n
<1>6. files' = [[files EXCEPT !.bySchema = b] EXCEPT !.snapshots = files.snapshots]
    BY <1>3, SameFiles
<1>7. /\ Saves(t) /\ TypeOK' /\ saver'[t] = n
      /\ files'.combined = files.combined /\ files'.bySchema = b
      /\ files'.snapshots = files.snapshots
    <2>1. SavesSchema(t) /\ n.manager = saver[t].manager /\ n.pc \in AtSchemas
        BY <1>4, <1>5 DEF SavesSchema
    <2> HIDE DEF s, name
    <2> QED  BY <1>2, <1>5, <1>6, <2>1, SaverGoesOn, ZenonT(30)
<1> QED  BY <1>1, <1>3, <1>4, <1>5, <1>7 DEF e, w

LEMMA Copying ==
    ASSUME TypeOK, NEW t \in Tasks, CopySnapshot(t)
    PROVE  /\ Saves(t) /\ TypeOK' /\ SaverAt(t, "copying") /\ saver'[t].pc = "schemas"
           /\ saver'[t].captured = saver[t].captured
           /\ files'.combined = files.combined /\ files'.bySchema = files.bySchema
           /\ LET name == saver[t].name
                  v == << name, task[t].version >>
              IN \/ /\ name \in DOMAIN files.bySchema
                    /\ files'.snapshots = Written(files.snapshots, v, files.bySchema[name])
                 \/ files'.snapshots = Emptied(files.snapshots, v)
                 \/ files'.snapshots = files.snapshots
<1> DEFINE s == saver[t]
           name == s.name
           v == << name, task[t].version >>
           n == WithPc(s, "schemas")
           e == Emptied(files.snapshots, v)
           w == Written(files.snapshots, v, files.bySchema[name])
<1>1. Saving(t) /\ IsSaver(s) /\ SaverAt(t, "copying")
    BY SaverHere DEF CopySnapshot, SaverAt, Saving
<1>2. saver' = [saver EXCEPT ![t] = n]
    BY DEF CopySnapshot, WithPc
<1>3. \/ name \in DOMAIN files.bySchema /\ files' = [files EXCEPT !.snapshots = w]
      \/ files' = [files EXCEPT !.snapshots = e]
      \/ files' = files
    BY TypesHere DEF CopySnapshot
<1> HIDE DEF e, w
<1>4. PICK q : /\ files' = [[files EXCEPT !.bySchema = files.bySchema] EXCEPT !.snapshots = q]
               /\ \/ name \in DOMAIN files.bySchema /\ q = w
                  \/ q = e
                  \/ q = files.snapshots
    BY <1>3, SameFiles
<1>5. IsSaver(n) /\ n.manager = s.manager /\ n.captured = s.captured /\ n.pc = "schemas"
    BY <1>1, SaverRecord
<1> HIDE DEF n
<1>6. /\ Saves(t) /\ TypeOK' /\ saver'[t] = n
      /\ files'.combined = files.combined /\ files'.bySchema = files.bySchema
      /\ files'.snapshots = q
    <2>1. SavesSchema(t) /\ n.manager = saver[t].manager /\ n.pc \in AtSchemas
        BY <1>5 DEF SavesSchema, AtSchemas
    <2>2. files' = [[files EXCEPT !.bySchema = files.bySchema] EXCEPT !.snapshots = q]
        BY <1>4
    <2> HIDE DEF s, name, v
    <2> QED  BY ONLY TypeOK, t \in Tasks, <1>2, <1>5, <2>1, <2>2, SaverGoesOn, ZenonT(30)
<1> QED  BY <1>1, <1>4, <1>5, <1>6 DEF e, w

(* What they have in common.                                               *)
LEMMA SchemaSaved ==
    ASSUME TypeOK, NEW t \in Tasks, SavesSchema(t)
    PROVE  /\ Saves(t) /\ TypeOK' /\ saver[t].pc \in AtSchemas /\ saver'[t].pc \in AtSchemas
           /\ saver'[t].captured = saver[t].captured
           /\ files'.combined = files.combined
BY OpeningSchema, WritingSchema, Copying DEF SavesSchema, SaverAt, AtSchemas

(* A schema's file has the text it had, or the one the worker writes.      *)
LEMMA SchemaTexts ==
    ASSUME TypeOK, NEW t \in Tasks, SavesSchema(t), NEW s \in DOMAIN files'.bySchema
    PROVE  \/ s \in DOMAIN files.bySchema /\ files'.bySchema[s] = files.bySchema[s]
           \/ s = saver[t].name /\ files'.bySchema[s] = SchemaFile(saver[t].captured, s)
<1>1. PICK f, g, c : f = files.bySchema /\ g = files'.bySchema /\ c = saver[t].captured
    OBVIOUS
<1>2. \/ g = f \/ \E name : g = Emptied(f, name)
      \/ g = Written(f, saver[t].name, SchemaFile(c, saver[t].name))
    <2>1. CASE OpenSchema(t)
        BY <1>1, <2>1, OpeningSchema
    <2>2. CASE WriteSchema(t)
        BY <1>1, <2>2, WritingSchema
    <2>3. CASE CopySnapshot(t)
        BY <1>1, <2>3, Copying
    <2> QED  BY <2>1, <2>2, <2>3 DEF SavesSchema
<1>3. PICK name, text : name = saver[t].name /\ text = SchemaFile(c, name)
    OBVIOUS
<1>4. CASE g = f
    BY <1>1, <1>4
<1>5. ASSUME NEW n, g = Emptied(f, n)
      PROVE  s \in DOMAIN f /\ g[s] = f[s]
    BY <1>1, <1>5 DEF Emptied
<1>6. CASE g = Written(f, name, text)
    <2>1. s = name => g[s] = text
        BY <1>1, <1>6 DEF Written, Over
    <2>2. s # name => s \in DOMAIN f /\ g[s] = f[s]
        BY <1>1, <1>6 DEF Written, Over
    <2> QED  BY <1>1, <1>3, <2>1, <2>2
<1> QED  BY <1>1, <1>2, <1>3, <1>4, <1>5, <1>6

(* A worker is through, well or not.                                       *)
Stops(t) ==
    /\ Saving(t) /\ saver'[t] = IdleSaver /\ \A u \in Tasks \ {t} : saver'[u] = saver[u]
    /\ UNCHANGED << life, held, ref, line, managers, files, sections, restore, disturbed,
                    raced >>

LEMMA Stopping ==
    ASSUME TypeOK, NEW t \in Tasks, SaveEnds(t) \/ SaveFails(t)
    PROVE  /\ Stops(t) /\ Grown
           /\ saver' = [u \in Tasks |-> saver'[u]]
           /\ \A u \in Tasks : saver'[u] = IdleSaver \/ IsSaver(saver'[u])
           /\ UNCHANGED << versions, cleanups >>
<1>1. saver' = [saver EXCEPT ![t] = IdleSaver]
    BY DEF SaveEnds, SaveFails
<1>2. /\ saver' = [u \in Tasks |-> saver'[u]] /\ saver'[t] = IdleSaver
      /\ \A u \in Tasks \ {t} : saver'[u] = saver[u]
    BY <1>1, TypesHere
<1>3. \A u \in Tasks : saver'[u] = IdleSaver \/ IsSaver(saver'[u])
    BY <1>2, TypesHere
<1> QED  BY <1>2, <1>3, Standing DEF SaveEnds, SaveFails, Stops, SaverAt, Saving

LEMMA Ending ==
    ASSUME TypeOK, NEW t \in Tasks, SaveEnds(t)
    PROVE  /\ Stops(t) /\ TypeOK' /\ SaverAt(t, "schemas") /\ UNCHANGED flag
           /\ AtPc(t, "saving") => Goes(t, "saved")
           /\ ~AtPc(t, "saving") => UNCHANGED task
<1>1. /\ AtPc(t, "saving") => Goes(t, "saved")
      /\ ~AtPc(t, "saving") => UNCHANGED task
    BY Moving DEF SaveEnds, AtPc, Phases
<1>2. task' \in [Tasks -> {IdleTask} \cup TaskRecord]
    BY <1>1, TypesHere DEF Goes
<1>3. UNCHANGED flag /\ SaverAt(t, "schemas")
    BY DEF SaveEnds
<1>4. TypeOK'
    BY <1>2, <1>3, Stopping, TypesHere, TypesRest DEF Stops
<1> QED  BY <1>1, <1>3, <1>4, Stopping

LEMMA FailingToSave ==
    ASSUME TypeOK, NEW t \in Tasks, SaveFails(t)
    PROVE  /\ Stops(t) /\ TypeOK'
           /\ AtPc(t, "saving") => Fails(t)
           /\ ~AtPc(t, "saving") => UNCHANGED << task, flag >>
<1>1. /\ AtPc(t, "saving") => Goes(t, "failed") /\ flag' \in [Lives -> BOOLEAN]
                              /\ \A l \in Lives : flag'[l] => flag[l]
      /\ ~AtPc(t, "saving") => UNCHANGED << task, flag >>
    BY Failing DEF SaveFails, AtPc
<1>2. task' \in [Tasks -> {IdleTask} \cup TaskRecord] /\ flag' \in [Lives -> BOOLEAN]
    BY <1>1, TypesHere DEF Goes
<1>3. TypeOK'
    BY <1>2, Stopping, TypesHere, TypesRest DEF Stops
<1> QED  BY <1>1, <1>3, Stopping DEF Fails, Stops

LEMMA Finishing ==
    ASSUME TypeOK, NEW t \in Tasks, Finish(t), NEW l, l = task[t].life
    PROVE  /\ TypeOK' /\ Grown
           /\ ref[l] = None => Fails(t)
           /\ ref[l] # None => /\ Goes(t, "done")
                               /\ \A j \in Lives : j # l => flag'[j] = flag[j]
                               /\ flag'[l] = (flag[l] \/ task[t].kind = "task")
<1>1. ~AtPc(t, "idle") /\ l \in Lives
    BY Running DEF Finish, AtPc, TaskRecord
<1>2. Grown
    BY Standing DEF Finish
<1>3. ref[l] = None => Fails(t) /\ flag' \in [Lives -> BOOLEAN]
    BY <1>1, <1>2, Failing DEF Finish, Fails
<1>4. ref[l] # None => /\ Goes(t, "done") /\ flag' \in [Lives -> BOOLEAN]
                       /\ \A j \in Lives : j # l => flag'[j] = flag[j]
                       /\ flag'[l] = (flag[l] \/ task[t].kind = "task")
    BY <1>1, Moving, TypesHere DEF Finish, Phases
<1>5. task' \in [Tasks -> {IdleTask} \cup TaskRecord] /\ flag' \in [Lives -> BOOLEAN]
    BY <1>3, <1>4 DEF Fails, Goes
<1>6. UNCHANGED << life, held, ref, line, managers, versions, files, saver, restore, disturbed,
                   raced, cleanups >>
    BY DEF Finish
<1>7. TypeOK'
    BY <1>2, <1>5, <1>6, TypesHere, TypesRest
<1> QED  BY <1>2, <1>3, <1>4, <1>7

LEMMA NewLife ==
    ASSUME TypeOK, Come
    PROVE  TypeOK' /\ life' = life + 1 /\ held' = TRUE
<1>1. life' \in Lives
    BY TypesHere, IndexAssumption DEF Come, Lives
<1> QED  BY <1>1, TypesHere, TypesRest, Standing DEF Come

LEMMA Restoring ==
    ASSUME TypeOK, RestoreBegins
    PROVE  TypeOK' /\ restore' # NoRestore
<1> DEFINE m == NewManager(Head(sections))
<1>1. IsManager(m)
    BY Made
<1>2. restore' = [pc |-> "loading", life |-> life, manager |-> m]
    BY DEF RestoreBegins
<1> HIDE DEF m
<1>3. IsRestore(restore')
    BY <1>1, <1>2, TypesHere DEF IsRestore
<1>4. restore' # NoRestore
    BY <1>3 DEF IsRestore, NoRestore
<1> QED  BY <1>3, <1>4, TypesHere, TypesRest, Standing DEF RestoreBegins

LEMMA RestoringEnds ==
    ASSUME TypeOK, RestoreEnds
    PROVE  /\ TypeOK' /\ Grown /\ restore # NoRestore /\ restore' = NoRestore
           /\ \/ UNCHANGED << managers, ref, flag, disturbed >>
              \/ \E l \in Lives :
                   /\ ref'[l] \in 1..Len(managers') /\ managers'[ref'[l]].ready
                   /\ \A j \in Lives : j # l => ref'[j] = ref[j] /\ flag'[j] = flag[j]
                   /\ disturbed \subseteq disturbed'
                   /\ ref[l] # None => l \in disturbed'
<1>1. IsRestore(restore) /\ restore # NoRestore /\ restore' = NoRestore
    BY TypesHere DEF RestoreEnds, NoRestore, IsRestore
<1> DEFINE m == Loaded
           l == restore.life
<1>2. IsManager(m) /\ l \in Lives
    BY <1>1, Restored DEF IsRestore, Loaded
<1>3. UNCHANGED << life, held, line, versions, files, task, saver, raced, cleanups >>
    BY DEF RestoreEnds
<1>4. CASE m.ready
    <2>1. /\ managers' = Append(managers, m)
          /\ ref' = [ref EXCEPT ![l] = Len(managers')]
          /\ flag' = [flag EXCEPT ![l] = TRUE]
          /\ disturbed' = disturbed \cup (IF ref[l] = None THEN {} ELSE {l})
        BY <1>4 DEF RestoreEnds
    <2> HIDE DEF m, l
    <2>2. /\ Grown /\ Len(managers') = Len(managers) + 1 /\ Len(managers') \in Nat
          /\ managers'[Len(managers')] = m
        BY <1>2, <2>1, Growing
    <2>3. ref' \in [Lives -> Nat] /\ \A j \in Lives : ref'[j] <= Len(managers')
        BY <1>2, <2>1, <2>2, TypesHere
    <2>4. flag' \in [Lives -> BOOLEAN] /\ disturbed' \subseteq Lives
        BY <1>2, <2>1, TypesHere
    <2>5. TypeOK'
        BY <1>1, <1>3, <2>2, <2>3, <2>4, TypesHere, TypesRest
    <2>6. /\ ref'[l] \in 1..Len(managers') /\ managers'[ref'[l]].ready
          /\ \A j \in Lives : j # l => ref'[j] = ref[j] /\ flag'[j] = flag[j]
          /\ disturbed \subseteq disturbed'
          /\ ref[l] # None => l \in disturbed'
        BY <1>2, <1>4, <2>1, <2>2, TypesHere
    <2> QED  BY <1>1, <1>2, <2>2, <2>5, <2>6
<1>5. CASE ~m.ready
    <2>1. UNCHANGED << managers, ref, flag, disturbed >>
        BY <1>5 DEF RestoreEnds
    <2> QED  BY <1>1, <1>3, <2>1, TypesHere, TypesRest, Standing
<1> QED  BY <1>4, <1>5

LEMMA Cleaning ==
    ASSUME TypeOK, Cleanup
    PROVE  /\ TypeOK' /\ disturbed' = disturbed \cup {life}
           /\ \A l \in Lives : l # life => ref'[l] = ref[l] /\ flag'[l] = flag[l]
<1>1. ref' \in [Lives -> Nat] /\ \A l \in Lives : ref'[l] <= Len(managers')
    BY TypesHere DEF Cleanup, None
<1>2. flag' \in [Lives -> BOOLEAN] /\ disturbed' = disturbed \cup {life} /\ cleanups' \in Nat
    BY TypesHere DEF Cleanup
<1>3. files' = [combined |-> files'.combined, bySchema |-> files'.bySchema,
                snapshots |-> files'.snapshots]
    BY DEF Cleanup
<1>4. UNCHANGED << life, held, line, managers, versions, task, saver, restore, raced >>
    BY DEF Cleanup
<1>5. TypeOK'
    BY <1>1, <1>2, <1>3, <1>4, TypesHere, TypesRest, Standing
<1>6. \A l \in Lives : l # life => ref'[l] = ref[l] /\ flag'[l] = flag[l]
    BY TypesHere DEF Cleanup
<1> QED  BY <1>2, <1>5, <1>6

(* The background tasks are cancelled, and the line closes up: who is left *)
(* keeps its order.                                                        *)
Cancelled == {t \in Tasks : ~Ended(t) /\ task[t].kind = "task"}

Closed(before, after) ==
    \E k \in Nat : \E at \in [1..k -> 1..Len(before)] :
       /\ after \in Seq(Tasks) /\ Len(after) = k
       /\ \A i \in 1..k : after[i] = before[at[i]] /\ before[at[i]] \notin Cancelled
       /\ \A i, j \in 1..k : i < j => at[i] < at[j]
       /\ \A p \in 1..Len(before) : before[p] \notin Cancelled => \E i \in 1..k : at[i] = p

LEMMA Leaving ==
    ASSUME TypeOK, Leave
    PROVE  /\ TypeOK' /\ held' = FALSE
           /\ \A t \in Cancelled : /\ task'[t] \in TaskRecord /\ task'[t].pc = "failed"
                                   /\ task'[t].life = task[t].life
                                   /\ task'[t].kind = task[t].kind
                                   /\ task'[t].report = task[t].report
                                   /\ task'[t].version = task[t].version
           /\ \A t \in Tasks \ Cancelled : task'[t] = task[t]
           /\ \A l \in Lives : l # life => line'[l] = line[l]
           /\ Closed(line[life], line'[life])
<1>1. /\ life \in Lives /\ line[life] \in Seq(Tasks)
      /\ \A t \in Cancelled : t \in Tasks /\ task[t] \in TaskRecord
    BY TypesHere, Running DEF Cancelled, Ended, AtPc
<1>2. task' = [t \in Tasks |-> IF t \in Cancelled THEN [task[t] EXCEPT !.pc = "failed"]
                               ELSE task[t]]
    BY DEF Leave, Cancelled, Ended
<1>3. ASSUME NEW t \in Cancelled
      PROVE  /\ task'[t] \in TaskRecord /\ task'[t].pc = "failed"
             /\ task'[t].life = task[t].life /\ task'[t].kind = task[t].kind
             /\ task'[t].report = task[t].report /\ task'[t].version = task[t].version
    <2>1. t \in Tasks /\ task[t] \in TaskRecord
        BY <1>1
    <2>2. task'[t] = [task[t] EXCEPT !.pc = "failed"]
        BY <1>2, <2>1
    <2> QED  BY <2>1, <2>2 DEF TaskRecord, Phases
<1>4. \A t \in Tasks \ Cancelled : task'[t] = task[t]
    BY <1>2
<1>5. task' \in [Tasks -> {IdleTask} \cup TaskRecord]
    BY <1>2, <1>3, <1>4, TypesHere
<1> DEFINE before == line[life]
           places == {i \in DOMAIN before : before[i] \notin Cancelled}
<1>6. PICK at \in InOrder(places, Len(before)) :
        line' = [line EXCEPT ![life] = [i \in DOMAIN at |-> before[at[i]]]]
    BY DEF Leave, Cancelled, Ended
<1>7. Len(before) \in Nat /\ places \in SUBSET (1..Len(before))
    BY <1>1
<1>8. PICK k \in Nat : /\ at \in [1..k -> places]
                       /\ \A i, j \in 1..k : i < j => at[i] < at[j]
                       /\ \A p \in places : \E i \in 1..k : at[i] = p
    <2> HIDE DEF places, before
    <2> QED  BY <1>6, <1>7 DEF InOrder
<1> DEFINE after == [i \in DOMAIN at |-> before[at[i]]]
<1>9. /\ after \in Seq(Tasks) /\ Len(after) = k
      /\ \A i \in 1..k : after[i] = before[at[i]]
    <2>1. after = [i \in 1..k |-> before[at[i]]]
        BY <1>8
    <2>2. \A i \in 1..k : before[at[i]] \in Tasks
        BY <1>1, <1>7, <1>8
    <2> HIDE DEF before
    <2>3. after \in [1..k -> Tasks]
        BY <2>1, <2>2
    <2> QED  BY <1>8, <2>1, <2>3
<1>10. /\ line' = [line EXCEPT ![life] = after]
    BY <1>6
<1> HIDE DEF after
<1>11. /\ line' \in [Lives -> Seq(Tasks)] /\ line'[life] = after
       /\ \A l \in Lives : l # life => line'[l] = line[l]
    BY <1>1, <1>9, <1>10, TypesHere
<1>12. Closed(before, after)
    <2>1. at \in [1..k -> 1..Len(before)]
        BY <1>7, <1>8
    <2>2. \A i \in 1..k : before[at[i]] \notin Cancelled
        BY <1>8
    <2>3. \A p \in 1..Len(before) : before[p] \notin Cancelled => \E i \in 1..k : at[i] = p
        BY <1>1, <1>8
    <2> HIDE DEF before, places
    <2>4. /\ after \in Seq(Tasks) /\ Len(after) = k
          /\ \A i \in 1..k : after[i] = before[at[i]] /\ before[at[i]] \notin Cancelled
          /\ \A i, j \in 1..k : i < j => at[i] < at[j]
          /\ \A p \in 1..Len(before) : before[p] \notin Cancelled => \E i \in 1..k : at[i] = p
        BY <1>8, <1>9, <2>2, <2>3
    <2> QED  BY <2>1, <2>4, Zenon DEF Closed
<1>13. TypeOK'
    BY <1>5, <1>11, TypesHere, TypesRest, Standing DEF Leave
<1> QED  BY <1>3, <1>4, <1>11, <1>12, <1>13 DEF Leave

-----------------------------------------------------------------------------
(* The lines.                                                              *)

(* Lined of one line, and of everyone who is queued.                       *)
LineOf(l, s) ==
    \A i \in 1..Len(s) :
       /\ Queued(s[i]) /\ task[s[i]].life = l
       /\ i >= 2 => AtPc(s[i], "waiting")
       /\ \A j \in 1..Len(s) : s[i] = s[j] => i = j

LEMMA LinedMeans ==
    Lined <=> /\ \A l \in Lives : LineOf(l, line[l])
              /\ \A t \in Tasks : Queued(t) =>
                   \E i \in 1..Len(line[task[t].life]) : line[task[t].life][i] = t
BY DEF Lined, LineOf

LEMMA LinedMeansNext ==
    Lined' <=> /\ \A l \in Lives : LineOf(l, line[l])'
               /\ \A t \in Tasks : Queued(t)' =>
                    \E i \in 1..Len(line'[task'[t].life]) : line'[task'[t].life][i] = t
BY DEF Lined, LineOf

(* A line nobody in which moved.                                           *)
LEMMA SameLine ==
    ASSUME TypeOK, Lined, NEW l \in Lives, line'[l] = line[l],
           \A t \in Tasks : Queued(t) /\ task[t].life = l => task'[t] = task[t]
    PROVE  LineOf(l, line[l])'
<1>1. LineOf(l, line[l]) /\ line[l] \in Seq(Tasks)
    BY LinedMeans, TypesHere
<1>2. \A i \in 1..Len(line[l]) : line[l][i] \in Tasks
    BY <1>1
<1>3. \A i \in 1..Len(line[l]) : task'[line[l][i]] = task[line[l][i]]
    BY <1>1, <1>2 DEF LineOf
<1> QED  BY <1>1, <1>3 DEF LineOf, Queued, AtPc

LEMMA LineStands ==
    ASSUME TypeOK, Lined, UNCHANGED line,
           \A t \in Tasks : task'[t] = task[t] \/ ~(Queued(t) \/ Queued(t)')
    PROVE  Lined'
<1>1. \A l \in Lives : LineOf(l, line[l])'
    BY SameLine
<1>2. ASSUME NEW t \in Tasks, Queued(t)'
      PROVE  \E i \in 1..Len(line'[task'[t].life]) : line'[task'[t].life][i] = t
    BY <1>2, LinedMeans DEF Queued
<1> QED  BY <1>1, <1>2, LinedMeansNext

LEMMA LineUnlocked ==
    ASSUME TypeOK, Lined, NEW t \in Tasks,
           \/ AtPc(t, "embedding")
           \/ AtPc(t, "waiting") /\ Head(line[task[t].life]) = t,
           line' = Unlocked(t), NEW pc, Goes(t, pc), pc \notin {"embedding", "waiting"}
    PROVE  Lined'
<1>0. PICK l : l = task[t].life
    OBVIOUS
<1> DEFINE s == line[l]
           r == Tail(s)
<1>1. l \in Lives /\ s \in Seq(Tasks) /\ s # << >> /\ s[1] = t
    BY <1>0, First
<1>2. /\ r \in Seq(Tasks) /\ Len(s) > 0 /\ Len(r) = Len(s) - 1
      /\ \A k \in 1..Len(r) : r[k] = s[k + 1]
    BY <1>1, Tailing
<1>3. line'[l] = r /\ \A j \in Lives : j # l => line'[j] = line[j]
    BY <1>0, <1>1, TypesHere DEF Unlocked
<1>4. LineOf(l, s)
    BY <1>1, LinedMeans
<1>5. ~Queued(t)' /\ \A u \in Tasks \ {t} : task'[u] = task[u]
    BY DEF Goes, Queued
<1>6. \A u \in Tasks : Queued(u) /\ task[u].life = l =>
         \E i \in 1..Len(s) : s[i] = u
    BY LinedMeans
<1>7. ASSUME NEW j \in Lives, j # l
      PROVE  LineOf(j, line[j])'
    BY <1>0, <1>3, <1>5, <1>7, SameLine
<1>a. \A u \in Tasks : Queued(u)' => u # t /\ Queued(u) /\ task'[u] = task[u]
    BY <1>5 DEF Queued
<1> HIDE DEF s, r
<1>8. ASSUME NEW i \in 1..Len(r)
      PROVE  r[i] = s[i + 1] /\ i + 1 \in 1..Len(s) /\ r[i] \in Tasks /\ r[i] # t
    BY <1>1, <1>2, <1>4, <1>8 DEF LineOf
<1>9. LineOf(l, line[l])'
    <2>1. \A i \in 1..Len(r) :
             /\ r[i] \in Tasks /\ task'[r[i]] = task[r[i]] /\ Queued(r[i])
             /\ task[r[i]].life = l /\ AtPc(r[i], "waiting")
             /\ \A j \in 1..Len(r) : r[i] = r[j] => i = j
        <3> SUFFICES ASSUME NEW i \in 1..Len(r)
                     PROVE  /\ r[i] \in Tasks /\ task'[r[i]] = task[r[i]] /\ Queued(r[i])
                            /\ task[r[i]].life = l /\ AtPc(r[i], "waiting")
                            /\ \A j \in 1..Len(r) : r[i] = r[j] => i = j
            OBVIOUS
        <3>1. r[i] = s[i + 1] /\ i + 1 \in 1..Len(s) /\ r[i] \in Tasks /\ r[i] # t
            BY <1>8
        <3>2. i + 1 >= 2
            BY <1>2
        <3>3. Queued(s[i + 1]) /\ task[s[i + 1]].life = l /\ AtPc(s[i + 1], "waiting")
            BY <1>4, <3>1, <3>2 DEF LineOf
        <3>4. ASSUME NEW j \in 1..Len(r), r[i] = r[j]
              PROVE  i = j
            <4>1. r[j] = s[j + 1] /\ j + 1 \in 1..Len(s)
                BY <1>8
            <4>2. i + 1 = j + 1
                BY <1>4, <3>1, <3>4, <4>1 DEF LineOf
            <4> QED  BY <4>2, <1>2
        <3>5. task'[r[i]] = task[r[i]]
            BY <1>5, <3>1
        <3> QED  BY <3>1, <3>3, <3>4, <3>5
    <2>2. \A i \in 1..Len(r) :
             /\ task'[r[i]].pc \in {"embedding", "waiting"} /\ task'[r[i]].life = l
             /\ task'[r[i]].pc = "waiting"
             /\ \A j \in 1..Len(r) : r[i] = r[j] => i = j
        BY <2>1 DEF Queued, AtPc
    <2> QED  BY <1>3, <2>2 DEF LineOf, Queued, AtPc
<1>10. ASSUME NEW u \in Tasks, Queued(u)'
       PROVE  \E i \in 1..Len(line'[task'[u].life]) : line'[task'[u].life][i] = u
    <2>1. u # t /\ Queued(u) /\ task'[u] = task[u]
        BY <1>a, <1>10
    <2>2. CASE task[u].life = l
        <3>1. PICK i \in 1..Len(s) : s[i] = u
            BY <1>6, <2>1, <2>2
        <3>2. i # 1 /\ i - 1 \in 1..Len(r) /\ r[i - 1] = u
            BY <1>1, <1>2, <2>1, <3>1
        <3> QED  BY <1>3, <2>1, <2>2, <3>2
    <2>3. CASE task[u].life # l
        <3>1. task[u].life \in Lives
            BY <2>1, Running DEF Queued, AtPc, TaskRecord
        <3> QED  BY <1>3, <2>1, <2>3, <3>1, LinedMeans
    <2> QED  BY <2>2, <2>3
<1> QED  BY <1>3, <1>7, <1>9, <1>10, LinedMeansNext

(* Someone comes to the end of the line.                                   *)
LEMMA LineJoined ==
    ASSUME TypeOK, Lined, NEW t \in Tasks, AtPc(t, "preparing"), NEW l, l = task[t].life,
           line' = [line EXCEPT ![l] = Append(@, t)], NEW pc, Goes(t, pc),
           pc = "waiting" \/ (pc = "embedding" /\ line[l] = << >>)
    PROVE  Lined'
<1> DEFINE s == line[l]
           r == Append(s, t)
<1>1. l \in Lives /\ s \in Seq(Tasks) /\ ~Queued(t)
    BY Running, TypesHere DEF AtPc, TaskRecord, Queued
<1>2. /\ r \in Seq(Tasks) /\ Len(s) \in Nat /\ Len(r) = Len(s) + 1 /\ r[Len(s) + 1] = t
      /\ \A k \in 1..Len(s) : r[k] = s[k]
    BY <1>1
<1>3. line'[l] = r /\ \A j \in Lives : j # l => line'[j] = line[j]
    BY <1>1, TypesHere
<1>4. LineOf(l, s)
    BY <1>1, LinedMeans
<1>5. /\ task'[t].pc = pc /\ task'[t].life = l /\ \A u \in Tasks \ {t} : task'[u] = task[u]
    BY DEF Goes
<1>6. ASSUME NEW j \in Lives, j # l
      PROVE  LineOf(j, line[j])'
    BY <1>1, <1>3, <1>5, <1>6, SameLine
<1>7. s = << >> => Len(s) = 0
    OBVIOUS
<1> HIDE DEF s, r
<1>8. \A i \in 1..Len(s) : s[i] \in Tasks /\ s[i] # t
    BY <1>1, <1>4 DEF LineOf
<1>9. \A i \in 1..Len(s) :
         /\ task'[s[i]].pc \in {"embedding", "waiting"} /\ task'[s[i]].life = l
         /\ i >= 2 => task'[s[i]].pc = "waiting"
         /\ \A j \in 1..Len(s) : s[i] = s[j] => i = j
    BY <1>4, <1>5, <1>8 DEF LineOf, Queued, AtPc
<1>10. Len(s) >= 1 => pc = "waiting"
    BY <1>7 DEF s
<1>11. LineOf(l, line[l])'
    <2>1. \A i \in 1..Len(r) : i \in 1..Len(s) \/ i = Len(s) + 1
        BY <1>2
    <2>2. \A i \in 1..Len(r) :
             /\ task'[r[i]].pc \in {"embedding", "waiting"} /\ task'[r[i]].life = l
             /\ i >= 2 => task'[r[i]].pc = "waiting"
        BY <1>2, <1>5, <1>9, <1>10, <2>1
    <2>3. \A i, j \in 1..Len(r) : r[i] = r[j] => i = j
        BY <1>2, <1>8, <1>9, <2>1
    <2> DEFINE Fit(q) == \A i \in 1..Len(q) :
             /\ task'[q[i]].pc \in {"embedding", "waiting"} /\ task'[q[i]].life = l
             /\ i >= 2 => task'[q[i]].pc = "waiting"
             /\ \A j \in 1..Len(q) : q[i] = q[j] => i = j
    <2>4. Fit(r)
        BY <2>2, <2>3
    <2>5. PICK q : q = r /\ q = line'[l]
        BY <1>3
    <2>6. Fit(q)
        <3> HIDE DEF Fit
        <3> QED  BY <2>4, <2>5
    <2>7. LineOf(l, q)'
        BY <2>6 DEF LineOf, Queued, AtPc
    <2> QED  BY <2>5, <2>7 DEF LineOf
<1>12. ASSUME NEW u \in Tasks, Queued(u)'
       PROVE  \E i \in 1..Len(line'[task'[u].life]) : line'[task'[u].life][i] = u
    <2>1. CASE u = t
        BY <1>2, <1>3, <1>5, <2>1
    <2>2. CASE u # t
        <3>1. Queued(u) /\ task'[u] = task[u]
            BY <1>5, <1>12, <2>2 DEF Queued
        <3>2. PICK i \in 1..Len(line[task[u].life]) : line[task[u].life][i] = u
            BY <3>1, LinedMeans
        <3>3. task[u].life \in Lives
            BY <3>1, Running DEF Queued, AtPc, TaskRecord
        <3>4. CASE task[u].life = l
            BY <1>2, <1>3, <3>1, <3>2, <3>4 DEF s
        <3>5. CASE task[u].life # l
            BY <1>3, <3>1, <3>2, <3>3, <3>5
        <3> QED  BY <3>4, <3>5
    <2> QED  BY <2>1, <2>2
<1> QED  BY <1>6, <1>11, <1>12, LinedMeansNext

(* The head of a line enters.                                              *)
LEMMA LineEntered ==
    ASSUME TypeOK, Lined, NEW t \in Tasks, AtPc(t, "waiting"), Head(line[task[t].life]) = t,
           UNCHANGED line, Goes(t, "embedding")
    PROVE  Lined'
<1>0. PICK l : l = task[t].life
    OBVIOUS
<1>1. l \in Lives /\ line[l] \in Seq(Tasks) /\ line[l] # << >> /\ line[l][1] = t
    BY <1>0, First
<1>2. LineOf(l, line[l])
    BY <1>1, LinedMeans
<1>3. /\ task'[t].pc = "embedding" /\ task'[t].life = l /\ Queued(t)
      /\ \A u \in Tasks \ {t} : task'[u] = task[u]
    BY <1>0 DEF Goes, AtPc, Queued
<1>4. \A j \in Lives : j # l => LineOf(j, line[j])'
    BY <1>0, <1>3, SameLine
<1>5. LineOf(l, line[l])'
    <2>1. \A i \in 1..Len(line[l]) : line[l][i] \in Tasks /\ (line[l][i] = t => i = 1)
        BY <1>1, <1>2 DEF LineOf
    <2> QED  BY <1>2, <1>3, <2>1 DEF LineOf, Queued, AtPc
<1>6. ASSUME NEW u \in Tasks, Queued(u)'
      PROVE  \E i \in 1..Len(line'[task'[u].life]) : line'[task'[u].life][i] = u
    <2>1. Queued(u) /\ task'[u].life = task[u].life
        BY <1>0, <1>3, <1>6 DEF Queued
    <2> QED  BY <2>1, LinedMeans
<1> QED  BY <1>4, <1>5, <1>6, LinedMeansNext

(* The last session leaves.                                                *)
LEMMA LineClosed ==
    ASSUME TypeOK, Lined, Current, Leave
    PROVE  Lined'
<1> DEFINE s == line[life]
           r == line'[life]
<1>1. life \in Lives /\ s \in Seq(Tasks) /\ LineOf(life, s)
    BY LinedMeans, TypesHere
<1>2. PICK k \in Nat : \E at \in [1..k -> 1..Len(s)] :
       /\ r \in Seq(Tasks) /\ Len(r) = k
       /\ \A i \in 1..k : r[i] = s[at[i]] /\ s[at[i]] \notin Cancelled
       /\ \A i, j \in 1..k : i < j => at[i] < at[j]
       /\ \A p \in 1..Len(s) : s[p] \notin Cancelled => \E i \in 1..k : at[i] = p
    BY Leaving DEF Closed
<1>3. PICK at \in [1..k -> 1..Len(s)] :
       /\ r \in Seq(Tasks) /\ Len(r) = k
       /\ \A i \in 1..k : r[i] = s[at[i]] /\ s[at[i]] \notin Cancelled
       /\ \A i, j \in 1..k : i < j => at[i] < at[j]
       /\ \A p \in 1..Len(s) : s[p] \notin Cancelled => \E i \in 1..k : at[i] = p
    BY <1>2
<1>4. /\ \A t \in Tasks : Queued(t)' => t \notin Cancelled
      /\ \A t \in Tasks \ Cancelled : task'[t] = task[t]
      /\ \A l \in Lives : l # life => line'[l] = line[l]
      /\ UNCHANGED life
    BY Leaving DEF Queued, Leave
<1>5. \A t \in Cancelled : task[t].life = life
    BY DEF Cancelled, Current, Ended, AtPc
<1>6. ASSUME NEW l \in Lives, l # life
      PROVE  LineOf(l, line[l])'
    BY <1>4, <1>5, <1>6, SameLine
<1> HIDE DEF s, r
<1>b. /\ \A i \in 1..Len(s) : i >= 2 => task[s[i]].pc = "waiting"
      /\ \A i, j \in 1..Len(s) : s[i] = s[j] => i = j
    BY <1>1 DEF LineOf, AtPc
<1>7. \A i \in 1..k : /\ at[i] \in 1..Len(s) /\ s[at[i]] \in Tasks
                      /\ task'[r[i]] = task[s[at[i]]]
    BY <1>1, <1>3, <1>4
<1>8. \A i \in 1..k : /\ task'[r[i]].pc \in {"embedding", "waiting"}
                      /\ task'[r[i]].life = life
    BY <1>1, <1>7 DEF LineOf, Queued
<1>9. \A i \in 1..k : i >= 2 => task'[r[i]].pc = "waiting"
    <2>1. TAKE i \in 1..k
    <2>2. HAVE i >= 2
    <2>3. 1 \in 1..k /\ at[1] \in Nat /\ at[i] \in Nat /\ at[1] >= 1
        BY <1>3, <1>7, <2>2
    <2>4. at[i] >= 2
        BY <1>3, <2>2, <2>3
    <2> QED  BY <1>b, <1>7, <2>1, <2>4
<1>10. \A i, j \in 1..k : r[i] = r[j] => i = j
    <2>1. TAKE i, j \in 1..k
    <2>2. HAVE r[i] = r[j]
    <2>3. at[i] = at[j]
        <3>1. s[at[i]] = s[at[j]]
            BY <1>3, <2>1, <2>2
        <3> QED  BY <1>b, <1>7, <2>1, <3>1
    <2>4. at[i] \in Nat /\ at[j] \in Nat
        BY <1>7
    <2> QED  BY <1>3, <2>3, <2>4, SMTT(30)
<1>11. LineOf(life, line[life])'
    BY <1>3, <1>4, <1>8, <1>9, <1>10 DEF LineOf, Queued, AtPc, r
<1>12. ASSUME NEW u \in Tasks, Queued(u)'
       PROVE  \E i \in 1..Len(line'[task'[u].life]) : line'[task'[u].life][i] = u
    <2>1. Queued(u) /\ task'[u] = task[u] /\ u \notin Cancelled
        BY <1>4, <1>12 DEF Queued
    <2>2. PICK p \in 1..Len(line[task[u].life]) : line[task[u].life][p] = u
        BY <2>1, LinedMeans
    <2>3. task[u].life \in Lives
        BY <2>1, Running DEF Queued, AtPc, TaskRecord
    <2>4. CASE task[u].life = life
        <3>1. p \in 1..Len(s) /\ s[p] = u
            BY <2>2, <2>4 DEF s
        <3>2. PICK i \in 1..k : at[i] = p
            BY <1>3, <2>1, <3>1
        <3>3. r[i] = u /\ i \in 1..Len(r)
            BY <1>3, <3>1, <3>2
        <3> QED  BY <2>1, <2>4, <3>3 DEF r
    <2>5. CASE task[u].life # life
        BY <1>4, <2>1, <2>2, <2>3, <2>5
    <2> QED  BY <2>4, <2>5
<1>13. \A l \in Lives : LineOf(l, line[l])'
    BY <1>1, <1>4, <1>6, <1>11
<1> QED  BY <1>12, <1>13, LinedMeansNext

(* One task moved, from outside the lines to outside them.                 *)
LEMMA MovedOutside ==
    ASSUME NEW t \in Tasks, NEW pc, Goes(t, pc), ~Queued(t), pc \notin {"embedding", "waiting"}
    PROVE  \A u \in Tasks : task'[u] = task[u] \/ ~(Queued(u) \/ Queued(u)')
BY DEF Goes, Queued

LEMMA LinedStep ==
    ASSUME TypeOK, Lined, Current, [Next]_vars
    PROVE  Lined'
<1>1. ASSUME NEW t \in Tasks, NEW r \in Reports, Discover(t, r) \/ Initialize(t, r)
      PROVE  Lined'
    <2>1. Starts(t)
        BY <1>1, Starting
    <2>2. \A u \in Tasks : task'[u] = task[u] \/ ~(Queued(u) \/ Queued(u)')
        BY <2>1 DEF Starts, AtPc, Queued
    <2> QED  BY <2>1, <2>2, LineStands DEF Starts
<1>2. ASSUME NEW t \in Tasks, Work(t)
      PROVE  Lined'
    <2>1. CASE ComeToLock(t)
        <3>1. PICK l : l = task[t].life
            OBVIOUS
        <3>2. Comes(t)
            BY <2>1, Coming
        <3>3. PICK pc : /\ Goes(t, pc)
                        /\ pc = "waiting" \/ (pc = "embedding" /\ line[l] = << >>)
            BY <3>1, <3>2 DEF Comes
        <3>4. AtPc(t, "preparing") /\ line' = [line EXCEPT ![l] = Append(@, t)]
            BY <3>1, <3>2 DEF Comes
        <3> QED  BY <3>1, <3>3, <3>4, LineJoined
    <2>2. CASE Resume(t)
        BY <2>2, Resuming, LineEntered DEF Resume
    <2>3. CASE Publish(t)
        <3>1. PICK pc : Goes(t, pc) /\ pc \in {"saving", "failed"}
            BY <2>3, Publishing
        <3> QED  BY <2>3, <3>1, LineUnlocked DEF Publish
    <2>4. CASE FailToEnter(t)
        <3>1. Goes(t, "failed")
            BY <2>4, FailingToEnter DEF Fails
        <3>2. CASE AtPc(t, "waiting") /\ Head(line[task[t].life]) = t /\ line' = Unlocked(t)
            BY <3>1, <3>2, LineUnlocked
        <3>3. CASE AtPc(t, "preparing") /\ UNCHANGED line
            <4>1. ~Queued(t)
                BY <3>3 DEF AtPc, Queued
            <4> QED  BY <3>1, <3>3, <4>1, MovedOutside, LineStands
        <3> QED  BY <2>4, <3>2, <3>3 DEF FailToEnter
    <2>5. CASE FailIndexing(t)
        <3>1. Goes(t, "failed")
            BY <2>5, FailingToIndex DEF Fails
        <3> QED  BY <2>5, <3>1, LineUnlocked DEF FailIndexing
    <2>6. CASE SaveReads(t) \/ SaveOpens(t) \/ SaveWrites(t) \/ SavesSchema(t)
        <3>1. UNCHANGED << task, line >>
            BY <2>6, Reading, Opening, Writing, SchemaSaved DEF Saves
        <3> QED  BY <3>1, LineStands
    <2>7. CASE SaveEnds(t) \/ SaveFails(t)
        <3>1. UNCHANGED line
            BY <2>7, Stopping DEF Stops
        <3>2. AtPc(t, "saving") => Goes(t, "saved") \/ Goes(t, "failed")
            BY <2>7, Ending, FailingToSave DEF Fails
        <3>3. ~AtPc(t, "saving") => UNCHANGED task
            BY <2>7, Ending, FailingToSave
        <3>4. AtPc(t, "saving") => ~Queued(t)
            BY DEF AtPc, Queued
        <3> QED  BY <3>1, <3>2, <3>3, <3>4, MovedOutside, LineStands
    <2>8. CASE Finish(t)
        <3>1. UNCHANGED line /\ ~Queued(t)
            BY <2>8 DEF Finish, AtPc, Queued
        <3>2. Goes(t, "failed") \/ Goes(t, "done")
            BY <2>8, Finishing DEF Fails
        <3> QED  BY <3>1, <3>2, MovedOutside, LineStands
    <2> QED  BY <1>2, <2>1, <2>2, <2>3, <2>4, <2>5, <2>6, <2>7, <2>8 DEF Work, SavesSchema
<1>3. CASE Leave
    BY <1>3, LineClosed
<1>4. CASE Come \/ RestoreBegins \/ RestoreEnds \/ Cleanup \/ UNCHANGED vars
    <2>1. UNCHANGED << task, line >>
        BY <1>4 DEF Come, RestoreBegins, RestoreEnds, Cleanup, vars
    <2> QED  BY <2>1, LineStands
<1> QED  BY <1>1, <1>2, <1>3, <1>4 DEF Next

LEMMA TypesStep ==
    ASSUME TypeOK, Lined, [Next]_vars
    PROVE  TypeOK'
<1>1. ASSUME NEW t \in Tasks, NEW r \in Reports, Discover(t, r) \/ Initialize(t, r)
      PROVE  TypeOK'
    BY <1>1, Starting
<1>2. ASSUME NEW t \in Tasks, Work(t)
      PROVE  TypeOK'
    BY <1>2, Coming, Resuming, Publishing, FailingToEnter, FailingToIndex, Reading, Opening,
       Writing, SchemaSaved, Ending, FailingToSave, Finishing DEF Work, SavesSchema
<1>3. CASE Leave \/ Come \/ RestoreBegins \/ RestoreEnds \/ Cleanup
    BY <1>3, Leaving, NewLife, Restoring, RestoringEnds, Cleaning
<1>4. CASE UNCHANGED vars
    BY <1>4, TypesHere, TypesRest, Standing DEF vars
<1> QED  BY <1>1, <1>2, <1>3, <1>4 DEF Next

-----------------------------------------------------------------------------
(* Whose tasks run.                                                        *)

LEMMA CurrentGoes ==
    ASSUME Current, NEW t \in Tasks, ~AtPc(t, "idle"), NEW pc, Goes(t, pc),
           UNCHANGED << life, held >>, ~Ended(t) \/ pc \in {"idle", "failed", "done"}
    PROVE  Current'
BY DEF Current, Goes, AtPc, Ended

(* Each step of a task that runs takes it to another phase, if to any.     *)
LEMMA Working ==
    ASSUME TypeOK, Lined, NEW t \in Tasks, Work(t)
    PROVE  /\ UNCHANGED << life, held >>
           /\ \/ UNCHANGED task
              \/ ~AtPc(t, "idle") /\ ~Ended(t) /\ \E pc \in Phases : Goes(t, pc)
<1>1. CASE ComeToLock(t)
    BY <1>1, Coming DEF Comes, AtPc, Ended, Phases
<1>2. CASE Resume(t)
    BY <1>2, Resuming DEF Resume, AtPc, Ended, Phases
<1>3. CASE Publish(t)
    <2>1. Goes(t, "failed") \/ Goes(t, "saving")
        BY <1>3, Publishing
    <2> QED  BY <1>3, <2>1 DEF Publish, AtPc, Ended, Phases
<1>4. CASE FailToEnter(t)
    BY <1>4, FailingToEnter DEF FailToEnter, Fails, AtPc, Ended, Phases
<1>5. CASE FailIndexing(t)
    BY <1>5, FailingToIndex DEF FailIndexing, Fails, AtPc, Ended, Phases
<1>6. CASE SaveReads(t) \/ SaveOpens(t) \/ SaveWrites(t) \/ SavesSchema(t)
    BY <1>6, Reading, Opening, Writing, SchemaSaved DEF Saves
<1>7. CASE SaveEnds(t)
    BY <1>7, Ending DEF Stops, AtPc, Ended, Phases
<1>8. CASE SaveFails(t)
    BY <1>8, FailingToSave DEF Stops, Fails, AtPc, Ended, Phases
<1>9. CASE Finish(t)
    <2>1. Goes(t, "failed") \/ Goes(t, "done")
        BY <1>9, Finishing DEF Fails
    <2> QED  BY <1>9, <2>1 DEF Finish, AtPc, Ended, Phases
<1> QED  BY <1>1, <1>2, <1>3, <1>4, <1>5, <1>6, <1>7, <1>8, <1>9 DEF Work, SavesSchema

LEMMA CurrentStep ==
    ASSUME TypeOK, Lined, Current, [Next]_vars
    PROVE  Current'
<1>1. ASSUME NEW t \in Tasks, NEW r \in Reports, Discover(t, r) \/ Initialize(t, r)
      PROVE  Current'
    <2>1. Starts(t)
        BY <1>1, Starting
    <2> QED  BY <2>1, TypesHere, SMTT(30) DEF Starts, Current, AtPc, Ended, Lives
<1>2. ASSUME NEW t \in Tasks, Work(t)
      PROVE  Current'
    <2>1. CASE UNCHANGED task
        BY <1>2, <2>1, Working DEF Current, AtPc, Ended
    <2>2. CASE ~UNCHANGED task
        BY <1>2, <2>2, Working, CurrentGoes
    <2> QED  BY <2>1, <2>2
<1>3. CASE Leave
    <2>1. UNCHANGED life
        BY <1>3 DEF Leave
    <2> QED  BY <1>3, <2>1, Leaving DEF Current, AtPc, Ended, Cancelled
<1>4. CASE Come
    <2>1. ~held /\ UNCHANGED task /\ life \in Nat
        BY <1>4, TypesHere DEF Come, Lives
    <2>2. life' = life + 1
        BY <1>4, NewLife
    <2>3. \A t \in Tasks : ~AtPc(t, "idle") => task[t].life \in Nat
        BY Running DEF TaskRecord, Lives
    <2> QED  BY <2>1, <2>2, <2>3 DEF Current, AtPc, Ended
<1>5. CASE RestoreBegins \/ RestoreEnds \/ Cleanup \/ UNCHANGED vars
    <2>1. UNCHANGED << life, held, task >>
        BY <1>5 DEF RestoreBegins, RestoreEnds, Cleanup, vars
    <2> QED  BY <2>1 DEF Current, AtPc, Ended
<1> QED  BY <1>1, <1>2, <1>3, <1>4, <1>5 DEF Next

-----------------------------------------------------------------------------
(* The flag and what is behind it.                                         *)

(* An index stays one when its state's manager does.                       *)
LEMMA StillIndexed ==
    ASSUME TypeOK, Grown, NEW l \in Lives, ref'[l] = ref[l], Indexed(l)
    PROVE  Indexed(l)'
<1>1. ref[l] \in 1..Len(managers)
    BY TypesHere DEF Indexed, None
<1>2. managers'[ref[l]].ready
    BY <1>1 DEF Indexed, Grown
<1> QED  BY <1>2 DEF Indexed

(* Backed, of one runtime.                                                 *)
BackedAt(l) ==
    /\ flag[l] => Indexed(l)
    /\ \A t \in Tasks : ~AtPc(t, "idle") /\ task[t].life = l =>
         /\ AtPc(t, "embedding") => task[t].manager = ref[l] /\ ref[l] # None
         /\ task[t].pc \in {"saving", "saved"} => Indexed(l)

LEMMA BackedMeans ==
    Backed <=> \A l \in Lives \ disturbed : BackedAt(l)
BY DEF Backed, BackedAt

LEMMA BackedMeansNext ==
    Backed' <=> \A l \in Lives \ disturbed' : BackedAt(l)'
BY DEF Backed, BackedAt

(* No task enters a phase that asks for an index, and no flag is set.      *)
LEMMA StaysBacked ==
    ASSUME TypeOK, Backed, Grown, UNCHANGED << ref, disturbed >>,
           \A l \in Lives : flag'[l] => flag[l],
           \A t \in Tasks : \/ task'[t] = task[t]
                            \/ ~AtPc(t, "idle") /\ task'[t].life = task[t].life /\
                               \/ task'[t].pc \in {"failed", "waiting", "done"}
                               \/ task'[t].pc \in {"saving", "saved"} /\
                                  task[t].pc \in {"saving", "saved"}
                            \/ task'[t].pc = "preparing"
    PROVE  Backed'
<1> SUFFICES ASSUME NEW l \in Lives, l \notin disturbed
             PROVE  BackedAt(l)'
    BY BackedMeansNext
<1>1. BackedAt(l)
    BY BackedMeans
<1>2. Indexed(l) => Indexed(l)'
    BY StillIndexed
<1>3. flag'[l] => Indexed(l)'
    BY <1>1, <1>2 DEF BackedAt
<1>4. ASSUME NEW t \in Tasks, ~AtPc(t, "idle")', task'[t].life = l
      PROVE  /\ AtPc(t, "embedding")' => task'[t].manager = ref'[l] /\ ref'[l] # None
             /\ task'[t].pc \in {"saving", "saved"} => Indexed(l)'
    BY <1>1, <1>2, <1>4 DEF BackedAt, AtPc
<1> QED  BY <1>3, <1>4 DEF BackedAt

LEMMA BackedEnters ==
    ASSUME TypeOK, Backed, NEW t \in Tasks, ~AtPc(t, "idle"), Entered(t),
           UNCHANGED << flag, disturbed >>
    PROVE  Backed'
<1>1. PICK l : l = task[t].life
    OBVIOUS
<1>2. /\ Goes(t, "embedding") /\ task'[t].manager = ref'[l] /\ Grown
      /\ \A j \in Lives : j # l => ref'[j] = ref[j]
      /\ ref'[l] # None
      /\ ref[l] # None => ref'[l] = ref[l]
    BY ZenonT(60), <1>1, Entering
<1> SUFFICES ASSUME NEW j \in Lives, j \notin disturbed
             PROVE  BackedAt(j)'
    BY BackedMeansNext
<1>3. BackedAt(j)
    BY BackedMeans
<1>4. Indexed(j) => Indexed(j)'
    BY <1>2, StillIndexed DEF Indexed
<1>5. flag'[j] => Indexed(j)'
    BY <1>3, <1>4 DEF BackedAt
<1>6. ASSUME NEW u \in Tasks, ~AtPc(u, "idle")', task'[u].life = j
      PROVE  /\ AtPc(u, "embedding")' => task'[u].manager = ref'[j] /\ ref'[j] # None
             /\ task'[u].pc \in {"saving", "saved"} => Indexed(j)'
    <2>1. CASE u = t
        BY <1>1, <1>2, <1>6, <2>1 DEF Goes
    <2>2. CASE u # t
        <3>1. task'[u] = task[u]
            BY <1>2, <2>2 DEF Goes
        <3>2. AtPc(u, "embedding") => task[u].manager = ref[j] /\ ref[j] # None
            BY <1>3, <1>6, <3>1 DEF BackedAt, AtPc
        <3>3. task[u].pc \in {"saving", "saved"} => Indexed(j)
            BY <1>3, <1>6, <3>1 DEF BackedAt, AtPc
        <3> QED  BY <1>2, <1>4, <3>1, <3>2, <3>3 DEF AtPc
    <2> QED  BY <2>1, <2>2
<1> QED  BY <1>5, <1>6 DEF BackedAt

LEMMA BackedPublishes ==
    ASSUME TypeOK, Lined, Backed, NEW t \in Tasks, Publish(t)
    PROVE  Backed'
<1>1. PICK l : l = task[t].life
    OBVIOUS
<1>2. /\ Grown /\ Len(managers') = Len(managers)
      /\ task[t].manager \in 1..Len(managers) => managers'[task[t].manager].ready
      /\ ref[l] = None => Goes(t, "failed")
      /\ ref[l] # None => Goes(t, "saving")
      /\ \A j \in Lives : j # l => flag'[j] = flag[j]
    <2>1. \A j \in Lives : j # l => flag'[j] = flag[j]
        <3>1. \E b : flag' = [flag EXCEPT ![l] = b]
            BY <1>1 DEF Publish
        <3> QED  BY <3>1, TypesHere
    <2>2. /\ Grown /\ Len(managers') = Len(managers)
          /\ task[t].manager \in 1..Len(managers) => managers'[task[t].manager].ready
        BY <1>1, Publishing
    <2>3. /\ ref[l] = None => Goes(t, "failed")
          /\ ref[l] # None => Goes(t, "saving")
        BY <1>1, Publishing
    <2> QED  BY <2>1, <2>2, <2>3
<1>3. UNCHANGED << ref, disturbed >> /\ AtPc(t, "embedding")
    BY DEF Publish
<1> SUFFICES ASSUME NEW j \in Lives, j \notin disturbed
             PROVE  BackedAt(j)'
    BY <1>3, BackedMeansNext
<1>4. BackedAt(j)
    BY BackedMeans
<1>5. Indexed(j) => Indexed(j)'
    BY <1>2, <1>3, StillIndexed
<1>6. j = l => Indexed(j)'
    <2>1. HAVE j = l
    <2>2. task[t].manager = ref[l] /\ ref[l] # None
        BY <1>1, <1>3, <1>4, <2>1 DEF BackedAt, AtPc
    <2>3. ref[l] \in 1..Len(managers)
        BY <2>1, <2>2, TypesHere DEF None
    <2> QED  BY <1>2, <1>3, <2>1, <2>2, <2>3 DEF Indexed
<1>7. flag'[j] => Indexed(j)'
    BY <1>2, <1>4, <1>5, <1>6 DEF BackedAt
<1>8. ASSUME NEW u \in Tasks, ~AtPc(u, "idle")', task'[u].life = j
      PROVE  /\ AtPc(u, "embedding")' => task'[u].manager = ref'[j] /\ ref'[j] # None
             /\ task'[u].pc \in {"saving", "saved"} => Indexed(j)'
    <2>1. CASE u = t
        <3>1. task'[t].pc \in {"failed", "saving"} /\ task'[t].life = l
            BY <1>1, <1>2 DEF Goes
        <3> QED  BY <1>6, <1>8, <2>1, <3>1 DEF AtPc
    <2>2. CASE u # t
        <3>1. task'[u] = task[u]
            BY <1>2, <2>2 DEF Goes
        <3> QED  BY <1>3, <1>4, <1>5, <1>8, <3>1 DEF BackedAt, AtPc
    <2> QED  BY <2>1, <2>2
<1> QED  BY <1>7, <1>8 DEF BackedAt

LEMMA BackedFinishes ==
    ASSUME TypeOK, Lined, Backed, NEW t \in Tasks, Finish(t)
    PROVE  Backed'
<1>1. PICK l : l = task[t].life
    OBVIOUS
<1>2. /\ Grown /\ UNCHANGED << ref, disturbed >> /\ AtPc(t, "saved")
      /\ ref[l] = None => Fails(t)
      /\ ref[l] # None => Goes(t, "done") /\ \A j \in Lives : j # l => flag'[j] = flag[j]
    BY <1>1, Finishing DEF Finish
<1>3. CASE ref[l] = None
    BY <1>2, <1>3, StaysBacked DEF Fails, Goes, AtPc
<1>4. CASE ref[l] # None
    <2> SUFFICES ASSUME NEW j \in Lives, j \notin disturbed
                 PROVE  BackedAt(j)'
        BY <1>2, BackedMeansNext
    <2>1. BackedAt(j)
        BY BackedMeans
    <2>2. Indexed(j) => Indexed(j)'
        BY <1>2, StillIndexed
    <2>3. j = l => Indexed(j)
        BY <1>1, <1>2, <2>1 DEF BackedAt, AtPc
    <2>4. flag'[j] => Indexed(j)'
        BY <1>2, <1>4, <2>1, <2>2, <2>3 DEF BackedAt
    <2>5. ASSUME NEW u \in Tasks, ~AtPc(u, "idle")', task'[u].life = j
          PROVE  /\ AtPc(u, "embedding")' => task'[u].manager = ref'[j] /\ ref'[j] # None
                 /\ task'[u].pc \in {"saving", "saved"} => Indexed(j)'
        <3>1. u = t => task'[u].pc = "done"
            BY <1>2, <1>4 DEF Goes
        <3>2. u # t => task'[u] = task[u]
            BY <1>2, <1>4 DEF Goes
        <3> QED  BY <1>2, <2>1, <2>2, <2>5, <3>1, <3>2 DEF BackedAt, AtPc
    <2> QED  BY <2>4, <2>5 DEF BackedAt
<1> QED  BY <1>3, <1>4

LEMMA BackedStep ==
    ASSUME TypeOK, Lined, Backed, [Next]_vars
    PROVE  Backed'
<1>1. ASSUME NEW t \in Tasks, NEW r \in Reports, Discover(t, r) \/ Initialize(t, r)
      PROVE  Backed'
    <2>1. Starts(t)
        BY <1>1, Starting
    <2> QED  BY <2>1, StaysBacked, Standing DEF Starts
<1>2. ASSUME NEW t \in Tasks, Work(t)
      PROVE  Backed'
    <2>1. CASE ComeToLock(t)
        <3>1. Comes(t) /\ AtPc(t, "preparing") /\ UNCHANGED << flag, disturbed >>
            BY <2>1, Coming DEF Comes
        <3>2. CASE Entered(t)
            BY <3>1, <3>2, BackedEnters DEF AtPc
        <3>3. CASE ~Entered(t)
            <4>1. Goes(t, "waiting") /\ UNCHANGED << managers, ref >>
                BY <3>1, <3>3 DEF Comes
            <4> QED  BY <3>1, <4>1, StaysBacked, Standing DEF Goes, AtPc
        <3> QED  BY <3>2, <3>3
    <2>2. CASE Resume(t)
        BY <2>2, BackedEnters DEF Resume, AtPc
    <2>3. CASE Publish(t)
        BY <2>3, BackedPublishes
    <2>4. CASE FailToEnter(t) \/ FailIndexing(t)
        <3>1. Fails(t) /\ ~AtPc(t, "idle")
            BY <2>4, FailingToEnter, FailingToIndex DEF FailToEnter, FailIndexing, AtPc
        <3> QED  BY <3>1, StaysBacked DEF Fails, Goes
    <2>5. CASE SaveReads(t) \/ SaveOpens(t) \/ SaveWrites(t) \/ SavesSchema(t)
        <3>1. UNCHANGED << task, flag, ref, managers, disturbed >>
            BY <2>5, Reading, Opening, Writing, SchemaSaved DEF Saves
        <3> QED  BY <3>1, StaysBacked, Standing
    <2>6. CASE SaveEnds(t)
        <3>1. UNCHANGED << flag, ref, managers, disturbed >>
            BY <2>6 DEF SaveEnds
        <3>2. \/ UNCHANGED task
              \/ AtPc(t, "saving") /\ Goes(t, "saved")
            BY <2>6, Ending
        <3> QED  BY <3>1, <3>2, StaysBacked, Standing DEF Goes, AtPc
    <2>7. CASE SaveFails(t)
        <3>1. UNCHANGED << ref, managers, disturbed >>
            BY <2>7 DEF SaveFails
        <3>2. \/ UNCHANGED << task, flag >>
              \/ AtPc(t, "saving") /\ Fails(t)
            BY <2>7, FailingToSave
        <3> QED  BY <3>1, <3>2, StaysBacked, Standing DEF Fails, Goes, AtPc
    <2>8. CASE Finish(t)
        BY <2>8, BackedFinishes
    <2> QED  BY <1>2, <2>1, <2>2, <2>3, <2>4, <2>5, <2>6, <2>7, <2>8 DEF Work, SavesSchema
<1>3. CASE Leave
    <2>1. UNCHANGED << ref, flag, managers, disturbed >>
        BY <1>3 DEF Leave
    <2>2. \A t \in Tasks : \/ task'[t] = task[t]
                           \/ ~AtPc(t, "idle") /\ task'[t].life = task[t].life
                              /\ task'[t].pc = "failed"
        BY <1>3, Leaving DEF Cancelled, Ended, AtPc
    <2> QED  BY <2>1, <2>2, StaysBacked, Standing
<1>4. CASE Come \/ RestoreBegins \/ UNCHANGED vars
    <2>1. UNCHANGED << ref, flag, managers, disturbed, task >>
        BY <1>4 DEF Come, RestoreBegins, vars
    <2> QED  BY <2>1, StaysBacked, Standing
<1>5. CASE RestoreEnds
    <2>1. Grown /\ UNCHANGED task
        BY <1>5, RestoringEnds DEF RestoreEnds
    <2>2. CASE UNCHANGED << managers, ref, flag, disturbed >>
        BY <2>1, <2>2, StaysBacked
    <2>3. CASE ~UNCHANGED << managers, ref, flag, disturbed >>
        <3>1. PICK l \in Lives :
                 /\ ref'[l] \in 1..Len(managers') /\ managers'[ref'[l]].ready
                 /\ \A j \in Lives : j # l => ref'[j] = ref[j] /\ flag'[j] = flag[j]
                 /\ disturbed \subseteq disturbed'
                 /\ ref[l] # None => l \in disturbed'
            BY <1>5, <2>3, RestoringEnds
        <3> SUFFICES ASSUME NEW j \in Lives, j \notin disturbed'
                     PROVE  BackedAt(j)'
            BY BackedMeansNext
        <3>2. BackedAt(j)
            BY <3>1, BackedMeans
        <3>3. CASE j = l
            <4>1. Indexed(j)'
                BY <3>1, <3>3 DEF Indexed, None
            <4>2. \A t \in Tasks : task[t].life = j /\ ~AtPc(t, "idle") => ~AtPc(t, "embedding")
                BY <3>1, <3>2, <3>3 DEF BackedAt
            <4> QED  BY <2>1, <4>1, <4>2 DEF BackedAt, AtPc
        <3>4. CASE j # l
            <4>1. Indexed(j) => Indexed(j)'
                BY <2>1, <3>1, <3>4, StillIndexed
            <4> QED  BY <2>1, <3>1, <3>2, <3>4, <4>1 DEF BackedAt, AtPc
        <3> QED  BY <3>3, <3>4
    <2> QED  BY <2>2, <2>3
<1>6. CASE Cleanup
    <2>1. /\ UNCHANGED << task, managers >> /\ disturbed' = disturbed \cup {life}
          /\ \A l \in Lives : l # life => ref'[l] = ref[l] /\ flag'[l] = flag[l]
        BY <1>6, Cleaning DEF Cleanup
    <2> SUFFICES ASSUME NEW j \in Lives, j \notin disturbed'
                 PROVE  BackedAt(j)'
        BY BackedMeansNext
    <2>2. BackedAt(j) /\ j # life
        BY <2>1, BackedMeans
    <2> QED  BY <2>1, <2>2 DEF BackedAt, AtPc, Indexed
<1> QED  BY <1>1, <1>2, <1>3, <1>4, <1>5, <1>6 DEF Next

-----------------------------------------------------------------------------
(* Before the first task.                                                  *)

LEMMA NeverIdleAgain ==
    ASSUME TypeOK, Lined, [Next]_vars, NEW t \in Tasks, AtPc(t, "idle")'
    PROVE  AtPc(t, "idle")
<1>1. ASSUME NEW u \in Tasks, NEW r \in Reports, Discover(u, r) \/ Initialize(u, r)
      PROVE  AtPc(t, "idle")
    BY <1>1, Starting DEF Starts, AtPc
<1>2. ASSUME NEW u \in Tasks, Work(u)
      PROVE  AtPc(t, "idle")
    BY <1>2, Working DEF Goes, AtPc, Phases
<1>3. CASE Leave
    BY <1>3, Leaving DEF AtPc
<1>4. CASE Come \/ RestoreBegins \/ RestoreEnds \/ Cleanup \/ UNCHANGED vars
    BY <1>4 DEF Come, RestoreBegins, RestoreEnds, Cleanup, vars, AtPc
<1> QED  BY <1>1, <1>2, <1>3, <1>4 DEF Next

LEMMA UntouchedStep ==
    ASSUME TypeOK, Lined, Untouched, [Next]_vars
    PROVE  Untouched'
<1> SUFFICES ASSUME \A t \in Tasks : AtPc(t, "idle")'
             PROVE  /\ sections' = << >> /\ restore' = NoRestore
                    /\ \A l \in Lives : ref'[l] = None
                    /\ \A t \in Tasks : ~Saving(t)'
    BY DEF Untouched
<1>1. \A t \in Tasks : AtPc(t, "idle")
    BY NeverIdleAgain
<1>2. /\ sections = << >> /\ restore = NoRestore
      /\ \A l \in Lives : ref[l] = None
      /\ \A t \in Tasks : ~Saving(t)
    BY <1>1 DEF Untouched
<1>3. ASSUME NEW t \in Tasks, NEW r \in Reports, Discover(t, r) \/ Initialize(t, r)
      PROVE  FALSE
    BY <1>3, Starting DEF Starts, AtPc
<1>4. ASSUME NEW t \in Tasks, Work(t)
      PROVE  FALSE
    <2>1. AtPc(t, "idle") /\ ~Saving(t)
        BY <1>1, <1>2
    <2> QED
        BY <1>4, <2>1 DEF Work, ComeToLock, Resume, Publish, FailToEnter, FailIndexing,
           SaveReads, SaveOpens, SaveWrites, SavesSchema, OpenSchema,
           WriteSchema, SchemaWritten, CopySnapshot, SaveEnds, SaveFails, Finish, AtPc,
           SaverAt, Saving
<1>5. CASE Leave \/ Come \/ UNCHANGED vars
    BY <1>2, <1>5 DEF Leave, Come, vars, Saving
<1>6. CASE RestoreBegins \/ RestoreEnds
    BY <1>2, <1>6 DEF RestoreBegins, RestoreEnds, NoRestore
<1>7. CASE Cleanup
    <2>1. \A l \in Lives : ref'[l] = None
        BY <1>2, <1>7, TypesHere DEF Cleanup
    <2> QED  BY <1>2, <1>7, <2>1 DEF Cleanup, Saving
<1> QED  BY <1>3, <1>4, <1>5, <1>6, <1>7 DEF Next

-----------------------------------------------------------------------------
(* What is saved without an overlap.                                       *)

(* Nothing that disturbs is ever undone but by a new life.                 *)
LEMMA WasPristine ==
    ASSUME TypeOK, Lined, Current, [Next]_vars, Pristine'
    PROVE  Pristine \/ (Come /\ \A t \in Tasks : AtPc(t, "idle"))
<1>1. ~raced /\ disturbed = {}
    <2>1. ~raced' /\ disturbed' = {}
        BY DEF Pristine
    <2>2. ASSUME NEW t \in Tasks, Work(t)
          PROVE  (raced => raced') /\ disturbed' = disturbed
        <3>1. CASE Publish(t)
            <4>1. raced' = (raced \/ \E u \in Tasks : Saving(u)) /\ disturbed' = disturbed
                BY <3>1 DEF Publish
            <4> QED  BY <4>1
        <3>2. CASE ~Publish(t)
            <4>1. UNCHANGED << raced, disturbed >>
                BY <2>2, <3>2 DEF Work, ComeToLock, Resume, FailToEnter, FailIndexing,
                   SaveReads, SaveOpens, SaveWrites, SavesSchema, OpenSchema,
           WriteSchema, SchemaWritten, CopySnapshot, SaveEnds, SaveFails, Finish
            <4> QED  BY <4>1
        <3> QED  BY <3>1, <3>2
    <2>3. ASSUME NEW t \in Tasks, NEW r \in Reports, Discover(t, r) \/ Initialize(t, r)
          PROVE  UNCHANGED << raced, disturbed >>
        BY <2>3, Starting DEF Starts
    <2>4. CASE Leave \/ Come \/ RestoreBegins \/ UNCHANGED vars
        BY <2>1, <2>4 DEF Leave, Come, RestoreBegins, vars
    <2>5. CASE RestoreEnds
        BY <2>1, <2>5, RestoringEnds DEF RestoreEnds
    <2>6. CASE Cleanup
        BY <2>1, <2>6, Cleaning
    <2> QED  BY <2>1, <2>2, <2>3, <2>4, <2>5, <2>6 DEF Next
<1>2. \A t \in Tasks : AtPc(t, "idle")' \/ (~AtPc(t, "failed")' /\ task'[t].life = life')
    BY DEF Pristine
<1>3. ASSUME NEW t \in Tasks, NEW r \in Reports, Discover(t, r) \/ Initialize(t, r)
      PROVE  Pristine
    <2>1. Starts(t)
        BY <1>3, Starting
    <2> QED  BY <1>1, <1>2, <2>1 DEF Starts, Pristine, AtPc
<1>4. ASSUME NEW t \in Tasks, Work(t)
      PROVE  Pristine
    <2>1. CASE UNCHANGED task
        BY <1>1, <1>2, <1>4, <2>1, Working DEF Pristine, AtPc
    <2>2. CASE ~UNCHANGED task
        <3>1. PICK pc \in Phases : Goes(t, pc) /\ ~AtPc(t, "idle") /\ ~Ended(t) /\ UNCHANGED life
            BY <1>4, <2>2, Working
        <3>2. \A u \in Tasks : u # t => task'[u] = task[u]
            BY <3>1 DEF Goes
        <3>3. ~AtPc(t, "failed") /\ task[t].life = life
            BY <1>2, <3>1 DEF Goes, Ended, AtPc, Phases
        <3> QED  BY <1>1, <1>2, <3>1, <3>2, <3>3 DEF Pristine, AtPc
    <2> QED  BY <2>1, <2>2
<1>5. CASE Leave
    <2>1. UNCHANGED life /\ \A t \in Tasks : t \in Cancelled \/ task'[t] = task[t]
        BY <1>5, Leaving DEF Leave
    <2>2. \A t \in Cancelled : AtPc(t, "failed")' /\ t \in Tasks
        BY <1>5, Leaving DEF AtPc, Cancelled
    <2>3. \A t \in Tasks : task'[t] = task[t]
        BY <1>2, <2>1, <2>2 DEF AtPc
    <2> QED  BY <1>1, <1>2, <2>1, <2>3 DEF Pristine, AtPc
<1>6. CASE Come
    <2>1. UNCHANGED task /\ life' = life + 1 /\ life \in Nat
        BY <1>6, NewLife, TypesHere DEF Come, Lives
    <2>2. \A t \in Tasks : ~AtPc(t, "idle") => task[t].life <= life /\ task[t].life \in Nat
        BY Running DEF Current, TaskRecord, Lives
    <2> QED  BY <1>2, <1>6, <2>1, <2>2 DEF AtPc
<1>7. CASE RestoreBegins \/ RestoreEnds \/ Cleanup \/ UNCHANGED vars
    <2>1. UNCHANGED << task, life >>
        BY <1>7 DEF RestoreBegins, RestoreEnds, Cleanup, vars
    <2> QED  BY <1>1, <1>2, <2>1 DEF Pristine, AtPc
<1> QED  BY <1>3, <1>4, <1>5, <1>6, <1>7 DEF Next

(* Savers are left alone, and the manager is or was none.                  *)
LEMMA OrderlyStays ==
    ASSUME TypeOK, Backed, Pristine, Orderly,
           UNCHANGED << life, restore, sections, files, saver, flag >>,
           ref[life] # None =>
             ref'[life] = ref[life] /\ managers'[ref[life]] = managers[ref[life]],
           ref[life] = None => ~Indexed(life)',
           \A t \in Tasks : \/ task'[t] = task[t]
                            \/ /\ task[t].pc \notin {"saving", "saved"}
                               /\ task'[t].pc \notin {"saving", "saved"}
    PROVE  Orderly'
<1>1. life \in Lives /\ life \notin disturbed
    BY TypesHere DEF Pristine
<1>2. ASSUME NEW t \in Tasks, Saving(t)
      PROVE  ref[life] # None
    <2>1. AtPc(t, "saving")
        BY <1>2 DEF Orderly
    <2>2. task[t].life = life
        BY <2>1 DEF Pristine, AtPc
    <2> QED  BY <1>1, <2>1, <2>2 DEF Backed, Indexed, AtPc
<1>3. \A t \in Tasks : Saving(t)' <=> Saving(t)
    BY DEF Saving
<1>4. Indexed(life)' => Indexed(life) /\ ref[life] # None
    BY DEF Indexed
<1>5. ref[life] # None => (Kept' <=> Kept)
    BY DEF Kept
<1>6. restore' = NoRestore /\ (sections' # << >> => flag'[life'])
    BY DEF Orderly
<1>7. Indexed(life)' /\ (\A t \in Tasks : ~Saving(t)') => Kept'
    BY <1>3, <1>4, <1>5 DEF Orderly
<1>8. ASSUME NEW t \in Tasks
      PROVE  /\ task'[t].pc \in {"saving", "saved"} => task'[t].kind = "task" \/ flag'[life']
             /\ Saving(t)' <=> AtPc(t, "saving")'
             /\ Saving(t)' => Faithful(t)'
    <2>1. task'[t].pc \in {"saving", "saved"} => task'[t].kind = "task" \/ flag'[life']
        BY DEF Orderly
    <2>2. Saving(t)' <=> AtPc(t, "saving")'
        BY <1>3 DEF Orderly, AtPc
    <2>3. ASSUME Saving(t)'
          PROVE  Faithful(t)'
        <3>1. Faithful(t) /\ ref[life] # None
            BY <1>2, <1>3, <2>3 DEF Orderly
        <3> QED  BY <1>3, <1>5, <3>1 DEF Faithful, SaverAt, Saving, AtSchemas
    <2> QED  BY <2>1, <2>2, <2>3
<1> QED  BY <1>6, <1>7, <1>8 DEF Orderly

(* An indexing goes on to the worker that saves it.                        *)
LEMMA OrderlyPublishes ==
    ASSUME TypeOK, Lined, Backed, Pristine, Orderly, NEW t \in Tasks, Publish(t), Pristine'
    PROVE  Orderly'
<1>1. PICK l : l = task[t].life
    OBVIOUS
<1>2. AtPc(t, "embedding") /\ task[t].life = life /\ l = life /\ life \in Lives
      /\ life \notin disturbed
    BY <1>1, TypesHere DEF Publish, Pristine, AtPc
<1>3. ref[l] # None
    BY <1>1, <1>2 DEF Backed, AtPc
<1>4. \A u \in Tasks : ~Saving(u)
    <2>1. raced' = (raced \/ \E u \in Tasks : Saving(u))
        BY DEF Publish
    <2> QED  BY <2>1 DEF Pristine
<1>5. /\ Goes(t, "saving")
      /\ \A u \in Tasks \ {t} : saver'[u] = saver[u]
      /\ saver'[t].pc = "reading" /\ saver'[t].manager = ref[l]
    BY <1>1, <1>3, Publishing
<1>6. flag'[life] = IF task[t].kind = "call" THEN TRUE ELSE flag[life] /\ ref[life] # None
    BY <1>1, <1>2, TypesHere DEF Publish
<1>7. /\ UNCHANGED << life, ref, sections, restore >>
      /\ flag[life] => flag'[life]
      /\ task[t].kind = "call" => flag'[life]
    BY <1>2, <1>3, <1>6 DEF Publish
<1>8. \A u \in Tasks : Saving(u)' <=> u = t
    BY <1>4, <1>5 DEF Saving
<1>9. Faithful(t)'
    BY <1>2, <1>5, <1>7, <1>8 DEF Faithful, SaverAt, AtSchemas
<1>10. ASSUME NEW u \in Tasks
       PROVE  /\ task'[u].pc \in {"saving", "saved"} => task'[u].kind = "task" \/ flag'[life']
              /\ Saving(u)' <=> AtPc(u, "saving")'
              /\ Saving(u)' => Faithful(u)'
    <2>1. CASE u = t
        <3>1. task'[t].pc = "saving" /\ task'[t].kind = task[t].kind
              /\ task[t].kind \in {"task", "call"}
            BY <1>2, <1>5, Running DEF Goes, TaskRecord, AtPc
        <3> QED  BY <1>7, <1>8, <1>9, <2>1, <3>1 DEF AtPc
    <2>2. CASE u # t
        <3>1. task'[u] = task[u]
            BY <1>5, <2>2 DEF Goes
        <3>2. task'[u].pc \in {"saving", "saved"} => task'[u].kind = "task" \/ flag'[life']
            BY <1>7, <3>1 DEF Orderly
        <3>3. ~Saving(u)' /\ ~AtPc(u, "saving")'
            BY <1>4, <1>8, <2>2, <3>1 DEF Orderly, AtPc
        <3> QED  BY <3>2, <3>3
    <2> QED  BY <2>1, <2>2
<1>11. restore' = NoRestore /\ (sections' # << >> => flag'[life'])
    BY <1>7 DEF Orderly
<1>12. ~ \A u \in Tasks : ~Saving(u)'
    BY <1>8
<1> QED  BY <1>10, <1>11, <1>12 DEF Orderly

LEMMA CapturedNames ==
    ASSUME NEW m
    PROVE  [Captured(m) EXCEPT !.names = m.names] = Captured(m)
BY DEF Captured

(* The one worker that saves goes on.                                      *)
LEMMA OrderlySaves ==
    ASSUME TypeOK, Orderly, NEW t \in Tasks,
           SaveReads(t) \/ SaveOpens(t) \/ SaveWrites(t) \/ SavesSchema(t), ~raced
    PROVE  Orderly'
<1>1. Saves(t)
    BY Reading, Opening, Writing, SchemaSaved
<1>2. Faithful(t)
    BY <1>1 DEF Saves, Orderly
<1>3. Captured(managers'[ref'[life']]) = Captured(managers[ref[life]])
    BY <1>1 DEF Saves
<1>4. /\ saver'[t].pc \in {"opening", "writing"} =>
           saver'[t].captured = Captured(managers[ref[life]])
      /\ saver'[t].pc \in AtSchemas => files'.combined = Captured(managers[ref[life]])
    <2>1. CASE SaveReads(t)
        BY <1>2, <2>1, Reading DEF Faithful, AtSchemas
    <2>2. CASE SaveOpens(t)
        BY <1>2, <2>2, Opening DEF Faithful, SaverAt, AtSchemas
    <2>3. CASE SaveWrites(t)
        <3>1. saver[t].captured = Captured(managers[ref[life]])
            BY <1>2, <2>3, Writing DEF Faithful, SaverAt
        <3>2. LiveNames(t) = managers[ref[life]].names
            BY <1>2 DEF Faithful, LiveNames
        <3>3. files'.combined = [saver[t].captured EXCEPT !.names = LiveNames(t)]
            BY <2>3, Writing
        <3>4. files'.combined = [Captured(managers[ref[life]]) EXCEPT !.names =
                                   managers[ref[life]].names]
            BY <3>1, <3>2, <3>3, Zenon
        <3>5. files'.combined = Captured(managers[ref[life]])
            BY <3>4, CapturedNames, Zenon
        <3> QED  BY <2>3, <3>5, Writing DEF AtSchemas
    <2>4. CASE SavesSchema(t)
        <3>1. /\ saver[t].pc \in AtSchemas /\ saver'[t].pc \in AtSchemas
              /\ files'.combined = files.combined
            BY <2>4, SchemaSaved
        <3> QED  BY <1>2, <3>1 DEF Faithful, Kept, AtSchemas
    <2> QED  BY <2>1, <2>2, <2>3, <2>4
<1>5. \A u \in Tasks : Saving(u)' <=> u = t
    <2>1. \A u \in Tasks : Saving(u) <=> u = t
        BY <1>1, <1>2 DEF Faithful, Saves
    <2>2. \A u \in Tasks \ {t} : saver'[u] = saver[u]
        BY <1>1 DEF Saves
    <2>3. saver'[t].pc # "idle"
        BY <1>1 DEF Saves, AtSchemas
    <2> QED  BY <2>1, <2>2, <2>3 DEF Saving
<1>6. Faithful(t)'
    <2>1. /\ saver'[t].manager = ref'[life']
          /\ saver'[t].pc \in {"reading", "opening", "writing"} \cup AtSchemas
        BY <1>1, <1>2 DEF Faithful, Saves
    <2> QED  BY <1>3, <1>4, <1>5, <2>1 DEF Faithful, SaverAt, Kept
<1>7. \A u \in Tasks : Saving(u)' <=> AtPc(u, "saving")'
    BY <1>1, <1>2, <1>5 DEF Saves, Orderly, Faithful, AtPc
<1>8. /\ restore' = NoRestore /\ (sections' # << >> => flag'[life'])
      /\ \A u \in Tasks :
           task'[u].pc \in {"saving", "saved"} => task'[u].kind = "task" \/ flag'[life']
    BY <1>1 DEF Saves, Orderly
<1> QED  BY <1>5, <1>6, <1>7, <1>8 DEF Orderly

(* It is through: what it leaves is the graph.                             *)
LEMMA OrderlyEnds ==
    ASSUME TypeOK, Orderly, NEW t \in Tasks, SaveEnds(t)
    PROVE  Orderly'
<1>1. Stops(t) /\ SaverAt(t, "schemas") /\ UNCHANGED flag
    BY Ending
<1>2. Faithful(t) /\ AtPc(t, "saving") /\ Kept
    BY <1>1 DEF Stops, Orderly, Faithful, SaverAt, AtSchemas
<1>3. Goes(t, "saved")
    BY <1>2, Ending
<1>4. \A u \in Tasks : ~Saving(u)'
    <2>1. saver'[t].pc = "idle" /\ \A u \in Tasks \ {t} : saver'[u] = saver[u]
        BY <1>1 DEF Stops, IdleSaver
    <2>2. \A u \in Tasks \ {t} : ~Saving(u)
        BY <1>2 DEF Faithful
    <2> QED  BY <2>1, <2>2 DEF Saving
<1>5. \A u \in Tasks : ~AtPc(u, "saving")'
    <2>1. \A u \in Tasks \ {t} : ~AtPc(u, "saving") /\ task'[u] = task[u]
        BY <1>2, <1>3 DEF Orderly, Faithful, Goes
    <2>2. task'[t].pc = "saved"
        BY <1>3 DEF Goes
    <2> QED  BY <2>1, <2>2 DEF AtPc
<1>6. UNCHANGED << life, ref, managers, files, restore, sections >>
    BY <1>1 DEF Stops
<1>7. \A u \in Tasks :
         task'[u].pc \in {"saving", "saved"} => task'[u].kind = "task" \/ flag'[life']
    <2>1. \A u \in Tasks \ {t} : task'[u] = task[u]
        BY <1>3 DEF Goes
    <2>2. task'[t].kind = task[t].kind /\ (task[t].kind = "task" \/ flag[life])
        BY <1>2, <1>3 DEF Goes, Orderly, AtPc
    <2> QED  BY <1>1, <1>6, <2>1, <2>2 DEF Orderly
<1> QED  BY <1>1, <1>2, <1>4, <1>5, <1>6, <1>7 DEF Orderly, Kept

(* A task is done: its section is there, and so is the flag.               *)
LEMMA OrderlyFinishes ==
    ASSUME TypeOK, Lined, Backed, Pristine, Orderly, NEW t \in Tasks, Finish(t)
    PROVE  Orderly'
<1>1. PICK l : l = task[t].life
    OBVIOUS
<1>2. AtPc(t, "saved") /\ l = life /\ life \in Lives /\ life \notin disturbed
    BY <1>1, TypesHere DEF Finish, Pristine, AtPc
<1>3. ref[l] # None
    BY <1>1, <1>2 DEF Backed, Indexed, AtPc
<1>4. Goes(t, "done") /\ flag'[life] = (flag[life] \/ task[t].kind = "task")
    <2>1. Goes(t, "done")
        BY <1>1, <1>3, Finishing
    <2>2. flag'[life] = (flag[life] \/ task[t].kind = "task")
        BY <1>1, <1>2, <1>3, TypesHere DEF Finish
    <2> QED  BY <2>1, <2>2
<1>5. flag'[life]
    BY <1>2, <1>4 DEF Orderly, AtPc
<1>6. UNCHANGED << life, ref, managers, files, saver, restore >>
    BY DEF Finish
<1>7. \A u \in Tasks : /\ Saving(u)' <=> Saving(u)
                       /\ AtPc(u, "saving")' <=> AtPc(u, "saving")
                       /\ Faithful(u)' <=> Faithful(u)
    <2>1. \A u \in Tasks \ {t} : task'[u] = task[u]
        BY <1>4 DEF Goes
    <2>2. ~AtPc(t, "saving") /\ ~AtPc(t, "saving")'
        BY <1>2, <1>4 DEF Goes, AtPc
    <2>3. \A u \in Tasks : Saving(u)' <=> Saving(u)
        BY <1>6 DEF Saving
    <2>4. \A u \in Tasks : AtPc(u, "saving")' <=> AtPc(u, "saving")
        BY <2>1, <2>2 DEF AtPc
    <2>5. \A u \in Tasks : Faithful(u)' <=> Faithful(u)
        BY <1>6 DEF Faithful, Saving, SaverAt, Kept
    <2> QED  BY <2>3, <2>4, <2>5
<1>8. restore' = NoRestore /\ (sections' # << >> => flag'[life'])
    BY <1>5, <1>6 DEF Orderly
<1>9. Indexed(life)' /\ (\A u \in Tasks : ~Saving(u)') => Kept'
    BY <1>6, <1>7 DEF Orderly, Indexed, Kept
<1>10. \A u \in Tasks :
         /\ task'[u].pc \in {"saving", "saved"} => task'[u].kind = "task" \/ flag'[life']
         /\ Saving(u)' <=> AtPc(u, "saving")'
         /\ Saving(u)' => Faithful(u)'
    BY <1>5, <1>6, <1>7 DEF Orderly
<1> QED  BY <1>8, <1>9, <1>10 DEF Orderly

(* A failure would be seen.                                                *)
LEMMA NotFailed ==
    ASSUME Pristine', NEW t \in Tasks, Goes(t, "failed")
    PROVE  FALSE
BY DEF Pristine, Goes, AtPc

LEMMA OrderlyEnters ==
    ASSUME TypeOK, Backed, Pristine, Orderly, NEW t \in Tasks, Entered(t), ~AtPc(t, "idle"),
           task[t].pc \notin {"saving", "saved"},
           UNCHANGED << life, restore, sections, files, saver, flag >>
    PROVE  Orderly'
<1>1. PICK l : l = task[t].life
    OBVIOUS
<1>2. l = life /\ life \in Lives
    BY <1>1, TypesHere DEF Pristine, AtPc
<1>3. /\ Goes(t, "embedding")
      /\ ref[l] # None => ref'[l] = ref[l] /\ UNCHANGED managers
      /\ ref[l] = None => managers'[ref'[l]].ready = FALSE
    BY <1>1, Entering
<1>4. \A u \in Tasks : \/ task'[u] = task[u]
                       \/ /\ task[u].pc \notin {"saving", "saved"}
                          /\ task'[u].pc \notin {"saving", "saved"}
    BY <1>3 DEF Goes
<1>5. ref[life] = None => ~Indexed(life)'
    BY <1>2, <1>3 DEF Indexed
<1> QED  BY <1>2, <1>3, <1>4, <1>5, OrderlyStays

LEMMA UndisturbedStep ==
    ASSUME TypeOK, Lined, Current, Backed, Untouched, Undisturbed, [Next]_vars
    PROVE  Undisturbed'
<1> SUFFICES ASSUME Pristine'
             PROVE  Orderly'
    BY DEF Undisturbed
<1>1. CASE Come /\ \A t \in Tasks : AtPc(t, "idle")
    <2>1. /\ sections' = << >> /\ restore' = NoRestore
          /\ \A l \in Lives : ref'[l] = None
          /\ \A t \in Tasks : ~Saving(t)' /\ AtPc(t, "idle")'
        BY <1>1 DEF Come, Untouched, Saving, AtPc
    <2>2. life' \in Lives
        BY <1>1, NewLife DEF TypeOK
    <2> QED  BY <2>1, <2>2 DEF Orderly, Indexed, AtPc
<1>2. CASE ~(Come /\ \A t \in Tasks : AtPc(t, "idle"))
    <2>1. Pristine /\ Orderly
        BY <1>2, WasPristine DEF Undisturbed
    <2>2. ASSUME NEW t \in Tasks, NEW r \in Reports, Discover(t, r) \/ Initialize(t, r)
          PROVE  Orderly'
        <3>1. Starts(t)
            BY <2>2, Starting
        <3> QED  BY <2>1, <3>1, OrderlyStays DEF Starts, AtPc, Indexed
    <2>3. ASSUME NEW t \in Tasks, Work(t)
          PROVE  Orderly'
        <3>1. CASE ComeToLock(t)
            <4>1. Comes(t)
                BY <3>1, Coming
            <4>2. CASE Entered(t)
                BY <2>1, <4>1, <4>2, OrderlyEnters DEF Comes, AtPc
            <4>3. CASE ~Entered(t)
                BY <2>1, <4>1, <4>3, OrderlyStays DEF Comes, Goes, AtPc, Indexed
            <4> QED  BY <4>2, <4>3
        <3>2. CASE Resume(t)
            BY <2>1, <3>2, OrderlyEnters DEF Resume, AtPc
        <3>3. CASE Publish(t)
            BY <2>1, <3>3, OrderlyPublishes
        <3>4. CASE FailToEnter(t) \/ FailIndexing(t)
            BY <3>4, FailingToEnter, FailingToIndex, NotFailed DEF Fails
        <3>5. CASE SaveReads(t) \/ SaveOpens(t) \/ SaveWrites(t) \/ SavesSchema(t)
            BY <2>1, <3>5, OrderlySaves DEF Pristine
        <3>6. CASE SaveEnds(t)
            BY <2>1, <3>6, OrderlyEnds
        <3>7. CASE SaveFails(t)
            <4>1. AtPc(t, "saving")
                BY <2>1, <3>7 DEF SaveFails, Orderly
            <4> QED  BY <3>7, <4>1, FailingToSave, NotFailed DEF Fails
        <3>8. CASE Finish(t)
            BY <2>1, <3>8, OrderlyFinishes
        <3> QED  BY <2>3, <3>1, <3>2, <3>3, <3>4, <3>5, <3>6, <3>7, <3>8 DEF Work, SavesSchema
    <2>4. CASE Leave
        <3>1. \A t \in Cancelled : t \in Tasks /\ AtPc(t, "failed")'
            BY <2>4, Leaving DEF AtPc, Cancelled
        <3>2. \A t \in Tasks : task'[t] = task[t]
            BY <2>4, <3>1, Leaving DEF Pristine, AtPc
        <3>3. UNCHANGED << life, restore, sections, files, saver, flag, ref, managers >>
            BY <2>4 DEF Leave
        <3> QED  BY <2>1, <3>2, <3>3, OrderlyStays DEF Indexed
    <2>5. CASE Come
        <3>1. UNCHANGED task /\ life' = life + 1 /\ life \in Nat
            BY <2>5, NewLife, TypesHere DEF Come, Lives
        <3>2. \A t \in Tasks : AtPc(t, "idle")
            <4>1. TAKE t \in Tasks
            <4>2. ~AtPc(t, "idle") => task[t].life = life /\ task'[t].life = life'
                BY <2>1, <3>1 DEF Pristine, AtPc
            <4> QED  BY <3>1, <4>2
        <3> QED  BY <1>2, <2>5, <3>2
    <2>6. CASE RestoreBegins
        BY <2>1, <2>6 DEF RestoreBegins, Orderly
    <2>7. CASE RestoreEnds
        BY <2>1, <2>7, RestoringEnds DEF Orderly
    <2>8. CASE Cleanup
        BY <2>8, Cleaning DEF Pristine
    <2>9. CASE UNCHANGED vars
        BY <2>1, <2>9, OrderlyStays DEF vars, Indexed
    <2> QED  BY <2>2, <2>3, <2>4, <2>5, <2>6, <2>7, <2>8, <2>9 DEF Next
<1> QED  BY <1>1, <1>2

-----------------------------------------------------------------------------
(* The theorems.                                                           *)

LEMMA InvAtFirst ==
    Init => Inv
<1> SUFFICES ASSUME Init
             PROVE  Inv
    OBVIOUS
<1>1. TypeOK
    BY TypesAtFirst
<1>2. \A t \in Tasks : AtPc(t, "idle") /\ ~Saving(t)
    BY DEF Init, AtPc, Saving, IdleTask, IdleSaver
<1>3. \A l \in Lives : line[l] = << >> /\ ref[l] = None /\ ~flag[l]
    BY DEF Init
<1>4. Lined
    BY <1>2, <1>3 DEF Lined, Queued, AtPc
<1>5. Current /\ Backed
    BY <1>2, <1>3 DEF Current, Backed
<1>6. Untouched
    BY <1>2, <1>3 DEF Init, Untouched
<1>7. Undisturbed
    BY <1>1, <1>2, <1>3, TypesHere DEF Init, Undisturbed, Orderly, Indexed, AtPc
<1> QED  BY <1>1, <1>4, <1>5, <1>6, <1>7 DEF Inv

LEMMA InvStep ==
    Inv /\ [Next]_vars => Inv'
BY TypesStep, LinedStep, CurrentStep, BackedStep, UntouchedStep, UndisturbedStep DEF Inv

(* The invariant the three below follow from, in every state.              *)
THEOREM IndexInvariant ==
    Spec => []Inv
BY InvAtFirst, InvStep, PTL DEF Spec

(* index_lock is handed on whether its holder publishes, fails or is       *)
(* cancelled, for any number of tasks (unbind_session cancels them where   *)
(* they wait).                                                             *)
THEOREM LockHandedOn ==
    Spec => []LockIsHandedOn
<1>1. Inv => LockIsHandedOn
    <2> SUFFICES ASSUME Inv, NEW l \in Lives, line[l] # << >>
                 PROVE  /\ task[Head(line[l])].life = l
                        /\ task[Head(line[l])].pc \in {"embedding", "waiting"}
                        /\ \A i \in 2..Len(line[l]) : AtPc(line[l][i], "waiting")
        BY DEF LockIsHandedOn
    <2>1. TypeOK /\ Lined
        BY DEF Inv
    <2>2. line[l] \in Seq(Tasks) /\ Head(line[l]) = line[l][1] /\ 1 \in 1..Len(line[l])
        BY <2>1, TypesHere
    <2>3. \A i \in 2..Len(line[l]) : i \in 1..Len(line[l]) /\ i >= 2
        BY <2>2
    <2> QED  BY <2>1, <2>2, <2>3 DEF Lined, Queued
<1> QED  BY <1>1, IndexInvariant, PTL

(* graphrag_initialized means an index that can be asked: no interleaving  *)
(* of indexings, failures, restores and departures sets it over a manager  *)
(* that is missing or empty, where none was replaced.                      *)
LEMMA FlagIsBacked ==
    Spec => []FlagMeansReady
<1>1. Inv => FlagMeansReady
    BY DEF Inv, Backed, Indexed, FlagMeansReady
<1> QED  BY <1>1, IndexInvariant, PTL

(* What save_state wrote when nothing came between is the index as it is.  *)
LEMMA SavedAsItIs ==
    Spec => []SavedIsCurrent
<1>1. Inv => SavedIsCurrent
    <2> SUFFICES ASSUME Inv, ~raced, disturbed = {}, Indexed(life),
                        \A t \in Tasks : \/ task[t].pc = "idle"
                                         \/ task[t].pc = "done" /\ task[t].life = life
                 PROVE  files.combined = Captured(managers[ref[life]])
        BY DEF SavedIsCurrent, Indexed
    <2>1. Pristine
        BY DEF Pristine, AtPc
    <2>2. Orderly
        BY <2>1 DEF Inv, Undisturbed
    <2>3. \A t \in Tasks : ~Saving(t)
        BY <2>2 DEF Orderly, AtPc
    <2> QED  BY <2>2, <2>3 DEF Orderly, Kept
<1> QED  BY <1>1, IndexInvariant, PTL

(* So what the server says of the index is so, with any number of tasks,   *)
(* reports, runtimes and cleanups.                                         *)
THEOREM IndexIsAsItSays ==
    Spec => []IndexIsAsSaid
BY FlagIsBacked, SavedAsItIs, PTL DEF IndexIsAsSaid

-----------------------------------------------------------------------------
(* Graphs and their tables.                                                *)

AllTables == UNION {r.tables : r \in Reports}
Ids(ts) == {Identity(t) : t \in ts}
Catalog(ts) == ts \subseteq AllTables /\ \A t, u \in ts : Identity(t) = Identity(u) => t = u

IsGraph(g) ==
    g = [x \in {"tables", "members", "byName", "edges", "generation", "snapshot"} |-> g[x]]

(* The graph's tables are ts, and each schema has its own of them.         *)
Holds(g, ts) ==
    /\ IsGraph(g) /\ Catalog(ts)
    /\ Nodes(g) = Ids(ts)
    /\ \A t \in ts : g.tables[Identity(t)] = t
    /\ \A t \in ts : t.schema \in DOMAIN g.members
    /\ \A s \in DOMAIN g.members : g.members[s] = Ids(OwnTables(ts, s))

LEMMA SamePlace ==
    ASSUME NEW t \in AllTables, NEW u \in AllTables, Identity(t) = Identity(u)
    PROVE  t.schema = u.schema /\ t.name = u.name
BY IndexAssumption DEF AllTables

LEMMA ReportIsCatalog ==
    ASSUME NEW r \in Reports
    PROVE  Catalog(r.tables) /\ \A t \in r.tables : t.schema = r.schema
<1>1. /\ \A t \in r.tables : t.schema = r.schema
      /\ \A t, u \in r.tables : t.name = u.name => t = u
    BY IndexAssumption DEF Discovered
<1>2. r.tables \subseteq AllTables
    BY DEF AllTables
<1> QED  BY <1>1, <1>2, SamePlace DEF Catalog

LEMMA HeldTables ==
    ASSUME NEW g, NEW ts, Holds(g, ts)
    PROVE  Range(g.tables) = ts
<1>1. \A id \in DOMAIN g.tables : \E t \in ts : id = Identity(t) /\ g.tables[id] = t
    BY DEF Holds, Ids, Nodes
<1>2. \A t \in ts : Identity(t) \in DOMAIN g.tables /\ g.tables[Identity(t)] = t
    BY DEF Holds, Ids, Nodes
<1>3. \A x : x \in Range(g.tables) <=> \E id \in DOMAIN g.tables : x = g.tables[id]
    BY DEF Range
<1> QED  BY <1>1, <1>2, <1>3

LEMMA ChangedOnly ==
    ASSUME NEW g, IsGraph(g)
    PROVE  LET h == GraphChanged(g)
           IN IsGraph(h) /\ h.tables = g.tables /\ h.members = g.members
BY DEF IsGraph, GraphChanged

LEMMA HeldAlike ==
    ASSUME NEW g, NEW h, NEW ts, Holds(g, ts), IsGraph(h), h.tables = g.tables,
           h.members = g.members
    PROVE  Holds(h, ts)
BY DEF Holds, Nodes

(* ts with the tables rs in place of those of the same identity, and ts    *)
(* without some.                                                           *)
Merged(ts, rs) == {t \in ts : Identity(t) \notin Ids(rs)} \cup rs
Without(ts, ids) == {t \in ts : Identity(t) \notin ids}
SchemasOf(ts) == {t.schema : t \in ts}

LEMMA Placed ==
    ASSUME NEW g, IsGraph(g), NEW ts, NEW rs, Catalog(ts), Catalog(rs),
           Nodes(g) = Ids(ts), \A t \in ts : g.tables[Identity(t)] = t,
           \A t \in ts : t.schema \in SchemasOf(rs) => Identity(t) \in Ids(rs),
           \A s \in SchemasOf(ts) \ SchemasOf(rs) : s \in DOMAIN g.members,
           \A s \in DOMAIN g.members \ SchemasOf(rs) : g.members[s] = Ids(OwnTables(ts, s)),
           \A s \in SchemasOf(rs) : At(g.members, s, {}) = {}
    PROVE  Holds(WithNodes(g, rs), Merged(ts, rs))
<1> DEFINE h == WithNodes(g, rs)
           all == Merged(ts, rs)
           placed == [id \in Ids(rs) |-> CHOOSE t \in rs : Identity(t) = id]
           named == [n \in {t.name : t \in rs} |-> At(g.byName, n, {}) \cup Ids({t \in rs : t.name = n})]
           claimed == [s \in SchemasOf(rs) |->
                         At(g.members, s, {}) \cup Ids({t \in rs : t.schema = s})]
<1>1. h = [g EXCEPT !.tables = Over(placed, @), !.byName = Over(named, @),
                    !.members = Over(claimed, @)]
    BY DEF WithNodes, Ids, SchemasOf
<1>2. /\ h.tables = Over(placed, g.tables) /\ h.members = Over(claimed, g.members)
      /\ IsGraph(h)
    BY <1>1 DEF IsGraph
<1> HIDE DEF h
<1>3. Catalog(all)
    BY DEF Merged, Ids, Catalog
<1>4. Nodes(h) = Ids(all)
    <2>1. DOMAIN h.tables = Ids(rs) \cup Ids(ts)
        BY <1>2 DEF Over, Nodes
    <2> QED  BY <2>1 DEF Nodes, Merged, Ids
<1>5. ASSUME NEW t \in all PROVE h.tables[Identity(t)] = t
    <2>1. CASE t \in rs
        <3>1. Identity(t) \in Ids(rs) /\ placed[Identity(t)] = t
            BY <2>1 DEF Ids, Catalog
        <3> HIDE DEF placed
        <3>2. DOMAIN placed = Ids(rs)
            BY DEF placed
        <3> QED  BY <1>2, <3>1, <3>2 DEF Over
    <2>2. CASE t \notin rs
        <3>1. t \in ts /\ Identity(t) \notin Ids(rs) /\ Identity(t) \in Ids(ts)
            BY <2>2 DEF Merged, Ids
        <3>2. Identity(t) \in DOMAIN g.tables /\ g.tables[Identity(t)] = t
            BY <3>1 DEF Nodes
        <3> QED  BY <1>2, <3>1, <3>2 DEF Over
    <2> QED  BY <2>1, <2>2
<1>6. /\ DOMAIN h.members = SchemasOf(rs) \cup DOMAIN g.members
      /\ \A s \in SchemasOf(rs) : h.members[s] = Ids(OwnTables(rs, s))
      /\ \A s \in DOMAIN g.members \ SchemasOf(rs) : h.members[s] = Ids(OwnTables(ts, s))
    BY <1>2 DEF Over, OwnTables
<1>7. ASSUME NEW s \in SchemasOf(rs) PROVE OwnTables(all, s) = OwnTables(rs, s)
    BY DEF Merged, OwnTables
<1>8. ASSUME NEW s, s \notin SchemasOf(rs) PROVE OwnTables(all, s) = OwnTables(ts, s)
    <2>1. ASSUME NEW t \in ts, t.schema = s PROVE Identity(t) \notin Ids(rs)
        BY <1>8, <2>1, SamePlace DEF Ids, Catalog, SchemasOf
    <2> QED  BY <1>8, <2>1 DEF Merged, SchemasOf, OwnTables
<1>9. \A s \in DOMAIN h.members : h.members[s] = Ids(OwnTables(all, s))
    BY <1>6, <1>7, <1>8
<1>10. \A t \in all : t.schema \in DOMAIN h.members
    BY <1>6 DEF Merged, SchemasOf
<1> QED  BY <1>2, <1>3, <1>4, <1>5, <1>9, <1>10 DEF Holds, h

LEMMA KeysOnly ==
    ASSUME NEW g, IsGraph(g), NEW ts
    PROVE  LET h == WithKeys(g, ts)
           IN IsGraph(h) /\ h.tables = g.tables /\ h.members = g.members
<1>1. \E x : WithKeys(g, ts) = [g EXCEPT !.edges = x]
    BY DEF WithKeys
<1> QED  BY <1>1 DEF IsGraph

LEMMA RemovedHolds ==
    ASSUME NEW g, NEW ts, Holds(g, ts), NEW ids
    PROVE  Holds(RemoveTables(g, ids), Without(ts, ids))
<1> DEFINE h == RemoveTables(g, ids)
           kept == Without(ts, ids)
           tables == Restrict(g.tables, DOMAIN g.tables \ ids)
           members == [s \in DOMAIN g.members |-> g.members[s] \ ids]
<1>1. PICK byName, edges :
        LET left == [g EXCEPT !.tables = tables, !.members = members, !.byName = byName,
                              !.edges = edges]
        IN h = left \/ h = GraphChanged(left)
    BY DEF RemoveTables
<1> DEFINE left == [g EXCEPT !.tables = tables, !.members = members, !.byName = byName,
                             !.edges = edges]
<1> HIDE DEF tables, members
<1>2. IsGraph(left) /\ left.tables = tables /\ left.members = members
    BY DEF IsGraph, Holds
<1>3. h = left \/ h = GraphChanged(left)
    BY <1>1
<1> HIDE DEF left, h
<1>4. IsGraph(h) /\ h.tables = tables /\ h.members = members
    BY <1>2, <1>3, ChangedOnly
<1>5. Catalog(kept) /\ Ids(kept) = Ids(ts) \ ids
    BY DEF Without, Ids, Catalog, Holds
<1>6. Nodes(h) = Ids(kept) /\ \A t \in kept : h.tables[Identity(t)] = t
    <2>1. DOMAIN h.tables = Ids(ts) \ ids /\ \A id \in Ids(ts) \ ids : h.tables[id] = g.tables[id]
        BY <1>4 DEF tables, Restrict, Holds, Nodes
    <2>2. \A t \in kept : t \in ts /\ Identity(t) \in Ids(ts) \ ids
        BY DEF Without, Ids
    <2> QED  BY <1>5, <2>1, <2>2 DEF Holds, Nodes
<1>7. DOMAIN h.members = DOMAIN g.members /\ \A s \in DOMAIN g.members : h.members[s] = g.members[s] \ ids
    BY <1>4 DEF members
<1>8. \A s : Ids(OwnTables(kept, s)) = Ids(OwnTables(ts, s)) \ ids
    BY DEF Without, Ids, OwnTables
<1>9. \A s \in DOMAIN h.members : h.members[s] = Ids(OwnTables(kept, s))
    BY <1>7, <1>8 DEF Holds
<1>10. \A t \in kept : t.schema \in DOMAIN h.members
    BY <1>7 DEF Holds, Without
<1> QED  BY <1>4, <1>5, <1>6, <1>9, <1>10 DEF Holds, h

LEMMA BuiltHolds ==
    ASSUME NEW g, IsGraph(g), NEW rs, Catalog(rs)
    PROVE  Holds(BuildGraph(g, rs), rs)
<1> DEFINE cleared == [GraphChanged(g) EXCEPT !.tables = Nothing, !.members = Nothing,
                                              !.byName = Nothing, !.edges = Nothing]
           placed == WithNodes(cleared, rs)
           keyed == WithKeys(placed, rs)
<1>1. IsGraph(cleared) /\ cleared.tables = Nothing /\ cleared.members = Nothing
    <2>1. IsGraph(GraphChanged(g))
        BY ChangedOnly
    <2> QED  BY <2>1 DEF IsGraph
<1>2. DOMAIN Nothing = {} /\ Catalog({}) /\ Merged({}, rs) = rs /\ Ids({}) = {}
    BY DEF Nothing, Catalog, Merged, Ids
<1> HIDE DEF cleared
<1>3. \A s \in SchemasOf(rs) : At(cleared.members, s, {}) = {}
    BY <1>1, <1>2 DEF At
<1>4. Holds(placed, Merged({}, rs))
    BY <1>1, <1>2, <1>3, Placed DEF Nodes, SchemasOf
<1>5. Holds(placed, rs) /\ IsGraph(placed)
    BY <1>2, <1>4 DEF Holds
<1> HIDE DEF placed
<1>6. IsGraph(keyed) /\ keyed.tables = placed.tables /\ keyed.members = placed.members
    BY <1>5, KeysOnly
<1>7. BuildGraph(g, rs) = GraphChanged(keyed)
    BY DEF BuildGraph, placed, cleared
<1> HIDE DEF keyed
<1> QED  BY <1>5, <1>6, <1>7, ChangedOnly, HeldAlike

(* A schema that is reported has all its tables reported.                  *)
LEMMA AddedHolds ==
    ASSUME NEW g, NEW ts, Holds(g, ts), NEW rs, Catalog(rs),
           \A t \in ts : t.schema \in SchemasOf(rs) => Identity(t) \in Ids(rs)
    PROVE  Holds(AddToGraph(g, rs), Merged(ts, rs))
<1> DEFINE zero == [s \in {t.schema : t \in rs} |-> {}]
           asked == [GraphChanged(g) EXCEPT !.members = Over(zero, @)]
           placed == WithNodes(asked, rs)
           bare == [placed EXCEPT !.edges =
                      Restrict(@, {e \in DOMAIN @ : e[1] \notin Ids(rs)})]
           keyed == WithKeys(bare, rs)
<1>1. IsGraph(asked) /\ asked.tables = g.tables /\ asked.members = Over(zero, g.members)
    <2>1. LET q == GraphChanged(g)
          IN IsGraph(q) /\ q.tables = g.tables /\ q.members = g.members
        BY ChangedOnly DEF Holds
    <2> HIDE DEF zero
    <2> QED  BY <2>1 DEF IsGraph
<1>2. /\ DOMAIN asked.members = SchemasOf(rs) \cup DOMAIN g.members
      /\ \A s \in SchemasOf(rs) : At(asked.members, s, {}) = {}
      /\ \A s \in DOMAIN g.members \ SchemasOf(rs) : asked.members[s] = g.members[s]
    <2>1. asked.members = Over(zero, g.members)
        BY <1>1
    <2> HIDE DEF asked
    <2> QED  BY <2>1 DEF Over, At, SchemasOf
<1> HIDE DEF asked
<1>3. Holds(placed, Merged(ts, rs)) /\ IsGraph(placed)
    <2>1. /\ Catalog(ts) /\ Nodes(asked) = Ids(ts) /\ \A t \in ts : asked.tables[Identity(t)] = t
          /\ \A s \in SchemasOf(ts) \ SchemasOf(rs) : s \in DOMAIN asked.members
          /\ \A s \in DOMAIN asked.members \ SchemasOf(rs) : asked.members[s] = Ids(OwnTables(ts, s))
        BY <1>1, <1>2 DEF Holds, Nodes, SchemasOf
    <2>2. Holds(placed, Merged(ts, rs))
        BY <1>1, <1>2, <2>1, Placed
    <2> QED  BY <2>2 DEF Holds
<1> HIDE DEF placed
<1>4. IsGraph(bare) /\ bare.tables = placed.tables /\ bare.members = placed.members
    BY <1>3 DEF IsGraph
<1>5. AddToGraph(g, rs) = GraphChanged(keyed)
    BY DEF AddToGraph, Ids, placed, asked
<1> HIDE DEF bare
<1>6. IsGraph(keyed) /\ keyed.tables = bare.tables /\ keyed.members = bare.members
    BY <1>4, KeysOnly
<1> HIDE DEF keyed
<1> QED  BY <1>3, <1>4, <1>5, <1>6, ChangedOnly, HeldAlike

(* What the graph drops for a report: the schema's tables the report does  *)
(* not have.  No other schema can claim those.                             *)
LEMMA DroppedAre ==
    ASSUME NEW m, NEW ts, Holds(m.graph, ts), NEW r
    PROVE  Dropped(m, r) = Ids(OwnTables(ts, r.schema)) \ Ids(r.tables)
<1> DEFINE g == m.graph
           own == Ids(OwnTables(ts, r.schema))
           missing == own \ Ids(r.tables)
<1>1. TablesOfSchema(g, r.schema) = own
    <2>1. CASE r.schema \in DOMAIN g.members
        BY <2>1 DEF TablesOfSchema, At, Holds
    <2>2. CASE r.schema \notin DOMAIN g.members
        <3>1. OwnTables(ts, r.schema) = {}
            BY <2>2 DEF Holds, OwnTables
        <3> QED  BY <2>2, <3>1 DEF TablesOfSchema, At, Ids
    <2> QED  BY <2>1, <2>2
<1>2. TablesClaimedElsewhere(g, r.schema, missing) = {}
    <2> SUFFICES ASSUME NEW other \in DOMAIN g.members \ {r.schema}, NEW id \in missing,
                        id \in g.members[other]
                 PROVE  FALSE
        BY DEF TablesClaimedElsewhere
    <2>1. id \in Ids(OwnTables(ts, other)) /\ id \in Ids(OwnTables(ts, r.schema))
        BY DEF Holds
    <2>2. PICK t \in ts : t.schema = other /\ id = Identity(t)
        BY <2>1 DEF Ids, OwnTables
    <2>3. PICK u \in ts : u.schema = r.schema /\ id = Identity(u)
        BY <2>1 DEF Ids, OwnTables
    <2> QED  BY <2>2, <2>3, SamePlace DEF Catalog, Holds
<1>3. Dropped(m, r) = missing \ TablesClaimedElsewhere(g, r.schema, missing)
    BY <1>1 DEF Dropped, Ids
<1> QED  BY <1>2, <1>3

(* A publication that breaks off takes away what the report does not have. *)
LEMMA DroppedHolds ==
    ASSUME NEW m, NEW ts, Holds(m.graph, ts), NEW r \in Reports
    PROVE  LET left == Without(ts, Dropped(m, r))
           IN /\ Holds(RemoveTables(m.graph, Dropped(m, r)), left)
              /\ \A s : s # r.schema => OwnTables(left, s) = OwnTables(ts, s)
              /\ OwnTables(left, r.schema) =
                   {t \in OwnTables(ts, r.schema) : Identity(t) \in Ids(r.tables)}
<1> DEFINE gone == Dropped(m, r)
           left == Without(ts, gone)
<1>1. gone = Ids(OwnTables(ts, r.schema)) \ Ids(r.tables)
    BY DroppedAre
<1>2. \A t \in ts : Identity(t) \in gone <=> t.schema = r.schema /\ Identity(t) \notin Ids(r.tables)
    <2> SUFFICES ASSUME NEW t \in ts
                 PROVE  Identity(t) \in Ids(OwnTables(ts, r.schema)) <=> t.schema = r.schema
        BY <1>1
    <2> QED  BY SamePlace DEF Ids, OwnTables, Holds, Catalog
<1> HIDE DEF gone
<1>3. Holds(RemoveTables(m.graph, gone), left)
    BY RemovedHolds
<1>4. \A s : s # r.schema => OwnTables(left, s) = OwnTables(ts, s)
    BY <1>2 DEF Without, OwnTables
<1>5. OwnTables(left, r.schema) = {t \in OwnTables(ts, r.schema) : Identity(t) \in Ids(r.tables)}
    BY <1>2 DEF Without, OwnTables
<1> QED  BY <1>3, <1>4, <1>5 DEF gone

LEMMA DroppedLeaves ==
    ASSUME NEW m, NEW ts, Holds(m.graph, ts), NEW r \in Reports
    PROVE  \E us : /\ Holds(RemoveTables(m.graph, Dropped(m, r)), us)
                   /\ \A s : s # r.schema => OwnTables(us, s) = OwnTables(ts, s)
                   /\ \A x : x \in OwnTables(us, r.schema) <=>
                        x \in OwnTables(ts, r.schema) /\ Identity(x) \in Ids(r.tables)
<1> DEFINE left == Without(ts, Dropped(m, r))
<1>1. /\ Holds(RemoveTables(m.graph, Dropped(m, r)), left)
      /\ \A s : s # r.schema => OwnTables(left, s) = OwnTables(ts, s)
      /\ OwnTables(left, r.schema) =
           {t \in OwnTables(ts, r.schema) : Identity(t) \in Ids(r.tables)}
    BY DroppedHolds
<1> HIDE DEF left
<1> QED  BY <1>1

(* One that goes through has the report, and the others' if it adds.       *)
LEMMA RepublishedHolds ==
    ASSUME NEW m, NEW ts, Holds(m.graph, ts), NEW r \in Reports, NEW accumulate
    PROVE  \E us : /\ Holds(Republished(m, r, accumulate), us)
                   /\ OwnTables(us, r.schema) = r.tables
                   /\ accumulate => \A s : s # r.schema => OwnTables(us, s) = OwnTables(ts, s)
                   /\ ~accumulate => us = r.tables
<1> DEFINE kept == RemoveTables(m.graph, Dropped(m, r))
           left == Without(ts, Dropped(m, r))
<1>1. /\ Holds(kept, left)
      /\ \A s : s # r.schema => OwnTables(left, s) = OwnTables(ts, s)
      /\ OwnTables(left, r.schema) =
           {t \in OwnTables(ts, r.schema) : Identity(t) \in Ids(r.tables)}
    BY DroppedHolds
<1>2. Catalog(r.tables) /\ \A t \in r.tables : t.schema = r.schema
    BY ReportIsCatalog
<1>3. Republished(m, r, accumulate) =
        IF accumulate THEN AddToGraph(kept, r.tables) ELSE BuildGraph(kept, r.tables)
    BY DEF Republished
<1> HIDE DEF kept, left
<1>4. OwnTables(r.tables, r.schema) = r.tables
    BY <1>2 DEF OwnTables
<1>5. CASE accumulate
    <2> DEFINE us == Merged(left, r.tables)
    <2>1. \A t \in left : t.schema \in SchemasOf(r.tables) => Identity(t) \in Ids(r.tables)
        <3>1. \A t \in left : t.schema = r.schema => t \in OwnTables(left, r.schema)
            BY DEF OwnTables
        <3> QED  BY <1>1, <1>2, <3>1 DEF SchemasOf
    <2>2. Holds(AddToGraph(kept, r.tables), us)
        BY <1>1, <1>2, <2>1, AddedHolds
    <2>3. OwnTables(us, r.schema) = r.tables
        <3>1. \A t \in left : t.schema = r.schema => t \in OwnTables(left, r.schema)
            BY DEF OwnTables
        <3>2. \A t \in left : t.schema = r.schema => Identity(t) \in Ids(r.tables)
            BY <1>1, <3>1
        <3> QED  BY <1>2, <3>2 DEF Merged, OwnTables
    <2>4. ASSUME NEW s, s # r.schema PROVE OwnTables(us, s) = OwnTables(ts, s)
        <3>1. \A t \in left : t.schema = s => Identity(t) \notin Ids(r.tables)
            <4>1. left \subseteq AllTables /\ r.tables \subseteq AllTables
                BY <1>1, <1>2 DEF Holds, Catalog
            <4> QED  BY <1>2, <2>4, <4>1, SamePlace DEF Ids
        <3>2. OwnTables(us, s) = OwnTables(left, s)
            BY <1>2, <2>4, <3>1 DEF Merged, OwnTables
        <3> QED  BY <1>1, <2>4, <3>2
    <2> HIDE DEF us
    <2> QED  BY <1>3, <1>5, <2>2, <2>3, <2>4
<1>6. CASE ~accumulate
    <2>1. Holds(BuildGraph(kept, r.tables), r.tables)
        BY <1>1, <1>2, BuiltHolds DEF Holds
    <2> QED  BY <1>3, <1>4, <1>6, <2>1
<1> QED  BY <1>5, <1>6

LEMMA EmptyHolds ==
    Holds(EmptyGraph, {})
<1>1. DOMAIN Nothing = {} /\ Catalog({}) /\ Ids({}) = {}
    BY DEF Nothing, Catalog, Ids
<1>2. IsGraph(EmptyGraph) /\ EmptyGraph.tables = Nothing /\ EmptyGraph.members = Nothing
    BY DEF EmptyGraph, IsGraph
<1> QED  BY <1>1, <1>2 DEF Holds, Nodes

LEMMA LoadedHolds ==
    ASSUME NEW ts, Catalog(ts)
    PROVE  Holds(LoadGraph(EmptyGraph, ts), ts)
<1>1. CASE ts = {}
    BY <1>1, EmptyHolds DEF LoadGraph
<1>2. CASE ts # {}
    BY <1>2, EmptyHolds, BuiltHolds DEF LoadGraph, Holds
<1> QED  BY <1>1, <1>2

-----------------------------------------------------------------------------
(* What the index has of each report.                                      *)

(* A saved file, or what a worker read.                                    *)
IsFile(f) ==
    /\ f = [names |-> f.names, tables |-> f.tables, communities |-> f.communities]
    /\ Listing(f.names) /\ Catalog(f.tables)

TablesIn(k) == Range(managers[k].graph.tables)

ManagersHold ==
    \A k \in 1..Len(managers) :
       Holds(managers[k].graph, TablesIn(k)) /\ Listing(managers[k].names)

FilesHold ==
    /\ IsFile(files.combined)
    /\ \A s \in DOMAIN files.bySchema : Catalog(files.bySchema[s])
    /\ \A t \in Tasks : Saving(t) =>
         /\ ~AtPc(t, "idle") /\ saver[t].manager \in 1..Len(managers)
         /\ IsFile(saver[t].captured)
    /\ restore # NoRestore => \E s : restore.manager = NewManager(s)

(* A manager is one runtime's.                                             *)
Apart ==
    /\ \A l, j \in Lives : ref[l] # None /\ ref[l] = ref[j] => l = j
    /\ \A t \in Tasks : AtPc(t, "embedding") =>
         /\ task[t].manager \in 1..Len(managers)
         /\ \A l \in Lives : task[t].manager = ref[l] => task[t].life = l

Versioned == \A t \in Tasks : ~AtPc(t, "idle") => task[t].version <= versions[SchemaOf(t)]

(* Its report was published; it is in the index.                           *)
Through(t) == task[t].pc \in {"saving", "saved", "done"} \/ Saving(t)

Has(k, s) ==
    s \in Range(managers[k].names) /\ OneReport(s, OwnTables(TablesIn(k), s))

Whole(t) == ref[task[t].life] # None /\ Has(ref[task[t].life], SchemaOf(t))

(* Whose publication replaces what there is, and a worker that saves.      *)
Builds(t) == AtPc(t, "embedding") /\ ~task[t].accumulate

Reads(t) ==
    /\ saver[t].manager = ref[task[t].life]
    /\ saver[t].pc # "reading" =>
         OneReport(SchemaOf(t), OwnTables(saver[t].captured.tables, SchemaOf(t)))

(* Where no manager was replaced, whoever is through has its schema in the *)
(* index, and nobody is when a graph is built.                             *)
Indexings ==
    \A t \in Tasks : ~AtPc(t, "idle") /\ task[t].life \notin disturbed =>
       /\ Through(t) => Whole(t)
       /\ Saving(t) => Reads(t)
       /\ Builds(t) => \A u \in Tasks :
            ~AtPc(u, "idle") /\ task[u].life = task[t].life => ~Through(u)

(* All sets of tables there are, in graphs, in files and in workers.       *)
Said ==
    {TablesIn(k) : k \in 1..Len(managers)} \cup {files.combined.tables}
    \cup {saver[t].captured.tables : t \in {u \in Tasks : Saving(u)}}
    \cup {files.bySchema[s] : s \in DOMAIN files.bySchema}

(* Whatever such a set has of a schema is one report of it.                *)
Sound(ts) == \A s : OwnTables(ts, s) # {} => OneReport(s, OwnTables(ts, s))

Texts == \A ts \in Said : Sound(ts)

(* A schema's file has the schema's tables, or the others' when it has     *)
(* none.                                                                   *)
OwnFirst(s, text) == OwnTables(text, s) # {} => text = OwnTables(text, s)

Firsts == \A s \in DOMAIN files.bySchema : OwnFirst(s, files.bySchema[s])

(* A worker copies a file of its own schema, and where none overlapped     *)
(* another or a publication, the one it has written.                       *)
Copies ==
    /\ ~raced => \A t, u \in Tasks : Saving(t) /\ Saving(u) => t = u
    /\ \A t \in Tasks : SaverAt(t, "copying") =>
         /\ saver[t].name = SchemaOf(t)
         /\ ~raced /\ saver[t].name \in DOMAIN files.bySchema =>
              files.bySchema[saver[t].name] = SchemaFile(saver[t].captured, saver[t].name)

Snapshots ==
    /\ SnapshotsAreOwned
    /\ \A v \in DOMAIN files.snapshots : v[1] \in Schemas /\ v[2] \in Nat

Parts ==
    /\ ManagersHold /\ FilesHold /\ Apart /\ Versioned /\ Indexings
    /\ Texts /\ Firsts /\ Copies /\ Snapshots

-----------------------------------------------------------------------------
(* Tasks keep what they are about, and a failure stays one.                *)
Lasting ==
    /\ \A t \in Tasks : ~AtPc(t, "idle") =>
         /\ ~AtPc(t, "idle")' /\ task'[t].life = task[t].life
         /\ task'[t].report = task[t].report /\ task'[t].version = task[t].version
         /\ AtPc(t, "failed") => AtPc(t, "failed")'
    /\ disturbed \subseteq disturbed'
    /\ \A s \in Schemas : versions[s] <= versions'[s] /\ versions[s] \in Nat /\ versions'[s] \in Nat

LEMMA StillOne ==
    ASSUME Lasting, NEW s, NEW ts, OneReport(s, ts)
    PROVE  OneReport(s, ts)'
<1>1. PICK r \in Reports :
        /\ r.schema = s /\ ts \subseteq r.tables
        /\ \A x \in r.tables \ ts : \E t \in Tasks :
             /\ AtPc(t, "failed") /\ SchemaOf(t) = s
             /\ Identity(x) \notin {Identity(y) : y \in task[t].report.tables}
    BY DEF OneReport
<1>2. \A t \in Tasks : AtPc(t, "failed") =>
        AtPc(t, "failed")' /\ task'[t].report = task[t].report
    BY DEF Lasting, AtPc
<1>3. \A x \in r.tables \ ts : \E t \in Tasks :
             /\ AtPc(t, "failed")' /\ SchemaOf(t)' = s
             /\ Identity(x) \notin {Identity(y) : y \in task'[t].report.tables}
    BY <1>1, <1>2 DEF SchemaOf
<1> QED  BY <1>1, <1>3 DEF OneReport

LEMMA LastingStep ==
    ASSUME TypeOK, TypeOK', Lined, [Next]_vars
    PROVE  Lasting
<1>1. disturbed \subseteq disturbed'
    <2>1. ASSUME NEW t \in Tasks, Work(t)
          PROVE  UNCHANGED disturbed
        BY <2>1 DEF Work, ComeToLock, Resume, Publish, FailToEnter, FailIndexing,
           SaveReads, SaveOpens, SaveWrites, SavesSchema, OpenSchema,
           WriteSchema, SchemaWritten, CopySnapshot, SaveEnds, SaveFails, Finish
    <2>2. ASSUME NEW t \in Tasks, NEW r \in Reports, Discover(t, r) \/ Initialize(t, r)
          PROVE  UNCHANGED disturbed
        BY <2>2, Starting DEF Starts
    <2>3. CASE Leave \/ Come \/ RestoreBegins \/ UNCHANGED vars
        BY <2>3 DEF Leave, Come, RestoreBegins, vars
    <2>4. CASE RestoreEnds \/ Cleanup
        <3>1. \E x : disturbed' = disturbed \cup x \/ UNCHANGED disturbed
            BY <2>4 DEF RestoreEnds, Cleanup
        <3> QED  BY <3>1
    <2> QED  BY <2>1, <2>2, <2>3, <2>4 DEF Next
<1>2. \A s \in Schemas : versions[s] <= versions'[s] /\ versions[s] \in Nat /\ versions'[s] \in Nat
    <2>1. versions \in [Schemas -> Nat] /\ versions' \in [Schemas -> Nat]
        BY DEF TypeOK
    <2>2. UNCHANGED versions \/ \E r \in Reports :
            versions' = [versions EXCEPT ![r.schema] = versions[r.schema] + 1]
        <3>1. ASSUME NEW t \in Tasks, NEW r \in Reports, Discover(t, r) \/ Initialize(t, r)
              PROVE  UNCHANGED versions \/ versions' = [versions EXCEPT ![r.schema] = versions[r.schema] + 1]
            BY <3>1 DEF Discover, Initialize
        <3>2. ASSUME NEW t \in Tasks, Work(t)
              PROVE  UNCHANGED versions
            BY <3>2 DEF Work, ComeToLock, Resume, Publish, FailToEnter, FailIndexing,
               SaveReads, SaveOpens, SaveWrites, SavesSchema, OpenSchema,
           WriteSchema, SchemaWritten, CopySnapshot, SaveEnds, SaveFails, Finish
        <3>3. CASE Leave \/ Come \/ RestoreBegins \/ RestoreEnds \/ Cleanup \/ UNCHANGED vars
            BY <3>3 DEF Leave, Come, RestoreBegins, RestoreEnds, Cleanup, vars
        <3> QED  BY <3>1, <3>2, <3>3 DEF Next
    <2> SUFFICES ASSUME NEW s \in Schemas PROVE versions[s] <= versions'[s]
        BY <2>1
    <2>3. CASE UNCHANGED versions
        BY <2>1, <2>3
    <2>4. CASE ~UNCHANGED versions
        <3>1. PICK r \in Reports : versions' = [versions EXCEPT ![r.schema] = versions[r.schema] + 1]
            BY <2>2, <2>4
        <3>2. versions'[s] = IF s = r.schema THEN versions[s] + 1 ELSE versions[s]
            BY <2>1, <3>1
        <3> QED  BY <2>1, <3>2
    <2> QED  BY <2>3, <2>4
<1>3. ASSUME NEW u \in Tasks, ~AtPc(u, "idle")
      PROVE  /\ ~AtPc(u, "idle")' /\ task'[u].life = task[u].life
             /\ task'[u].report = task[u].report /\ task'[u].version = task[u].version
             /\ AtPc(u, "failed") => AtPc(u, "failed")'
    <2>1. ~AtPc(u, "idle")'
        BY <1>3, NeverIdleAgain
    <2>2. ASSUME NEW t \in Tasks, NEW r \in Reports, Discover(t, r) \/ Initialize(t, r)
          PROVE  task'[u] = task[u]
        BY <1>3, <2>2, Starting DEF Starts
    <2>3. ASSUME NEW t \in Tasks, Work(t)
          PROVE  \/ task'[u] = task[u]
                 \/ ~Ended(u) /\ \E pc \in Phases : Goes(u, pc)
        BY <2>3, Working DEF Goes
    <2>4. CASE Leave
        BY <1>3, <2>1, <2>4, Leaving DEF AtPc, Cancelled, Ended
    <2>5. CASE Come \/ RestoreBegins \/ RestoreEnds \/ Cleanup \/ UNCHANGED vars
        BY <2>1, <2>5 DEF Come, RestoreBegins, RestoreEnds, Cleanup, vars, AtPc
    <2> QED  BY <2>1, <2>2, <2>3, <2>4, <2>5 DEF Next, Goes, Ended, AtPc
<1> QED  BY <1>1, <1>2, <1>3 DEF Lasting

-----------------------------------------------------------------------------
(* The managers.                                                           *)

LEMMA ManagersGrow ==
    ASSUME TypeOK, ManagersHold, NEW m, IsManager(m), Listing(m.names),
           Holds(m.graph, Range(m.graph.tables)), managers' = Append(managers, m)
    PROVE  ManagersHold'
<1>1. /\ Len(managers') = Len(managers) + 1 /\ managers'[Len(managers')] = m
      /\ \A k \in 1..Len(managers) : managers'[k] = managers[k]
    BY Growing
<1>2. Len(managers) \in Nat
    BY TypesHere
<1> SUFFICES ASSUME NEW k \in 1..Len(managers')
             PROVE  Holds(managers'[k].graph, TablesIn(k)') /\ Listing(managers'[k].names)
    BY DEF ManagersHold
<1>3. CASE k \in 1..Len(managers)
    BY <1>1, <1>3 DEF ManagersHold, TablesIn
<1>4. CASE k \notin 1..Len(managers)
    <2>1. k = Len(managers')
        BY <1>1, <1>2, <1>4
    <2> QED  BY <1>1, <2>1 DEF TablesIn
<1> QED  BY <1>3, <1>4

LEMMA ManagersUpdate ==
    ASSUME TypeOK, ManagersHold, NEW k \in 1..Len(managers), NEW m, IsManager(m), Listing(m.names),
           managers[k].ready => m.ready,
           NEW ts, Holds(m.graph, ts), managers' = [managers EXCEPT ![k] = m]
    PROVE  ManagersHold'
<1>1. /\ Len(managers') = Len(managers) /\ managers'[k] = m
      /\ \A j \in 1..Len(managers) : j # k => managers'[j] = managers[j]
    BY Updating
<1>2. Holds(m.graph, Range(m.graph.tables))
    BY HeldTables
<1> SUFFICES ASSUME NEW j \in 1..Len(managers')
             PROVE  Holds(managers'[j].graph, TablesIn(j)') /\ Listing(managers'[j].names)
    BY DEF ManagersHold
<1> QED  BY <1>1, <1>2 DEF ManagersHold, TablesIn

LEMMA JoinedNames ==
    ASSUME NEW names, Listing(names), NEW s
    PROVE  /\ Listing(Joined(names, s)) /\ s \in Range(Joined(names, s))
           /\ Range(names) \subseteq Range(Joined(names, s))
<1>1. CASE s \in Range(names)
    BY <1>1 DEF Joined
<1>2. CASE s \notin Range(names)
    <2> DEFINE r == Append(names, s)
    <2>1. Joined(names, s) = r
        BY <1>2 DEF Joined
    <2>2. /\ Listing(r) /\ Len(r) = Len(names) + 1 /\ r[Len(names) + 1] = s
          /\ \A k \in 1..Len(names) : r[k] = names[k]
        BY Appending
    <2> HIDE DEF r
    <2>3. DOMAIN r = 1..(Len(names) + 1) /\ DOMAIN names = 1..Len(names) /\ Len(names) \in Nat
        BY <2>2 DEF Listing
    <2>4. s \in Range(r) /\ Range(names) \subseteq Range(r)
        BY <2>2, <2>3 DEF Range
    <2> QED  BY <2>1, <2>2, <2>4
<1> QED  BY <1>1, <1>2

LEMMA NewHolds ==
    ASSUME NEW schema
    PROVE  /\ Listing(NewManager(schema).names)
           /\ Holds(NewManager(schema).graph, Range(NewManager(schema).graph.tables))
<1>1. NewManager(schema).graph = EmptyGraph /\ NewManager(schema).names = << >>
    BY DEF NewManager
<1>2. Listing(<< >>)
    BY DEF Listing
<1> QED  BY <1>1, <1>2, EmptyHolds, HeldTables

(* What a publication leaves of the schemas.                               *)
LEMMA PublishedTables ==
    ASSUME TypeOK, ManagersHold, NEW t \in Tasks, Publish(t), NEW k, k = task[t].manager,
           k \in 1..Len(managers)
    PROVE  /\ ManagersHold'
           /\ \A j \in 1..Len(managers) : j # k => managers'[j] = managers[j]
           /\ SchemaOf(t) \in Range(managers'[k].names)
           /\ Range(managers[k].names) \subseteq Range(managers'[k].names)
           /\ OwnTables(TablesIn(k)', SchemaOf(t)) = task[t].report.tables
           /\ task[t].accumulate => \A s : s # SchemaOf(t) =>
                OwnTables(TablesIn(k)', s) = OwnTables(TablesIn(k), s)
           /\ ~task[t].accumulate => TablesIn(k)' = task[t].report.tables
<1>0. PICK m, r, a, ts : m = managers[k] /\ r = task[t].report /\ a = task[t].accumulate /\ ts = TablesIn(k)
    OBVIOUS
<1> DEFINE n == PublishSchema(m, r, a)
<1>1. r \in Reports /\ IsManager(m)
    <2>1. task[t] \in TaskRecord
        BY Running DEF Publish, AtPc
    <2>2. task[t].report \in Reports
        BY <2>1 DEF TaskRecord
    <2> QED  BY <1>0, <2>2 DEF TypeOK
<1>2. Holds(m.graph, ts) /\ Listing(m.names)
    BY <1>0 DEF ManagersHold
<1>3. /\ IsManager(n) /\ n.ready = TRUE
      /\ n.graph = Republished(m, r, a)
      /\ n.names = Joined(m.names, r.schema)
    BY <1>1, Published
<1>4. managers' = [managers EXCEPT ![k] = n]
    BY <1>0 DEF Publish
<1> HIDE DEF n
<1>5. PICK us : /\ Holds(n.graph, us) /\ OwnTables(us, r.schema) = r.tables
                /\ a => \A s : s # r.schema => OwnTables(us, s) = OwnTables(ts, s)
                /\ ~a => us = r.tables
    <2>1. \E us : /\ Holds(Republished(m, r, a), us)
                  /\ OwnTables(us, r.schema) = r.tables
                  /\ a => \A s : s # r.schema => OwnTables(us, s) = OwnTables(ts, s)
                  /\ ~a => us = r.tables
        BY ONLY <1>1, <1>2, RepublishedHolds
    <2> QED  BY <1>3, <2>1
<1>6. Listing(n.names) /\ r.schema \in Range(n.names) /\ Range(m.names) \subseteq Range(n.names)
    BY <1>2, <1>3, JoinedNames
<1>7. ManagersHold'
    BY <1>3, <1>4, <1>5, <1>6, ManagersUpdate
<1>8. managers'[k] = n /\ \A j \in 1..Len(managers) : j # k => managers'[j] = managers[j]
    BY <1>3, <1>4, Updating
<1>9. TablesIn(k)' = us
    BY <1>5, <1>8, HeldTables DEF TablesIn
<1> QED  BY <1>0, <1>5, <1>6, <1>7, <1>8, <1>9 DEF SchemaOf

(* What one that breaks off leaves.                                        *)
LEMMA BrokenOff ==
    ASSUME TypeOK, ManagersHold, NEW t \in Tasks, FailIndexing(t), NEW k, k = task[t].manager,
           k \in 1..Len(managers)
    PROVE  /\ ManagersHold'
           /\ \A j \in 1..Len(managers) : j # k => managers'[j] = managers[j]
           /\ managers'[k].names = managers[k].names
           /\ \A s : s # SchemaOf(t) => OwnTables(TablesIn(k)', s) = OwnTables(TablesIn(k), s)
           /\ OwnTables(TablesIn(k)', SchemaOf(t)) \in
                {OwnTables(TablesIn(k), SchemaOf(t)),
                 {x \in OwnTables(TablesIn(k), SchemaOf(t)) : Identity(x) \in Ids(task[t].report.tables)}}
<1>1. CASE UNCHANGED managers
    BY <1>1 DEF ManagersHold, TablesIn
<1>2. CASE ~UNCHANGED managers
    <2>0. PICK m, r, ts : m = managers[k] /\ r = task[t].report /\ ts = TablesIn(k)
        OBVIOUS
    <2> DEFINE g == RemoveTables(m.graph, Dropped(m, r))
               n == [m EXCEPT !.graph = g]
    <2>1. r \in Reports /\ IsManager(m)
        <3>1. task[t] \in TaskRecord
            BY Running DEF FailIndexing, AtPc
        <3>2. task[t].report \in Reports
            BY <3>1 DEF TaskRecord
        <3> QED  BY <2>0, <3>2 DEF TypeOK
    <2>2. Holds(m.graph, ts) /\ Listing(m.names)
        BY <2>0 DEF ManagersHold
    <2>3. managers' = [managers EXCEPT ![k] = n]
        BY <1>2, <2>0 DEF FailIndexing
    <2>4. PICK us : /\ Holds(g, us)
                    /\ \A s : s # r.schema => OwnTables(us, s) = OwnTables(ts, s)
                    /\ OwnTables(us, r.schema) =
                         {x \in OwnTables(ts, r.schema) : Identity(x) \in Ids(r.tables)}
        <3>1. \E us : /\ Holds(RemoveTables(m.graph, Dropped(m, r)), us)
                      /\ \A s : s # r.schema => OwnTables(us, s) = OwnTables(ts, s)
                      /\ \A x : x \in OwnTables(us, r.schema) <=>
                           x \in OwnTables(ts, r.schema) /\ Identity(x) \in Ids(r.tables)
            BY ONLY <2>1, <2>2, DroppedLeaves
        <3> QED  BY <3>1
    <2> HIDE DEF g
    <2>5. IsManager(n) /\ n.ready = m.ready /\ n.graph = g /\ n.names = m.names
        <3>1. IsManager(n) /\ n.ready = m.ready
            BY <2>1, Reset
        <3>2. \E a, b, c, d, e, f : m = [graph |-> a, names |-> f, last |-> b, ready |-> c,
                                        home |-> d, communities |-> e]
            BY <2>1 DEF IsManager
        <3>3. n.graph = g /\ n.names = m.names
            BY <3>2
        <3> QED  BY <3>1, <3>3
    <2> HIDE DEF n
    <2>6. ManagersHold'
        BY <2>0, <2>2, <2>3, <2>4, <2>5, ManagersUpdate
    <2>7. managers'[k] = n /\ \A j \in 1..Len(managers) : j # k => managers'[j] = managers[j]
        BY <2>0, <2>3, <2>5, Updating
    <2>8. TablesIn(k)' = us
        BY <2>4, <2>5, <2>7, HeldTables DEF TablesIn
    <2> QED  BY <2>0, <2>4, <2>5, <2>6, <2>7, <2>8 DEF SchemaOf
<1> QED  BY <1>1, <1>2

-----------------------------------------------------------------------------
LEMMA LoadsHold ==
    ASSUME TypeOK, FilesHold, restore.pc = "loading"
    PROVE  /\ IsManager(Loaded) /\ Listing(Loaded.names)
           /\ Holds(Loaded.graph, Range(Loaded.graph.tables))
           /\ \/ Range(Loaded.graph.tables) \in {{}, files.combined.tables}
              \/ \E s \in DOMAIN files.bySchema :
                   Range(Loaded.graph.tables) = files.bySchema[s]
<1>1. restore # NoRestore /\ IsManager(restore.manager)
    BY TypesHere DEF NoRestore, IsRestore
<1>2. PICK s : restore.manager = NewManager(s)
    BY <1>1 DEF FilesHold
<1>3. PICK m : m = restore.manager
    OBVIOUS
<1>4. /\ IsManager(m) /\ m.graph = EmptyGraph /\ m.names = << >>
    BY <1>1, <1>2, <1>3 DEF NewManager
<1>5. PICK fs : /\ Loaded = LoadState(m, fs)
                /\ IsFile(fs.combined) /\ \A x \in DOMAIN fs.bySchema : Catalog(fs.bySchema[x])
                /\ fs = files \/ (fs.combined = NoFile /\ fs.bySchema = Nothing)
    <2>1. CASE files.combined = Torn
        <3> DEFINE fs == [files EXCEPT !.combined = NoFile, !.bySchema = Nothing]
        <3>1. Loaded = LoadState(m, fs)
            BY <1>3, <2>1 DEF Loaded
        <3>2. fs.combined = NoFile /\ fs.bySchema = Nothing
            BY TypesHere
        <3>3. IsFile(NoFile) /\ DOMAIN Nothing = {}
            BY DEF IsFile, NoFile, Nothing, Listing, Catalog
        <3> HIDE DEF fs
        <3> QED  BY <3>1, <3>2, <3>3
    <2>2. CASE files.combined # Torn
        BY <1>3, <2>2 DEF Loaded, FilesHold
    <2> QED  BY <2>1, <2>2
<1>6. Catalog(Source(m, fs).tables) /\ Listing(Source(m, fs).names)
    <2>1. CASE fs.combined # NoFile
        BY <1>5, <2>1 DEF Source, IsFile
    <2>2. CASE fs.combined = NoFile
        <3>1. Catalog({}) /\ \A x : Listing(<< x >>)
            BY DEF Catalog, Listing
        <3>2. Catalog(At(fs.bySchema, m.last, {}))
            BY <1>5, <3>1 DEF At
        <3>3. Source(m, fs) = [names |-> << m.last >>, tables |-> At(fs.bySchema, m.last, {}),
                               communities |-> {}]
            BY <2>2 DEF Source
        <3> QED  BY <3>1, <3>2, <3>3
    <2> QED  BY <2>1, <2>2
<1>7. LET n == LoadState(m, fs)
      IN /\ IsManager(n)
         /\ n.graph = LoadGraph(m.graph, Source(m, fs).tables)
         /\ n.names \in {m.names, Source(m, fs).names}
    BY <1>4, Restored
<1>8. Listing(<< >>)
    BY DEF Listing
<1>9. /\ IsManager(Loaded) /\ Listing(Loaded.names)
      /\ Loaded.graph = LoadGraph(EmptyGraph, Source(m, fs).tables)
    BY <1>4, <1>5, <1>6, <1>7, <1>8
<1>10. PICK ts : ts = Source(m, fs).tables
    OBVIOUS
<1>11. Holds(Loaded.graph, ts)
    BY <1>6, <1>9, <1>10, LoadedHolds
<1>12. ts \in {{}, files.combined.tables} \/ \E x \in DOMAIN files.bySchema : ts = files.bySchema[x]
    <2>1. CASE fs.combined # NoFile
        <3>1. ts = fs.combined.tables
            BY <1>10, <2>1 DEF Source
        <3> QED  BY <1>5, <2>1, <3>1
    <2>2. CASE fs.combined = NoFile
        <3>1. ts = At(fs.bySchema, m.last, {})
            BY <1>10, <2>2 DEF Source
        <3>2. DOMAIN Nothing = {}
            BY DEF Nothing
        <3>3. ts = {} \/ \E x \in DOMAIN fs.bySchema : ts = fs.bySchema[x]
            BY <3>1 DEF At
        <3> QED  BY <1>5, <3>2, <3>3
    <2> QED  BY <2>1, <2>2
<1>13. Range(Loaded.graph.tables) = ts
    BY <1>11, HeldTables
<1> QED  BY <1>9, <1>11, <1>12, <1>13, HeldTables

LEMMA EnteredHolds ==
    ASSUME TypeOK, ManagersHold, NEW t \in Tasks, Entered(t)
    PROVE  ManagersHold'
<1>1. PICK s : s = SchemaOf(t)
    OBVIOUS
<1>2. UNCHANGED managers \/ managers' = Append(managers, NewManager(s))
    BY <1>1 DEF Entered
<1>3. CASE UNCHANGED managers
    BY <1>3 DEF ManagersHold, TablesIn
<1>4. CASE managers' = Append(managers, NewManager(s))
    <2>1. PICK m : m = NewManager(s)
        OBVIOUS
    <2>2. IsManager(m) /\ Listing(m.names) /\ Holds(m.graph, Range(m.graph.tables))
        BY <2>1, Made, NewHolds
    <2> QED  BY <1>4, <2>1, <2>2, ManagersGrow
<1> QED  BY <1>2, <1>3, <1>4

LEMMA ManagersStep ==
    ASSUME TypeOK, Lined, ManagersHold, FilesHold, Apart, [Next]_vars
    PROVE  ManagersHold'
<1>1. CASE UNCHANGED managers
    BY <1>1 DEF ManagersHold, TablesIn
<1>2. ASSUME NEW t \in Tasks, ComeToLock(t) \/ Resume(t)
      PROVE  ManagersHold'
    <2>1. UNCHANGED managers \/ Entered(t)
        BY <1>2 DEF ComeToLock, Resume
    <2> QED  BY <1>1, <2>1, EnteredHolds
<1>3. ASSUME NEW t \in Tasks, Publish(t) \/ FailIndexing(t)
      PROVE  ManagersHold'
    <2>1. PICK k : k = task[t].manager
        OBVIOUS
    <2>2. k \in 1..Len(managers)
        BY <1>3, <2>1 DEF Publish, FailIndexing, Apart
    <2> QED  BY <1>3, <2>1, <2>2, PublishedTables, BrokenOff
<1>4. CASE RestoreEnds
    <2>1. CASE UNCHANGED managers
        BY <1>1, <2>1
    <2>2. CASE ~UNCHANGED managers
        <3>1. PICK m : m = Loaded
            OBVIOUS
        <3>2. restore.pc = "loading" /\ managers' = Append(managers, m)
            BY <1>4, <2>2, <3>1 DEF RestoreEnds
        <3> QED  BY <3>1, <3>2, LoadsHold, ManagersGrow
    <2> QED  BY <2>1, <2>2
<1>5. ASSUME NEW t \in Tasks, Work(t)
      PROVE  ManagersHold'
    <2>1. CASE ComeToLock(t) \/ Resume(t)
        BY <1>2, <2>1
    <2>2. CASE Publish(t) \/ FailIndexing(t)
        BY <1>3, <2>2
    <2>3. CASE \/ FailToEnter(t) \/ SaveReads(t) \/ SaveOpens(t) \/ SaveWrites(t) \/ SavesSchema(t)
               \/ SaveEnds(t) \/ SaveFails(t) \/ Finish(t)
        BY <1>1, <2>3 DEF FailToEnter, SaveReads, SaveOpens, SaveWrites, SavesSchema, OpenSchema,
           WriteSchema, SchemaWritten, CopySnapshot, SaveEnds, SaveFails, Finish
    <2> QED  BY <1>5, <2>1, <2>2, <2>3 DEF Work, SavesSchema
<1>6. ASSUME NEW t \in Tasks, NEW r \in Reports, Discover(t, r) \/ Initialize(t, r)
      PROVE  ManagersHold'
    BY <1>1, <1>6 DEF Discover, Initialize
<1>7. CASE Leave \/ Come \/ RestoreBegins \/ Cleanup \/ UNCHANGED vars
    BY <1>1, <1>7 DEF Leave, Come, RestoreBegins, Cleanup, vars
<1> QED  BY <1>4, <1>5, <1>6, <1>7 DEF Next

-----------------------------------------------------------------------------
(* The files.                                                              *)

LEMMA FilesStand ==
    ASSUME TypeOK, FilesHold, Lasting, Len(managers) <= Len(managers'), Len(managers') \in Nat,
           IsFile(files'.combined),
           \A s \in DOMAIN files'.bySchema : Catalog(files'.bySchema[s]),
           restore' # NoRestore => \E s : restore'.manager = NewManager(s),
           \A t \in Tasks : Saving(t)' =>
              /\ ~AtPc(t, "idle") /\ saver'[t].manager \in 1..Len(managers)
              /\ IsFile(saver'[t].captured)
    PROVE  FilesHold'
<1>1. Len(managers) \in Nat
    BY TypesHere
<1>2. \A t \in Tasks : ~AtPc(t, "idle") => ~AtPc(t, "idle")'
    BY DEF Lasting
<1>3. \A t \in Tasks : Saving(t)' =>
              /\ ~AtPc(t, "idle")' /\ saver'[t].manager \in 1..Len(managers')
              /\ IsFile(saver'[t].captured)
    BY <1>1, <1>2
<1> QED  BY <1>3 DEF FilesHold

LEMMA FilesUntouched ==
    ASSUME TypeOK, FilesHold, Lasting, Len(managers) <= Len(managers'), Len(managers') \in Nat,
           UNCHANGED << files, restore >>,
           \A t \in Tasks : Saving(t)' => saver'[t] = saver[t]
    PROVE  FilesHold'
<1>1. \A t \in Tasks : Saving(t)' => Saving(t)
    BY DEF Saving
<1> QED  BY <1>1, FilesStand DEF FilesHold

LEMMA Renamed ==
    ASSUME NEW f, IsFile(f), NEW names, Listing(names)
    PROVE  IsFile([f EXCEPT !.names = names])
BY DEF IsFile

LEMMA NoFileIsOne ==
    IsFile(NoFile) /\ IsFile(Torn) /\ DOMAIN Nothing = {}
<1>1. Listing(<< >>) /\ Catalog({})
    BY DEF Listing, Catalog
<1>2. IsFile(NoFile) /\ DOMAIN Nothing = {}
    BY <1>1 DEF IsFile, NoFile, Nothing
<1>3. PICK n : n = << NoTable >>
    OBVIOUS
<1>4. Listing(n)
    BY <1>3 DEF Listing
<1>5. IsFile([NoFile EXCEPT !.names = n])
    BY <1>2, <1>4, Renamed
<1> QED  BY <1>2, <1>3, <1>5 DEF Torn

LEMMA CapturedIsFile ==
    ASSUME ManagersHold, NEW k \in 1..Len(managers)
    PROVE  IsFile(Captured(managers[k])) /\ Captured(managers[k]).tables = TablesIn(k)
<1>1. Holds(managers[k].graph, TablesIn(k)) /\ Listing(managers[k].names)
    BY DEF ManagersHold
<1> QED  BY <1>1 DEF IsFile, Captured, Holds, TablesIn

LEMMA SavingHolds ==
    ASSUME TypeOK, ManagersHold, FilesHold, Lasting, NEW t \in Tasks,
           SaveReads(t) \/ SaveOpens(t) \/ SaveWrites(t) \/ SavesSchema(t)
    PROVE  FilesHold'
<1> DEFINE c == saver[t].captured
<1>1. Saves(t)
    BY Reading, Opening, Writing, SchemaSaved
<1>2. /\ ~AtPc(t, "idle") /\ saver[t].manager \in 1..Len(managers) /\ IsFile(c)
    BY <1>1 DEF Saves, FilesHold
<1>3. Listing(LiveNames(t))
    BY <1>2 DEF LiveNames, ManagersHold
<1>4. \A u \in Tasks \ {t} : Saving(u)' =>
        /\ ~AtPc(u, "idle") /\ saver'[u].manager \in 1..Len(managers) /\ IsFile(saver'[u].captured)
    BY <1>1 DEF Saves, FilesHold, Saving
<1>5. UNCHANGED << managers, restore >> /\ saver'[t].manager = saver[t].manager
    BY <1>1 DEF Saves
<1>6. Len(managers) \in Nat
    BY TypesHere
<1>7. /\ IsFile(saver'[t].captured) /\ IsFile(files'.combined)
      /\ \A s \in DOMAIN files'.bySchema : Catalog(files'.bySchema[s])
    <2>1. CASE SaveReads(t)
        <3>1. PICK k : k = saver[t].manager
            OBVIOUS
        <3> QED  BY <1>2, <2>1, <3>1, Reading, CapturedIsFile DEF FilesHold
    <2>2. CASE SaveOpens(t)
        BY <1>2, <2>2, Opening, NoFileIsOne DEF FilesHold
    <2>3. CASE SaveWrites(t)
        <3>1. IsFile([c EXCEPT !.names = LiveNames(t)])
            <4>1. PICK n, d : n = LiveNames(t) /\ d = c
                OBVIOUS
            <4>2. IsFile(d) /\ Listing(n)
                BY <1>2, <1>3, <4>1
            <4> QED  BY <4>1, <4>2, Renamed
        <3> QED  BY <1>2, <2>3, <3>1, Writing, NoFileIsOne DEF FilesHold
    <2>4. CASE SavesSchema(t)
        <3>1. files'.combined = files.combined /\ saver'[t].captured = c
            BY <2>4, SchemaSaved
        <3>2. ASSUME NEW s \in DOMAIN files'.bySchema
              PROVE  Catalog(files'.bySchema[s])
            <4>1. CASE s \in DOMAIN files.bySchema /\ files'.bySchema[s] = files.bySchema[s]
                BY <4>1 DEF FilesHold
            <4>2. CASE files'.bySchema[s] = SchemaFile(c, s)
                <5>1. PICK own : own = SchemaFile(c, s)
                    OBVIOUS
                <5>2. Catalog(c.tables)
                    BY <1>2 DEF IsFile
                <5>3. own \subseteq c.tables
                    BY <5>1 DEF SchemaFile
                <5>4. Catalog(own)
                    BY <5>2, <5>3 DEF Catalog
                <5> QED  BY <4>2, <5>1, <5>4
            <4> QED  BY <2>4, <4>1, <4>2, SchemaTexts
        <3> QED  BY <1>2, <3>1, <3>2 DEF FilesHold
    <2> QED  BY <2>1, <2>2, <2>3, <2>4
<1>8. \A u \in Tasks : Saving(u)' =>
        /\ ~AtPc(u, "idle") /\ saver'[u].manager \in 1..Len(managers) /\ IsFile(saver'[u].captured)
    BY <1>2, <1>4, <1>5, <1>7
<1>9. restore' # NoRestore => \E s : restore'.manager = NewManager(s)
    BY <1>5 DEF FilesHold
<1> QED  BY <1>5, <1>6, <1>7, <1>8, <1>9, FilesStand

-----------------------------------------------------------------------------
LEMMA FilesStep ==
    ASSUME TypeOK, TypeOK', Lined, ManagersHold, FilesHold, Lasting, [Next]_vars
    PROVE  FilesHold'
<1>1. Len(managers) \in Nat /\ Len(managers') \in Nat
    BY TypesHere DEF TypeOK, Listing
<1>2. CASE /\ UNCHANGED << files, restore >> /\ Len(managers) <= Len(managers')
           /\ \A t \in Tasks : Saving(t)' => saver'[t] = saver[t]
    BY <1>1, <1>2, FilesUntouched
<1>3. ASSUME NEW t \in Tasks, NEW r \in Reports, Discover(t, r) \/ Initialize(t, r)
      PROVE  FilesHold'
    BY <1>1, <1>2, <1>3 DEF Discover, Initialize
<1>4. ASSUME NEW t \in Tasks, Publish(t)
      PROVE  FilesHold'
    <2>1. PICK l : l = task[t].life
        OBVIOUS
    <2>2. /\ Len(managers') = Len(managers)
          /\ ref[l] = None => UNCHANGED saver
          /\ ref[l] # None => /\ \A u \in Tasks \ {t} : saver'[u] = saver[u]
                              /\ saver'[t].manager = ref[l]
        BY <1>4, <2>1, Publishing
    <2>3. UNCHANGED << files, restore >> /\ ~AtPc(t, "idle")
        BY <1>4 DEF Publish, AtPc
    <2>4. CASE ref[l] = None
        BY <1>1, <1>2, <2>2, <2>3, <2>4
    <2>5. CASE ref[l] # None
        <3>1. l \in Lives /\ ref[l] \in 1..Len(managers)
            <4>1. task[t] \in TaskRecord
                BY <2>3, Running
            <4>2. l \in Lives
                BY <2>1, <4>1 DEF TaskRecord
            <4>3. ref[l] \in Nat /\ ref[l] <= Len(managers)
                BY <4>2, TypesHere
            <4> QED  BY <1>1, <2>5, <4>2, <4>3 DEF None
        <3>2. saver'[t].captured = NoFile
            <4>1. saver' = [saver EXCEPT ![t] =
                     [pc |-> "reading", manager |-> ref[l], captured |-> NoFile, next |-> 1,
                      name |-> NoSchema]]
                BY <1>4, <2>1, <2>5 DEF Publish
            <4>2. saver = [u \in Tasks |-> saver[u]]
                BY TypesHere
            <4> QED  BY <4>1, <4>2
        <3>3. \A u \in Tasks : Saving(u)' =>
                /\ ~AtPc(u, "idle") /\ saver'[u].manager \in 1..Len(managers)
                /\ IsFile(saver'[u].captured)
            <4>1. ASSUME NEW u \in Tasks \ {t}, Saving(u)'
                  PROVE  /\ ~AtPc(u, "idle") /\ saver'[u].manager \in 1..Len(managers)
                         /\ IsFile(saver'[u].captured)
                BY <2>2, <2>5, <4>1 DEF FilesHold, Saving
            <4> QED  BY <2>2, <2>3, <2>5, <3>1, <3>2, <4>1, NoFileIsOne
        <3> QED  BY <1>1, <2>2, <2>3, <3>3, FilesStand DEF FilesHold
    <2> QED  BY <2>4, <2>5
<1>5. ASSUME NEW t \in Tasks, Work(t)
      PROVE  FilesHold'
    <2>1. CASE ComeToLock(t) \/ Resume(t)
        <3>1. UNCHANGED << files, restore, saver >>
            BY <2>1 DEF ComeToLock, Resume
        <3>2. UNCHANGED managers \/ \E s : managers' = Append(managers, NewManager(s))
            BY <2>1 DEF ComeToLock, Resume, Entered
        <3>3. Len(managers) <= Len(managers')
            <4>1. CASE UNCHANGED managers
                BY <1>1, <4>1
            <4>2. ASSUME NEW s, managers' = Append(managers, NewManager(s))
                  PROVE  Len(managers) <= Len(managers')
                <5>1. PICK m : m = NewManager(s) /\ IsManager(m)
                    BY Made
                <5>2. Len(managers') = Len(managers) + 1
                    BY <4>2, <5>1, Growing
                <5> QED  BY <1>1, <5>2
            <4> QED  BY <3>2, <4>1, <4>2
        <3> QED  BY <1>2, <3>1, <3>3
    <2>2. CASE Publish(t)
        BY <1>4, <2>2
    <2>3. CASE FailToEnter(t) \/ FailIndexing(t)
        <3>1. UNCHANGED << files, restore, saver >>
            BY <2>3 DEF FailToEnter, FailIndexing
        <3>2. Len(managers) <= Len(managers')
            BY <2>3, FailingToEnter, FailingToIndex DEF Fails, Grown
        <3> QED  BY <1>2, <3>1, <3>2
    <2>4. CASE SaveReads(t) \/ SaveOpens(t) \/ SaveWrites(t) \/ SavesSchema(t)
        BY <2>4, SavingHolds
    <2>5. CASE SaveEnds(t) \/ SaveFails(t)
        <3>1. /\ saver'[t] = IdleSaver /\ \A u \in Tasks \ {t} : saver'[u] = saver[u]
              /\ UNCHANGED << managers, files, restore >>
            BY <2>5, Stopping DEF Stops
        <3>2. \A u \in Tasks : Saving(u)' => saver'[u] = saver[u]
            BY <3>1 DEF Saving, IdleSaver
        <3> QED  BY <1>1, <1>2, <3>1, <3>2
    <2>6. CASE Finish(t)
        BY <1>1, <1>2, <2>6 DEF Finish
    <2> QED  BY <1>5, <2>1, <2>2, <2>3, <2>4, <2>5, <2>6 DEF Work, SavesSchema
<1>6. CASE Leave \/ Come \/ UNCHANGED vars
    BY <1>1, <1>2, <1>6 DEF Leave, Come, vars
<1>7. CASE RestoreBegins
    <2>1. \E s : restore'.manager = NewManager(s)
        BY <1>7 DEF RestoreBegins
    <2>2. UNCHANGED << managers, files, saver >>
        BY <1>7 DEF RestoreBegins
    <2>3. IsFile(files'.combined) /\ \A s \in DOMAIN files'.bySchema : Catalog(files'.bySchema[s])
        BY <2>2 DEF FilesHold
    <2>4. \A u \in Tasks : Saving(u)' =>
            /\ ~AtPc(u, "idle") /\ saver'[u].manager \in 1..Len(managers)
            /\ IsFile(saver'[u].captured)
        BY <2>2 DEF FilesHold, Saving
    <2> QED  BY <1>1, <2>1, <2>2, <2>3, <2>4, FilesStand
<1>8. CASE RestoreEnds
    <2>1. Len(managers) <= Len(managers') /\ restore' = NoRestore
        BY <1>8, RestoringEnds DEF Grown
    <2>2. UNCHANGED << files, saver >>
        BY <1>8 DEF RestoreEnds
    <2>3. IsFile(files'.combined) /\ \A s \in DOMAIN files'.bySchema : Catalog(files'.bySchema[s])
        BY <2>2 DEF FilesHold
    <2>4. \A u \in Tasks : Saving(u)' =>
            /\ ~AtPc(u, "idle") /\ saver'[u].manager \in 1..Len(managers)
            /\ IsFile(saver'[u].captured)
        BY <2>2 DEF FilesHold, Saving
    <2> QED  BY <1>1, <2>1, <2>3, <2>4, FilesStand
<1>9. CASE Cleanup
    <2>1. files' = [combined |-> NoFile, bySchema |-> Nothing, snapshots |-> Nothing]
        BY <1>9 DEF Cleanup
    <2>2. UNCHANGED << managers, restore, saver >>
        BY <1>9 DEF Cleanup
    <2>3. files'.combined = NoFile /\ files'.bySchema = Nothing
        BY <2>1
    <2>4. IsFile(files'.combined) /\ \A s \in DOMAIN files'.bySchema : Catalog(files'.bySchema[s])
        BY <2>3, NoFileIsOne
    <2>5. \A u \in Tasks : Saving(u)' =>
            /\ ~AtPc(u, "idle") /\ saver'[u].manager \in 1..Len(managers)
            /\ IsFile(saver'[u].captured)
        BY <2>2 DEF FilesHold, Saving
    <2>6. restore' # NoRestore => \E s : restore'.manager = NewManager(s)
        BY <2>2 DEF FilesHold
    <2> QED  BY <1>1, <2>2, <2>4, <2>5, <2>6, FilesStand
<1> QED  BY <1>3, <1>5, <1>6, <1>7, <1>8, <1>9 DEF Next

-----------------------------------------------------------------------------
(* Who has which manager, and which version.                               *)

LEMMA ApartStands ==
    ASSUME TypeOK, Lined, Apart, Len(managers) <= Len(managers'), Len(managers') \in Nat,
           UNCHANGED ref,
           \A t \in Tasks : AtPc(t, "embedding")' =>
              /\ AtPc(t, "embedding") /\ task'[t].manager = task[t].manager
              /\ task'[t].life = task[t].life
    PROVE  Apart'
<1>1. Len(managers) \in Nat
    BY TypesHere
<1>2. ASSUME NEW t \in Tasks, AtPc(t, "embedding")'
      PROVE  /\ task'[t].manager \in 1..Len(managers')
             /\ \A l \in Lives : task'[t].manager = ref'[l] => task'[t].life = l
    BY <1>1, <1>2 DEF Apart
<1> QED  BY <1>2 DEF Apart

(* A runtime gets a manager nobody had.                                    *)
LEMMA ApartGrows ==
    ASSUME TypeOK, Apart, NEW l \in Lives, ref' \in [Lives -> Nat],
           ref'[l] = Len(managers) + 1, Len(managers') = Len(managers) + 1,
           \A j \in Lives : j # l => ref'[j] = ref[j],
           \A t \in Tasks : AtPc(t, "embedding")' =>
              /\ task'[t].life = task[t].life
              /\ \/ AtPc(t, "embedding") /\ task'[t].manager = task[t].manager
                 \/ task[t].life = l /\ task'[t].manager = ref'[l]
    PROVE  Apart'
<1> DEFINE n == Len(managers)
<1>1. n \in Nat /\ \A j \in Lives : ref[j] \in Nat /\ ref[j] <= n
    BY TypesHere
<1>2. ASSUME NEW j \in Lives, NEW i \in Lives, ref'[j] # None, ref'[j] = ref'[i]
      PROVE  j = i
    <2>1. CASE j = l \/ i = l
        BY <1>1, <1>2, <2>1
    <2>2. CASE j # l /\ i # l
        BY <1>2, <2>2 DEF Apart
    <2> QED  BY <2>1, <2>2
<1>3. ASSUME NEW t \in Tasks, AtPc(t, "embedding")'
      PROVE  /\ task'[t].manager \in 1..Len(managers')
             /\ \A j \in Lives : task'[t].manager = ref'[j] => task'[t].life = j
    <2>1. CASE AtPc(t, "embedding") /\ task'[t].manager = task[t].manager
        <3>1. task[t].manager \in 1..n /\ \A j \in Lives : task[t].manager = ref[j] => task[t].life = j
            BY <2>1 DEF Apart
        <3>2. task'[t].manager # ref'[l]
            BY <1>1, <2>1, <3>1
        <3>3. task'[t].manager \in 1..(n + 1)
            BY <1>1, <2>1, <3>1
        <3> QED  BY <1>3, <2>1, <3>1, <3>2, <3>3
    <2>2. CASE task[t].life = l /\ task'[t].manager = ref'[l]
        <3>1. ref'[l] \in 1..(n + 1) /\ \A j \in Lives : j # l => ref'[j] # ref'[l]
            BY <1>1
        <3> QED  BY <1>3, <2>2, <3>1
    <2> QED  BY <1>3, <2>1, <2>2
<1> QED  BY <1>2, <1>3 DEF Apart

LEMMA ApartEnters ==
    ASSUME TypeOK, Lined, Apart, NEW t \in Tasks, ~AtPc(t, "idle"), Entered(t)
    PROVE  Apart'
<1>1. PICK l : l = task[t].life
    OBVIOUS
<1>2. task[t] \in TaskRecord /\ l \in Lives
    BY <1>1, Running DEF TaskRecord
<1>3. /\ Goes(t, "embedding") /\ task'[t].manager = ref'[l]
      /\ ref' \in [Lives -> Nat]
      /\ \A j \in Lives : j # l => ref'[j] = ref[j]
      /\ ref'[l] # None
      /\ ref[l] # None => ref'[l] = ref[l] /\ UNCHANGED managers
    BY ZenonT(60), <1>1, Entering
<1>4. \A u \in Tasks : AtPc(u, "embedding")' =>
        /\ task'[u].life = task[u].life
        /\ \/ AtPc(u, "embedding") /\ task'[u].manager = task[u].manager
           \/ task[u].life = l /\ task'[u].manager = ref'[l]
    BY <1>1, <1>3 DEF Goes, AtPc
<1>5. CASE ref[l] = None
    <2>1. PICK m : m = NewManager(SchemaOf(t)) /\ IsManager(m)
        BY Made
    <2>2. managers' = Append(managers, m) /\ ref' = [ref EXCEPT ![l] = Len(managers')]
        BY <1>1, <1>5, <2>1 DEF Entered
    <2>3. Len(managers') = Len(managers) + 1
        BY <2>1, <2>2, Growing
    <2>4. ref'[l] = Len(managers) + 1
        BY <1>2, <2>2, <2>3, TypesHere
    <2> QED  BY <1>2, <1>3, <1>4, <2>3, <2>4, ApartGrows
<1>6. CASE ref[l] # None
    <2>1. UNCHANGED managers /\ \A j \in Lives : ref'[j] = ref[j]
        BY <1>3, <1>6
    <2>2. ref[l] \in 1..Len(managers)
        <3>1. ref[l] \in Nat /\ ref[l] <= Len(managers) /\ Len(managers) \in Nat
            BY <1>2, TypesHere
        <3> QED  BY <1>6, <3>1 DEF None
    <2>3. ASSUME NEW u \in Tasks, AtPc(u, "embedding")'
          PROVE  /\ task'[u].manager \in 1..Len(managers')
                 /\ \A j \in Lives : task'[u].manager = ref'[j] => task'[u].life = j
        <3>1. CASE AtPc(u, "embedding") /\ task'[u].manager = task[u].manager
            BY <1>4, <2>1, <2>3, <3>1 DEF Apart
        <3>2. CASE task[u].life = l /\ task'[u].manager = ref'[l]
            BY <1>2, <1>4, <1>6, <2>1, <2>2, <2>3, <3>2 DEF Apart
        <3> QED  BY <1>4, <2>3, <3>1, <3>2
    <2>4. \A j, i \in Lives : ref'[j] # None /\ ref'[j] = ref'[i] => j = i
        BY <2>1 DEF Apart
    <2> QED  BY <2>3, <2>4 DEF Apart
<1> QED  BY <1>5, <1>6

LEMMA GoneElsewhere ==
    ASSUME NEW t \in Tasks, NEW pc, Goes(t, pc), pc # "embedding"
    PROVE  \A u \in Tasks : AtPc(u, "embedding")' =>
              /\ AtPc(u, "embedding") /\ task'[u].manager = task[u].manager
              /\ task'[u].life = task[u].life
BY DEF Goes, AtPc

LEMMA ApartStep ==
    ASSUME TypeOK, TypeOK', Lined, Apart, [Next]_vars
    PROVE  Apart'
<1>1. Len(managers) \in Nat /\ Len(managers') \in Nat
    BY TypesHere DEF TypeOK, Listing
<1> DEFINE Keeps == \A t \in Tasks : AtPc(t, "embedding")' =>
              /\ AtPc(t, "embedding") /\ task'[t].manager = task[t].manager
              /\ task'[t].life = task[t].life
<1>2. CASE Keeps /\ UNCHANGED ref /\ Len(managers) <= Len(managers')
    BY <1>1, <1>2, ApartStands
<1>3. CASE UNCHANGED << task, ref, managers >>
    BY <1>1, <1>2, <1>3 DEF AtPc
<1>4. ASSUME NEW t \in Tasks, NEW r \in Reports, Discover(t, r) \/ Initialize(t, r)
      PROVE  Apart'
    <2>1. Keeps /\ UNCHANGED << ref, managers >>
        BY <1>4, Starting DEF Starts, AtPc
    <2> QED  BY <1>1, <1>2, <2>1
<1>5. ASSUME NEW t \in Tasks, Work(t)
      PROVE  Apart'
    <2>1. CASE ComeToLock(t) \/ Resume(t)
        <3>1. CASE Entered(t)
            BY <2>1, <3>1, ApartEnters DEF ComeToLock, Resume, AtPc
        <3>2. CASE ~Entered(t)
            <4>1. Goes(t, "waiting") /\ UNCHANGED << managers, ref >>
                BY <2>1, <3>2, Coming DEF Comes, Resume
            <4>2. Keeps
                BY <4>1, GoneElsewhere
            <4> QED  BY <1>1, <1>2, <4>1, <4>2
        <3> QED  BY <3>1, <3>2
    <2>2. CASE Publish(t)
        <3>1. Goes(t, "failed") \/ Goes(t, "saving")
            BY <2>2, Publishing
        <3>2. UNCHANGED ref /\ Len(managers') = Len(managers)
            BY <2>2, Publishing DEF Publish
        <3>3. Keeps
            BY <3>1, GoneElsewhere
        <3> QED  BY <1>1, <1>2, <3>2, <3>3
    <2>3. CASE FailToEnter(t) \/ FailIndexing(t)
        <3>1. Goes(t, "failed") /\ UNCHANGED ref /\ Len(managers) <= Len(managers')
            BY <2>3, FailingToEnter, FailingToIndex DEF Fails, Grown
        <3>2. Keeps
            BY <3>1, GoneElsewhere
        <3> QED  BY <1>2, <3>1, <3>2
    <2>4. CASE SaveReads(t) \/ SaveOpens(t) \/ SaveWrites(t) \/ SavesSchema(t)
        BY <1>3, <2>4 DEF SaveReads, SaveOpens, SaveWrites, SavesSchema,
           OpenSchema, WriteSchema, SchemaWritten, CopySnapshot
    <2>5. CASE SaveEnds(t) \/ SaveFails(t)
        <3>1. UNCHANGED << ref, managers >>
            BY <2>5, Stopping DEF Stops
        <3>2. Goes(t, "saved") \/ Goes(t, "failed") \/ UNCHANGED task
            BY <2>5, Ending, FailingToSave DEF Fails
        <3>3. CASE UNCHANGED task
            BY <1>3, <3>1, <3>3
        <3>4. CASE Goes(t, "saved") \/ Goes(t, "failed")
            <4>1. Keeps
                BY <3>4, GoneElsewhere
            <4> QED  BY <1>1, <1>2, <3>1, <4>1
        <3> QED  BY <3>2, <3>3, <3>4
    <2>6. CASE Finish(t)
        <3>1. Goes(t, "failed") \/ Goes(t, "done")
            BY <2>6, Finishing DEF Fails
        <3>2. UNCHANGED << ref, managers >>
            BY <2>6 DEF Finish
        <3>3. Keeps
            BY <3>1, GoneElsewhere
        <3> QED  BY <1>1, <1>2, <3>2, <3>3
    <2> QED  BY <1>5, <2>1, <2>2, <2>3, <2>4, <2>5, <2>6 DEF Work, SavesSchema
<1>6. CASE Leave
    <2>1. UNCHANGED << ref, managers >>
        BY <1>6 DEF Leave
    <2>2. Keeps
        BY <1>6, Leaving DEF AtPc
    <2> QED  BY <1>1, <1>2, <2>1, <2>2
<1>7. CASE Come \/ RestoreBegins \/ UNCHANGED vars
    BY <1>3, <1>7 DEF Come, RestoreBegins, vars
<1>8. CASE RestoreEnds
    <2>1. CASE UNCHANGED << managers, ref >>
        BY <1>3, <1>8, <2>1 DEF RestoreEnds
    <2>2. CASE ~UNCHANGED << managers, ref >>
        <3>1. PICK l, m : l = restore.life /\ m = Loaded
            OBVIOUS
        <3>2. restore.pc = "loading" /\ managers' = Append(managers, m)
              /\ ref' = [ref EXCEPT ![l] = Len(managers')] /\ UNCHANGED task
            BY <1>8, <2>2, <3>1 DEF RestoreEnds
        <3>3. l \in Lives
            BY <3>1, <3>2, TypesHere DEF NoRestore, IsRestore
        <3>4. Len(managers') = Len(managers) + 1
            BY <3>2, TypesHere, Appending DEF TypeOK
        <3>5. /\ ref' \in [Lives -> Nat] /\ ref'[l] = Len(managers) + 1
              /\ \A j \in Lives : j # l => ref'[j] = ref[j]
            BY <1>1, <3>2, <3>3, <3>4, TypesHere
        <3>6. \A t \in Tasks : AtPc(t, "embedding")' =>
              /\ task'[t].life = task[t].life
              /\ AtPc(t, "embedding") /\ task'[t].manager = task[t].manager
            BY <3>2 DEF AtPc
        <3> QED  BY <3>3, <3>4, <3>5, <3>6, ApartGrows
    <2> QED  BY <2>1, <2>2
<1>9. CASE Cleanup
    <2>1. /\ ref' = [ref EXCEPT ![life] = None] /\ UNCHANGED << managers, task >>
        BY <1>9 DEF Cleanup
    <2>2. \A l \in Lives : ref'[l] = IF l = life THEN None ELSE ref[l]
        BY <2>1, TypesHere
    <2>3. None \notin 1..Len(managers)
        BY <1>1 DEF None
    <2>4. ASSUME NEW t \in Tasks, AtPc(t, "embedding")
          PROVE  /\ task[t].manager \in 1..Len(managers)
                 /\ \A l \in Lives : task[t].manager = ref'[l] => task[t].life = l
        BY <2>2, <2>3, <2>4 DEF Apart
    <2>5. \A l, j \in Lives : ref'[l] # None /\ ref'[l] = ref'[j] => l = j
        BY <2>2 DEF Apart
    <2> QED  BY <2>1, <2>4, <2>5 DEF Apart, AtPc
<1> QED  BY <1>4, <1>5, <1>6, <1>7, <1>8, <1>9 DEF Next

LEMMA VersionedStep ==
    ASSUME TypeOK, TypeOK', Lined, Lasting, Versioned, [Next]_vars
    PROVE  Versioned'
<1> SUFFICES ASSUME NEW u \in Tasks, ~AtPc(u, "idle")'
             PROVE  task'[u].version <= versions'[SchemaOf(u)']
    BY DEF Versioned
<1>1. CASE ~AtPc(u, "idle")
    <2>1. task'[u].version = task[u].version /\ SchemaOf(u)' = SchemaOf(u)
        BY <1>1 DEF Lasting, SchemaOf
    <2>2. task[u] \in TaskRecord
        BY <1>1, Running
    <2>3. SchemaOf(u) \in Schemas /\ task[u].version \in Nat
        BY <2>2 DEF TaskRecord, SchemaOf, Schemas
    <2>4. PICK s \in Schemas : s = SchemaOf(u)
        BY <2>3
    <2>5. task[u].version <= versions[s] /\ versions[s] <= versions'[s] /\ versions[s] \in Nat
          /\ versions'[s] \in Nat
        BY <1>1, <2>4 DEF Versioned, Lasting
    <2> QED  BY <2>1, <2>3, <2>4, <2>5
<1>2. CASE AtPc(u, "idle")
    <2>1. ASSUME NEW t \in Tasks, NEW r \in Reports, Discover(t, r) \/ Initialize(t, r)
          PROVE  task'[u].version <= versions'[SchemaOf(u)']
        <3>1. t = u
            BY <1>2, <2>1, Starting DEF Starts, AtPc
        <3>2. \E k \in Nat : \E kind : Started(u, r, kind, k) /\ k <= versions'[r.schema]
            <4>1. r.schema \in Schemas /\ versions \in [Schemas -> Nat]
                BY TypesHere DEF Schemas
            <4>2. CASE Discover(t, r)
                BY <3>1, <4>1, <4>2 DEF Discover
            <4>3. CASE Initialize(t, r)
                BY <3>1, <4>1, <4>3 DEF Initialize
            <4> QED  BY <2>1, <4>2, <4>3
        <3>3. PICK k, kind : Started(u, r, kind, k) /\ k <= versions'[r.schema]
            BY ONLY <3>2
        <3>4. task'[u] = [pc |-> "preparing", kind |-> kind, life |-> life,
                          report |-> r, version |-> k, accumulate |-> FALSE, manager |-> None]
            BY <3>3, TypesHere DEF Started
        <3> QED  BY <3>3, <3>4 DEF SchemaOf
    <2>2. ASSUME NEW t \in Tasks, Work(t)
          PROVE  AtPc(u, "idle")'
        BY <1>2, <2>2, Working DEF Goes, AtPc
    <2>3. CASE Leave
        BY <1>2, <2>3, Leaving DEF AtPc, Cancelled, Ended
    <2>4. CASE Come \/ RestoreBegins \/ RestoreEnds \/ Cleanup \/ UNCHANGED vars
        BY <1>2, <2>4 DEF Come, RestoreBegins, RestoreEnds, Cleanup, vars, AtPc
    <2> QED  BY <2>1, <2>2, <2>3, <2>4 DEF Next
<1> QED  BY <1>1, <1>2

-----------------------------------------------------------------------------
(* What a schema has in the index stays with it.                           *)

Retained(k) == \A s : Has(k, s) => Has(k, s)'

LEMMA SameRetained ==
    ASSUME Lasting, NEW k, managers'[k] = managers[k]
    PROVE  Retained(k)
<1> SUFFICES ASSUME NEW s, Has(k, s)
             PROVE  Has(k, s)'
    BY DEF Retained
<1>1. PICK ts : ts = OwnTables(TablesIn(k), s) /\ OneReport(s, ts)
    BY DEF Has
<1>2. OneReport(s, ts)'
    BY <1>1, StillOne
<1>3. OwnTables(TablesIn(k), s)' = ts
    BY <1>1 DEF TablesIn, OwnTables
<1> QED  BY <1>2, <1>3 DEF Has

(* One report less what a later one that broke off had not.                *)
LEMMA LeftOver ==
    ASSUME NEW t \in Tasks, AtPc(t, "failed")', NEW s, SchemaOf(t)' = s, NEW ts, NEW us,
           OneReport(s, ts)', us = {x \in ts : Identity(x) \in Ids(task'[t].report.tables)}
    PROVE  OneReport(s, us)'
<1>1. PICK r \in Reports :
        /\ r.schema = s /\ ts \subseteq r.tables
        /\ \A x \in r.tables \ ts : \E u \in Tasks :
             /\ AtPc(u, "failed")' /\ SchemaOf(u)' = s
             /\ Identity(x) \notin {Identity(y) : y \in task'[u].report.tables}
    BY DEF OneReport
<1>2. ASSUME NEW x \in r.tables \ us
      PROVE  \E u \in Tasks :
               /\ AtPc(u, "failed")' /\ SchemaOf(u)' = s
               /\ Identity(x) \notin {Identity(y) : y \in task'[u].report.tables}
    <2>1. CASE x \in ts
        <3>1. Identity(x) \notin Ids(task'[t].report.tables)
            BY <1>2, <2>1
        <3> QED  BY <3>1 DEF Ids
    <2>2. CASE x \notin ts
        BY <1>1, <1>2, <2>2
    <2> QED  BY <2>1, <2>2
<1>3. us \subseteq r.tables
    BY <1>1
<1> QED  BY <1>1, <1>2, <1>3 DEF OneReport

(* A publication that breaks off has taken away what its report has not.   *)
LEMMA BrokenOffRetained ==
    ASSUME TypeOK, Lined, ManagersHold, Apart, Lasting, NEW t \in Tasks, FailIndexing(t),
           NEW k \in 1..Len(managers)
    PROVE  Retained(k)
<1>1. AtPc(t, "embedding") /\ ~AtPc(t, "idle") /\ task[t].manager \in 1..Len(managers)
    BY DEF FailIndexing, AtPc, Apart
<1>2. AtPc(t, "failed")' /\ task'[t].report = task[t].report
    BY FailingToIndex DEF Fails, Goes, AtPc
<1>3. PICK j : j = task[t].manager
    OBVIOUS
<1>4. /\ \A i \in 1..Len(managers) : i # j => managers'[i] = managers[i]
      /\ managers'[j].names = managers[j].names
      /\ \A s : s # SchemaOf(t) => OwnTables(TablesIn(j)', s) = OwnTables(TablesIn(j), s)
      /\ OwnTables(TablesIn(j)', SchemaOf(t)) \in
           {OwnTables(TablesIn(j), SchemaOf(t)),
            {x \in OwnTables(TablesIn(j), SchemaOf(t)) : Identity(x) \in Ids(task[t].report.tables)}}
    BY <1>1, <1>3, BrokenOff
<1>5. CASE k # j
    BY <1>4, <1>5, SameRetained
<1>6. CASE k = j
    <2> SUFFICES ASSUME NEW s, Has(k, s)
                 PROVE  Has(k, s)'
        BY DEF Retained
    <2>1. PICK ts : ts = OwnTables(TablesIn(k), s) /\ OneReport(s, ts)
        BY DEF Has
    <2>2. PICK us : us = OwnTables(TablesIn(k)', s)
        OBVIOUS
    <2>3. OneReport(s, ts)'
        BY <2>1, StillOne
    <2>4. OneReport(s, us)'
        <3>1. CASE us = ts
            BY <2>3, <3>1
        <3>2. CASE us # ts
            <4>1. s = SchemaOf(t) /\ us = {x \in ts : Identity(x) \in Ids(task[t].report.tables)}
                BY <1>4, <1>6, <2>1, <2>2, <3>2
            <4>2. SchemaOf(t)' = s /\ us = {x \in ts : Identity(x) \in Ids(task'[t].report.tables)}
                BY <1>2, <4>1 DEF SchemaOf
            <4> QED  BY <1>2, <2>3, <4>2, LeftOver
        <3> QED  BY <3>1, <3>2
    <2>5. OwnTables(TablesIn(k), s)' = us
        BY <2>2 DEF OwnTables
    <2>6. s \in Range(managers'[k].names)
        BY <1>4, <1>6 DEF Has
    <2> QED  BY <2>4, <2>5, <2>6 DEF Has
<1> QED  BY <1>5, <1>6

(* A task is whole when the manager its session refers to has its schema.  *)
LEMMA WholeNext ==
    ASSUME NEW u, NEW k, NEW s, k = ref'[task'[u].life], s = SchemaOf(u)',
           k # None, Has(k, s)'
    PROVE  Whole(u)'
<1>1. s = task'[u].report.schema
    BY DEF SchemaOf
<1>2. PICK tables : tables = OwnTables(TablesIn(k)', s)
    OBVIOUS
<1>3. OneReport(s, tables)' /\ s \in Range(managers'[k].names)
    BY Zenon, <1>2 DEF Has, OneReport, OwnTables, TablesIn
<1>4. tables = OwnTables(TablesIn(ref[task[u].life]), SchemaOf(u))'
    BY Zenon, <1>1, <1>2 DEF OwnTables, TablesIn, SchemaOf
<1>5. OneReport(SchemaOf(u), OwnTables(TablesIn(ref[task[u].life]), SchemaOf(u)))'
    BY Zenon, <1>1, <1>3, <1>4 DEF OneReport, OwnTables, TablesIn, SchemaOf
<1> QED  BY Zenon, <1>1, <1>3, <1>5 DEF Whole, Has, SchemaOf

(* What a publication leaves to the others, and to its own schema.         *)
LEMMA PublishedHas ==
    ASSUME TypeOK, Lined, ManagersHold, Apart, Lasting, NEW t \in Tasks, Publish(t),
           NEW k \in 1..Len(managers)
    PROVE  /\ k = task[t].manager => Has(k, SchemaOf(t))'
           /\ k # task[t].manager \/ task[t].accumulate => Retained(k)
<1>1. AtPc(t, "embedding") /\ ~AtPc(t, "idle") /\ task[t].manager \in 1..Len(managers)
    BY DEF Publish, AtPc, Apart
<1>2. PICK j : j = task[t].manager /\ j \in 1..Len(managers)
    BY <1>1
<1>3. /\ \A i \in 1..Len(managers) : i # j => managers'[i] = managers[i]
      /\ SchemaOf(t) \in Range(managers'[j].names)
      /\ Range(managers[j].names) \subseteq Range(managers'[j].names)
      /\ OwnTables(TablesIn(j)', SchemaOf(t)) = task[t].report.tables
      /\ task[t].accumulate => \A s : s # SchemaOf(t) =>
           OwnTables(TablesIn(j)', s) = OwnTables(TablesIn(j), s)
    <2>1. \A i \in 1..Len(managers) : i # j => managers'[i] = managers[i]
        BY <1>2, PublishedTables
    <2>2. SchemaOf(t) \in Range(managers'[j].names)
        BY <1>2, PublishedTables
    <2>3. Range(managers[j].names) \subseteq Range(managers'[j].names)
        BY <1>2, PublishedTables
    <2>4. OwnTables(TablesIn(j)', SchemaOf(t)) = task[t].report.tables
        BY <1>2, PublishedTables
    <2>5. task[t].accumulate => \A s : s # SchemaOf(t) =>
           OwnTables(TablesIn(j)', s) = OwnTables(TablesIn(j), s)
        BY <1>2, PublishedTables
    <2> QED  BY <2>1, <2>2, <2>3, <2>4, <2>5
<1>4. CASE k # j
    BY <1>2, <1>3, <1>4, SameRetained
<1>5. CASE k = j
    <2>1. PICK r \in Reports : r = task[t].report
        BY <1>1, Running DEF TaskRecord
    <2>2. SchemaOf(t) = r.schema /\ task'[t].report = r
        BY <1>1, <2>1 DEF SchemaOf, Lasting
    <2>3. OneReport(r.schema, r.tables)'
        BY DEF OneReport
    <2>4. OwnTables(TablesIn(k), r.schema)' = r.tables
        BY <1>3, <1>5, <2>1, <2>2 DEF OwnTables
    <2>5. Has(k, r.schema)'
        BY <1>3, <1>5, <2>2, <2>3, <2>4 DEF Has
    <2>6. ASSUME task[t].accumulate, NEW s, Has(k, s)
          PROVE  Has(k, s)'
        <3>1. CASE s = r.schema
            BY <2>5, <3>1
        <3>2. CASE s # r.schema
            <4>1. PICK ts : ts = OwnTables(TablesIn(k), s) /\ OneReport(s, ts)
                BY <2>6 DEF Has
            <4>2. OneReport(s, ts)'
                BY <4>1, StillOne
            <4>3. OwnTables(TablesIn(k), s)' = ts
                BY <1>3, <1>5, <2>2, <2>6, <3>2, <4>1 DEF OwnTables
            <4>4. s \in Range(managers'[k].names)
                BY <1>3, <1>5, <2>6 DEF Has
            <4> QED  BY <4>2, <4>3, <4>4 DEF Has
        <3> QED  BY <3>1, <3>2
    <2>7. Has(k, SchemaOf(t))'
        BY <2>2, <2>5 DEF SchemaOf
    <2> QED  BY <1>2, <1>5, <2>6, <2>7 DEF Retained
<1> QED  BY <1>2, <1>4, <1>5

LEMMA RetainedStep ==
    ASSUME TypeOK, TypeOK', Lined, ManagersHold, Apart, Lasting, [Next]_vars,
           \A t \in Tasks : ~Publish(t)
    PROVE  \A k \in 1..Len(managers) : Retained(k)
<1> SUFFICES ASSUME NEW k \in 1..Len(managers)
             PROVE  Retained(k)
    OBVIOUS
<1>1. CASE managers'[k] = managers[k]
    BY <1>1, SameRetained
<1>2. ASSUME NEW t \in Tasks, Work(t)
      PROVE  Retained(k)
    <2>1. CASE ComeToLock(t) \/ Resume(t)
        <3>1. UNCHANGED managers \/ (~AtPc(t, "idle") /\ Entered(t))
            BY <2>1 DEF ComeToLock, Resume, AtPc
        <3>2. managers'[k] = managers[k]
            <4>1. PICK l : l = task[t].life
                OBVIOUS
            <4> QED  BY <3>1, <4>1, Entering
        <3> QED  BY <1>1, <3>2
    <2>2. CASE FailIndexing(t)
        BY <2>2, BrokenOffRetained
    <2>3. CASE \/ FailToEnter(t) \/ SaveReads(t) \/ SaveOpens(t) \/ SaveWrites(t) \/ SavesSchema(t)
               \/ SaveEnds(t) \/ SaveFails(t) \/ Finish(t)
        BY <1>1, <2>3 DEF FailToEnter, SaveReads, SaveOpens, SaveWrites, SavesSchema, OpenSchema,
           WriteSchema, SchemaWritten, CopySnapshot, SaveEnds, SaveFails, Finish
    <2> QED  BY <1>2, <2>1, <2>2, <2>3 DEF Work, SavesSchema
<1>3. ASSUME NEW t \in Tasks, NEW r \in Reports, Discover(t, r) \/ Initialize(t, r)
      PROVE  Retained(k)
    BY <1>1, <1>3 DEF Discover, Initialize
<1>4. CASE Leave \/ Come \/ RestoreBegins \/ Cleanup \/ UNCHANGED vars
    BY <1>1, <1>4 DEF Leave, Come, RestoreBegins, Cleanup, vars
<1>5. CASE RestoreEnds
    <2>1. CASE UNCHANGED managers
        BY <1>1, <2>1
    <2>2. CASE ~UNCHANGED managers
        <3>1. PICK m : m = Loaded
            OBVIOUS
        <3>2. managers' = Append(managers, m)
            BY <1>5, <2>2, <3>1 DEF RestoreEnds
        <3>3. managers'[k] = managers[k]
            BY <3>2, Appending DEF TypeOK
        <3> QED  BY <1>1, <3>3
    <2> QED  BY <2>1, <2>2
<1> QED  BY <1>2, <1>3, <1>4, <1>5 DEF Next

-----------------------------------------------------------------------------
(* Who is through stays in the index.                                      *)

LEMMA IndexingsStay ==
    ASSUME TypeOK, TypeOK', Lasting, Indexings,
           \A t \in Tasks : AtPc(t, "idle") => ~Through(t)' /\ ~Saving(t)' /\ ~Builds(t)',
           \A t \in Tasks : ~AtPc(t, "idle") =>
              /\ Through(t)' => Through(t)
              /\ Builds(t)' => Builds(t) \/ ref[task[t].life] = None
              /\ Saving(t)' /\ task[t].life \notin disturbed' =>
                   Saving(t) /\ (Reads(t) /\ Whole(t) => Reads(t)'),
           \A l \in Lives \ disturbed' : ref[l] # None => ref'[l] = ref[l],
           \A k \in 1..Len(managers) : Retained(k)
    PROVE  Indexings'
<1> SUFFICES ASSUME NEW t \in Tasks, ~AtPc(t, "idle")', task'[t].life \notin disturbed'
             PROVE  /\ Through(t)' => Whole(t)'
                    /\ Saving(t)' => Reads(t)'
                    /\ Builds(t)' => \A u \in Tasks :
                         ~AtPc(u, "idle")' /\ task'[u].life = task'[t].life => ~Through(u)'
    BY DEF Indexings
<1>1. CASE AtPc(t, "idle")
    BY <1>1
<1>2. CASE ~AtPc(t, "idle")
    <2>1. PICK l : l = task[t].life
        OBVIOUS
    <2>2. /\ l \in Lives /\ l \notin disturbed' /\ l \notin disturbed
          /\ task'[t].life = l /\ SchemaOf(t)' = SchemaOf(t)
        <3>1. task[t] \in TaskRecord
            BY <1>2, Running
        <3> QED  BY <1>2, <2>1, <3>1 DEF TaskRecord, Lasting, SchemaOf
    <2>3. ASSUME Through(t)'
          PROVE  Whole(t) /\ Whole(t)'
        <3>1. Whole(t)
            BY <1>2, <2>1, <2>2, <2>3 DEF Indexings
        <3>2. PICK k : k = ref[l]
            OBVIOUS
        <3>3. k # None /\ Has(k, SchemaOf(t)) /\ ref'[l] = k
            BY <2>1, <2>2, <3>1, <3>2 DEF Whole
        <3>4. k \in 1..Len(managers)
            <4>1. ref[l] \in Nat /\ ref[l] <= Len(managers) /\ Len(managers) \in Nat
                BY <2>2, TypesHere
            <4> QED  BY <3>2, <3>3, <4>1 DEF None
        <3>5. PICK s : s = SchemaOf(t)
            OBVIOUS
        <3>6. Has(k, s)'
            BY <3>3, <3>4, <3>5 DEF Retained
        <3>7. Whole(t)'
            BY <2>2, <3>3, <3>5, <3>6, WholeNext
        <3> QED  BY <3>1, <3>7
    <2>4. ASSUME Saving(t)'
          PROVE  Reads(t)'
        <3>1. Through(t)'
            BY <2>4 DEF Through
        <3>2. Saving(t) /\ Reads(t) /\ Whole(t)
            BY <1>2, <2>1, <2>2, <2>3, <2>4, <3>1 DEF Indexings
        <3> QED  BY <1>2, <2>1, <2>2, <2>4, <3>2
    <2>5. ASSUME Builds(t)', NEW u \in Tasks, ~AtPc(u, "idle")', task'[u].life = l
          PROVE  ~Through(u)'
        <3>1. CASE AtPc(u, "idle")
            BY <3>1
        <3>2. CASE ~AtPc(u, "idle")
            <4>1. task[u].life = l
                BY <2>5, <3>2 DEF Lasting
            <4>2. CASE Builds(t)
                BY <1>2, <2>1, <2>2, <3>2, <4>1, <4>2 DEF Indexings
            <4>3. CASE ref[l] = None
                BY <2>2, <3>2, <4>1, <4>3 DEF Indexings, Whole
            <4> QED  BY <1>2, <2>1, <2>5, <4>2, <4>3
        <3> QED  BY <3>1, <3>2
    <2> QED  BY <2>2, <2>3, <2>4, <2>5
<1> QED  BY <1>1, <1>2

-----------------------------------------------------------------------------
(* Steps that leave the savers alone.                                      *)
LEMMA SaversStand ==
    ASSUME TypeOK, TypeOK', Lasting, FilesHold, Indexings, UNCHANGED saver,
           \A u \in Tasks :
              \/ task'[u] = task[u]
              \/ task'[u].pc \in {"preparing", "waiting", "failed"}
              \/ /\ ~AtPc(u, "idle") /\ task'[u].pc = "embedding"
                 /\ task'[u].accumulate \/ ref[task[u].life] = None
              \/ AtPc(u, "saved") /\ task'[u].pc = "done",
           \A l \in Lives \ disturbed' : ref[l] # None => ref'[l] = ref[l],
           \A k \in 1..Len(managers) : Retained(k)
    PROVE  Indexings'
<1>1. \A u \in Tasks : Saving(u)' <=> Saving(u)
    BY DEF Saving
<1>2. \A u \in Tasks : AtPc(u, "idle") => ~Through(u)' /\ ~Saving(u)' /\ ~Builds(u)'
    <2> SUFFICES ASSUME NEW u \in Tasks, AtPc(u, "idle")
                 PROVE  ~Through(u)' /\ ~Saving(u)' /\ ~Builds(u)'
        OBVIOUS
    <2>1. ~Saving(u)'
        BY <1>1 DEF FilesHold
    <2>2. task'[u].pc \in {"idle", "preparing", "waiting", "failed"}
        BY DEF AtPc
    <2> QED  BY <2>1, <2>2 DEF Through, Builds, AtPc, Saving
<1>3. ASSUME NEW u \in Tasks, ~AtPc(u, "idle")
      PROVE  /\ Through(u)' => Through(u)
             /\ Builds(u)' => Builds(u) \/ ref[task[u].life] = None
    <2>1. Through(u)' => Through(u)
        BY <1>1, <1>3 DEF Through, AtPc, Saving
    <2>2. Builds(u)' => Builds(u) \/ ref[task[u].life] = None
        BY <1>3 DEF Builds, AtPc
    <2> QED  BY <2>1, <2>2
<1>4. ASSUME NEW u \in Tasks, ~AtPc(u, "idle"), Saving(u), task[u].life \notin disturbed',
             Reads(u), Whole(u)
      PROVE  Reads(u)'
    <2>1. PICK l \in Lives : l = task[u].life
        BY <1>4, Running DEF TaskRecord
    <2>2. ref'[l] = ref[l] /\ task'[u].life = l /\ SchemaOf(u)' = SchemaOf(u)
        BY <1>4, <2>1 DEF Whole, Lasting, SchemaOf
    <2>3. PICK s, ts : s = SchemaOf(u) /\ ts = OwnTables(saver[u].captured.tables, s)
        OBVIOUS
    <2>4. saver[u].pc # "reading" => OneReport(s, ts)
        BY <1>4, <2>3 DEF Reads
    <2>5. saver[u].pc # "reading" => OneReport(s, ts)'
        BY <2>4, StillOne
    <2>6. saver[u].manager = ref[l]
        BY <1>4, <2>1 DEF Reads
    <2>7. OwnTables(saver'[u].captured.tables, s) = ts /\ saver'[u] = saver[u]
        BY <2>3
    <2> QED  BY <2>2, <2>3, <2>5, <2>6, <2>7 DEF Reads, OneReport
<1> QED  BY <1>1, <1>2, <1>3, <1>4, IndexingsStay

(* Steps of a saver: it reads the manager, or goes on with what it read.   *)
LEMMA SaversMove ==
    ASSUME TypeOK, TypeOK', Lasting, FilesHold, Indexings,
           UNCHANGED << ref, managers, disturbed >>,
           \A u \in Tasks :
              \/ task'[u] = task[u]
              \/ AtPc(u, "saving") /\ task'[u].pc \in {"saved", "failed"},
           \A u \in Tasks : Saving(u)' =>
              /\ Saving(u) /\ saver'[u].manager = saver[u].manager
              /\ \/ saver'[u].captured = Captured(managers[saver[u].manager])
                 \/ /\ saver'[u].captured = saver[u].captured
                    /\ saver'[u].pc # "reading" => saver[u].pc # "reading"
    PROVE  Indexings'
<1>1. \A u \in Tasks : AtPc(u, "idle") => ~Through(u)' /\ ~Saving(u)' /\ ~Builds(u)'
    <2> SUFFICES ASSUME NEW u \in Tasks, AtPc(u, "idle")
                 PROVE  ~Through(u)' /\ ~Saving(u)' /\ ~Builds(u)'
        OBVIOUS
    <2>1. ~Saving(u)'
        BY DEF FilesHold
    <2>2. task'[u].pc = "idle"
        BY DEF AtPc
    <2> QED  BY <2>1, <2>2 DEF Through, Builds, AtPc, Saving
<1>2. ASSUME NEW u \in Tasks, ~AtPc(u, "idle")
      PROVE  /\ Through(u)' => Through(u)
             /\ Builds(u)' => Builds(u)
    <2>1. Saving(u)' => Saving(u)
        OBVIOUS
    <2>2. Through(u)' => Through(u)
        BY <2>1 DEF Through, AtPc, Saving
    <2>3. Builds(u)' => Builds(u)
        BY DEF Builds, AtPc
    <2> QED  BY <2>2, <2>3
<1>3. ASSUME NEW u \in Tasks, ~AtPc(u, "idle"), Saving(u)', Reads(u), Whole(u)
      PROVE  Reads(u)'
    <2>1. PICK l : l = task[u].life
        OBVIOUS
    <2>2. ref'[l] = ref[l] /\ task'[u].life = l /\ SchemaOf(u)' = SchemaOf(u)
        BY <1>3, <2>1 DEF Lasting, SchemaOf
    <2>3. PICK k, s : k = ref[l] /\ s = SchemaOf(u)
        OBVIOUS
    <2>4. saver'[u].manager = k /\ saver[u].manager = k
        BY <1>3, <2>1, <2>3 DEF Reads
    <2>5. PICK ts : ts = OwnTables(saver'[u].captured.tables, s)
        OBVIOUS
    <2>6. saver'[u].pc # "reading" => OneReport(s, ts)
        <3>1. CASE saver'[u].captured = Captured(managers[saver[u].manager])
            <4>1. saver'[u].captured.tables = TablesIn(k)
                BY <2>4, <3>1 DEF Captured, TablesIn
            <4>2. OneReport(s, OwnTables(TablesIn(k), s))
                BY <1>3, <2>1, <2>3 DEF Whole, Has
            <4> QED  BY <2>5, <4>1, <4>2
        <3>2. CASE /\ saver'[u].captured = saver[u].captured
                   /\ saver'[u].pc # "reading" => saver[u].pc # "reading"
            BY <1>3, <2>3, <2>5, <3>2 DEF Reads
        <3> QED  BY <1>3, <3>1, <3>2
    <2>7. saver'[u].pc # "reading" => OneReport(s, ts)'
        BY <2>6, StillOne
    <2> QED  BY <2>2, <2>3, <2>4, <2>5, <2>7 DEF Reads, OneReport
<1>4. \A k \in 1..Len(managers) : Retained(k)
    BY SameRetained
<1> QED  BY <1>1, <1>2, <1>3, <1>4, IndexingsStay

(* A publication.  Nobody else of its runtime embeds; whoever is through   *)
(* there has its schema kept, since the first to embed was alone.          *)
LEMMA IndexingsPublish ==
    ASSUME TypeOK, TypeOK', Lined, Backed, ManagersHold, FilesHold, Apart, Indexings, Lasting,
           NEW t \in Tasks, Publish(t)
    PROVE  Indexings'
<1>1. PICK l, j : l = task[t].life /\ j = task[t].manager
    OBVIOUS
<1>2. /\ AtPc(t, "embedding") /\ ~AtPc(t, "idle")
      /\ l \in Lives /\ UNCHANGED << ref, disturbed >>
    BY <1>1, Running DEF Publish, AtPc, TaskRecord
<1>3. /\ ref[l] = None => Goes(t, "failed") /\ UNCHANGED saver
      /\ ref[l] # None =>
           /\ Goes(t, "saving")
           /\ \A u \in Tasks \ {t} : saver'[u] = saver[u]
           /\ saver'[t].pc = "reading" /\ saver'[t].manager = ref[l]
      /\ Len(managers') = Len(managers)
    BY <1>1, Publishing
<1>4. \A u \in Tasks \ {t} : task'[u] = task[u] /\ saver'[u] = saver[u]
    BY <1>3 DEF Goes
<1>5. \A k \in 1..Len(managers) :
        /\ k = j => Has(k, SchemaOf(t))'
        /\ k # j \/ task[t].accumulate => Retained(k)
    BY <1>1, PublishedHas
<1>6. \A i \in Lives : ref[i] # None => ref[i] \in 1..Len(managers)
    <2> SUFFICES ASSUME NEW i \in Lives, ref[i] # None PROVE ref[i] \in 1..Len(managers)
        OBVIOUS
    <2>1. ref[i] \in Nat /\ ref[i] <= Len(managers) /\ Len(managers) \in Nat
        BY TypesHere
    <2> QED  BY <2>1 DEF None
<1>7. l \notin disturbed => j = ref[l] /\ ref[l] # None
    BY <1>1, <1>2 DEF Backed
<1>8. \A i \in Lives : i # l => ref[i] # j
    BY <1>1, <1>2 DEF Apart
(* The others that are through.                                            *)
<1>9. ASSUME NEW u \in Tasks \ {t}, ~AtPc(u, "idle"), task[u].life \notin disturbed, Through(u)
      PROVE  Whole(u)' /\ (Saving(u) => Reads(u)')
    <2>1. PICK i \in Lives : i = task[u].life
        BY <1>9, Running DEF TaskRecord
    <2>2. Whole(u) /\ (Saving(u) => Reads(u))
        BY <1>9 DEF Indexings
    <2>3. PICK k, s : k = ref[i] /\ s = SchemaOf(u)
        OBVIOUS
    <2>4. k # None /\ Has(k, s) /\ k \in 1..Len(managers)
        BY <1>6, <2>1, <2>2, <2>3 DEF Whole
    <2>5. k # j \/ task[t].accumulate
        <3>1. CASE i # l
            BY <1>8, <2>3, <3>1
        <3>2. CASE i = l
            <4>1. ~Builds(t)
                BY <1>1, <1>2, <1>9, <2>1, <3>2 DEF Indexings
            <4> QED  BY <1>2, <4>1 DEF Builds
        <3> QED  BY <3>1, <3>2
    <2>6. Has(k, s)'
        BY <1>5, <2>4, <2>5 DEF Retained
    <2>7. task'[u] = task[u] /\ saver'[u] = saver[u] /\ ref'[i] = k
        BY <1>2, <1>4, <2>3
    <2>8. Whole(u)'
        <3>1. k = ref'[task'[u].life] /\ s = SchemaOf(u)'
            BY <2>1, <2>3, <2>7 DEF SchemaOf
        <3> QED  BY <2>4, <2>6, <3>1, WholeNext
    <2>9. ASSUME Saving(u) PROVE Reads(u)'
        <3>1. Reads(u)
            BY <2>2, <2>9
        <3>2. PICK ts : ts = OwnTables(saver[u].captured.tables, s)
            OBVIOUS
        <3>3. saver[u].pc # "reading" => OneReport(s, ts)'
            BY <2>3, <3>1, <3>2, StillOne DEF Reads
        <3>4. saver[u].manager = k
            BY <2>1, <2>3, <3>1 DEF Reads
        <3> QED  BY <2>1, <2>3, <2>7, <3>2, <3>3, <3>4 DEF Reads, SchemaOf, OneReport
    <2> QED  BY <2>8, <2>9
(* Nobody of this runtime embeds; elsewhere nothing changed.               *)
<1>10. ASSUME NEW u \in Tasks, Builds(u)'
       PROVE  u # t /\ Builds(u) /\ task[u].life # l
    <2>1. u # t
        BY <1>3, <1>10 DEF Builds, Goes, AtPc
    <2>2. Builds(u)
        BY <1>4, <1>10, <2>1 DEF Builds, AtPc
    <2>3. task[u].life # l
        <3> SUFFICES ASSUME task[u].life = l PROVE FALSE
            OBVIOUS
        <3>1. line[l][1] = t
            BY <1>1, <1>2, First
        <3>2. line[l][1] = u
            BY <2>2, First DEF Builds
        <3> QED  BY <2>1, <3>1, <3>2
    <2> QED  BY <2>1, <2>2, <2>3
<1> SUFFICES ASSUME NEW u \in Tasks, ~AtPc(u, "idle")', task'[u].life \notin disturbed'
             PROVE  /\ Through(u)' => Whole(u)'
                    /\ Saving(u)' => Reads(u)'
                    /\ Builds(u)' => \A x \in Tasks :
                         ~AtPc(x, "idle")' /\ task'[x].life = task'[u].life => ~Through(x)'
    BY DEF Indexings
<1>11. CASE u = t
    <2>1. l \notin disturbed /\ task'[t].life = l /\ SchemaOf(t)' = SchemaOf(t)
        BY <1>1, <1>2, <1>11 DEF Lasting, SchemaOf
    <2>2. PICK k, s : k = ref[l] /\ s = SchemaOf(t)
        OBVIOUS
    <2>3. k = j /\ k # None /\ k \in 1..Len(managers) /\ ref'[l] = k
        BY <1>2, <1>6, <1>7, <2>1, <2>2
    <2>4. Has(k, s)'
        <3>1. Has(k, SchemaOf(t))'
            BY <1>5, <2>3
        <3> QED  BY <2>1, <2>2, <3>1 DEF Has, OneReport, TablesIn, OwnTables
    <2>5. Whole(t)'
        BY <2>1, <2>2, <2>3, <2>4, WholeNext
    <2>6. Reads(t)'
        BY <1>3, <2>1, <2>2, <2>3 DEF Reads
    <2>7. ~Builds(t)'
        BY <1>10
    <2> QED  BY <1>11, <2>5, <2>6, <2>7
<1>12. CASE u # t
    <2>1. task'[u] = task[u] /\ saver'[u] = saver[u]
        BY <1>4, <1>12
    <2>2. /\ ~AtPc(u, "idle") /\ task[u].life \notin disturbed
          /\ Through(u)' <=> Through(u)
          /\ Saving(u)' <=> Saving(u)
        BY <1>2, <2>1 DEF AtPc, Through, Saving
    <2>3. Through(u)' => Whole(u)'
        BY <1>9, <1>12, <2>2
    <2>4. Saving(u)' => Reads(u)'
        BY <1>9, <1>12, <2>2 DEF Through
    <2>5. ASSUME Builds(u)', NEW x \in Tasks, ~AtPc(x, "idle")', task'[x].life = task'[u].life
          PROVE  ~Through(x)'
        <3>1. Builds(u) /\ task[u].life # l
            BY <1>10, <2>5
        <3>2. x # t
            BY <1>1, <1>2, <2>1, <2>5, <3>1 DEF Lasting
        <3>3. task'[x] = task[x] /\ saver'[x] = saver[x]
            BY <1>4, <3>2
        <3>4. ~Through(x)
            BY <2>1, <2>2, <2>5, <3>1, <3>3 DEF Indexings, AtPc
        <3> QED  BY <3>3, <3>4 DEF Through, Saving
    <2> QED  BY <2>3, <2>4, <2>5
<1> QED  BY <1>11, <1>12

-----------------------------------------------------------------------------
LEMMA IndexingsStep ==
    ASSUME TypeOK, TypeOK', Lined, Backed, ManagersHold, FilesHold, Apart, Indexings, Lasting,
           [Next]_vars
    PROVE  Indexings'
<1>1. CASE \E t \in Tasks : Publish(t)
    BY <1>1, IndexingsPublish
<1>2. CASE \A t \in Tasks : ~Publish(t)
    <2> DEFINE Calm(u) ==
                 \/ task'[u] = task[u]
                 \/ task'[u].pc \in {"preparing", "waiting", "failed"}
                 \/ /\ ~AtPc(u, "idle") /\ task'[u].pc = "embedding"
                    /\ task'[u].accumulate \/ ref[task[u].life] = None
                 \/ AtPc(u, "saved") /\ task'[u].pc = "done"
               Refs == \A l \in Lives \ disturbed' : ref[l] # None => ref'[l] = ref[l]
    <2>1. \A k \in 1..Len(managers) : Retained(k)
        BY <1>2, RetainedStep
    <2>2. CASE UNCHANGED saver /\ Refs /\ \A u \in Tasks : Calm(u)
        BY <2>1, <2>2, SaversStand
    <2>3. ASSUME NEW t \in Tasks, NEW r \in Reports, Discover(t, r) \/ Initialize(t, r)
          PROVE  Indexings'
        <3>1. UNCHANGED << saver, ref >> /\ \A u \in Tasks : Calm(u)
            BY <2>3, Starting DEF Starts
        <3> QED  BY <2>2, <3>1
    <2>4. ASSUME NEW t \in Tasks, Work(t)
          PROVE  Indexings'
        <3>1. CASE ComeToLock(t) \/ Resume(t)
            <4>1. UNCHANGED saver /\ ~AtPc(t, "idle")
                BY <3>1 DEF ComeToLock, Resume, AtPc
            <4>2. CASE Entered(t)
                <5>1. PICK l : l = task[t].life
                    OBVIOUS
                <5>2. /\ Goes(t, "embedding")
                      /\ task'[t].accumulate = (ref[l] # None)
                      /\ \A j \in Lives : j # l => ref'[j] = ref[j]
                      /\ ref[l] # None => ref'[l] = ref[l]
                    BY <4>1, <4>2, <5>1, Entering
                <5>3. Calm(t)
                    BY <4>1, <5>1, <5>2 DEF Goes
                <5>4. \A u \in Tasks : Calm(u)
                    BY <5>2, <5>3 DEF Goes
                <5>5. Refs
                    BY <5>2
                <5> QED  BY <2>2, <4>1, <5>4, <5>5
            <4>3. CASE ~Entered(t)
                <5>1. Goes(t, "waiting") /\ UNCHANGED ref
                    BY <3>1, <4>3, Coming DEF Comes, Resume
                <5>2. \A u \in Tasks : Calm(u)
                    BY <5>1 DEF Goes
                <5> QED  BY <2>2, <4>1, <5>1, <5>2
            <4> QED  BY <4>2, <4>3
        <3>2. CASE FailToEnter(t) \/ FailIndexing(t)
            <4>1. Goes(t, "failed") /\ UNCHANGED << ref, saver >>
                BY <3>2, FailingToEnter, FailingToIndex DEF Fails, FailToEnter, FailIndexing
            <4>2. \A u \in Tasks : Calm(u)
                BY <4>1 DEF Goes
            <4> QED  BY <2>2, <4>1, <4>2
        <3>3. CASE Finish(t)
            <4>1. Goes(t, "failed") \/ Goes(t, "done")
                BY <3>3, Finishing DEF Fails
            <4>2. UNCHANGED << ref, saver >> /\ AtPc(t, "saved")
                BY <3>3 DEF Finish
            <4>3. \A u \in Tasks : Calm(u)
                BY <4>1, <4>2 DEF Goes
            <4> QED  BY <2>2, <4>2, <4>3
        <3>4. CASE SaveReads(t) \/ SaveOpens(t) \/ SaveWrites(t) \/ SavesSchema(t)
            <4>1. Saves(t)
                BY <3>4, Reading, Opening, Writing, SchemaSaved
            <4>2. \/ saver'[t].captured = Captured(managers[saver[t].manager])
                  \/ saver'[t].captured = saver[t].captured /\ saver[t].pc # "reading"
                <5>1. CASE SaveReads(t)
                    BY <5>1, Reading
                <5>2. CASE SaveOpens(t) \/ SaveWrites(t) \/ SavesSchema(t)
                    BY <5>2, Opening, Writing, SchemaSaved DEF SaverAt, AtSchemas
                <5> QED  BY <3>4, <5>1, <5>2
            <4>3. UNCHANGED << ref, managers, disturbed, task >>
                BY <4>1 DEF Saves
            <4>4. \A u \in Tasks : Saving(u)' =>
                    /\ Saving(u) /\ saver'[u].manager = saver[u].manager
                    /\ \/ saver'[u].captured = Captured(managers[saver[u].manager])
                       \/ /\ saver'[u].captured = saver[u].captured
                          /\ saver'[u].pc # "reading" => saver[u].pc # "reading"
                BY <4>1, <4>2 DEF Saves, Saving
            <4> QED  BY <4>3, <4>4, SaversMove
        <3>5. CASE SaveEnds(t) \/ SaveFails(t)
            <4>1. /\ saver'[t] = IdleSaver /\ \A u \in Tasks \ {t} : saver'[u] = saver[u]
                  /\ UNCHANGED << ref, managers, disturbed >>
                BY <3>5, Stopping DEF Stops
            <4>2. UNCHANGED task \/ (AtPc(t, "saving") /\ (Goes(t, "saved") \/ Goes(t, "failed")))
                BY <3>5, Ending, FailingToSave DEF Fails
            <4>3. \A u \in Tasks :
                    \/ task'[u] = task[u]
                    \/ AtPc(u, "saving") /\ task'[u].pc \in {"saved", "failed"}
                BY <4>2 DEF Goes
            <4>4. \A u \in Tasks : Saving(u)' => Saving(u) /\ saver'[u] = saver[u]
                BY <4>1 DEF Saving, IdleSaver
            <4>5. \A u \in Tasks : Saving(u)' =>
                    /\ Saving(u) /\ saver'[u].manager = saver[u].manager
                    /\ \/ saver'[u].captured = Captured(managers[saver[u].manager])
                       \/ /\ saver'[u].captured = saver[u].captured
                          /\ saver'[u].pc # "reading" => saver[u].pc # "reading"
                BY <4>4
            <4> QED  BY <4>1, <4>3, <4>5, SaversMove
        <3> QED  BY <1>2, <2>4, <3>1, <3>2, <3>3, <3>4, <3>5 DEF Work, SavesSchema
    <2>5. CASE Leave
        <3>1. UNCHANGED << saver, ref >>
            BY <2>5 DEF Leave
        <3>2. \A u \in Tasks : Calm(u)
            BY <2>5, Leaving
        <3> QED  BY <2>2, <3>1, <3>2
    <2>6. CASE Come \/ RestoreBegins \/ UNCHANGED vars
        BY <2>2, <2>6 DEF Come, RestoreBegins, vars
    <2>7. CASE RestoreEnds
        <3>1. UNCHANGED << task, saver >>
            BY <2>7 DEF RestoreEnds
        <3>2. Refs
            BY <2>7, RestoringEnds
        <3> QED  BY <2>2, <3>1, <3>2
    <2>8. CASE Cleanup
        <3>1. UNCHANGED << task, saver >>
            BY <2>8 DEF Cleanup
        <3>2. Refs
            BY <2>8, Cleaning
        <3> QED  BY <2>2, <3>1, <3>2
    <2> QED  BY <2>3, <2>4, <2>5, <2>6, <2>7, <2>8 DEF Next
<1> QED  BY <1>1, <1>2

-----------------------------------------------------------------------------
(* Sets of tables that mix no reports.                                     *)

LEMMA EmptySound ==
    Sound({})
BY DEF Sound, OwnTables

LEMMA StillSound ==
    ASSUME Lasting, NEW ts, Sound(ts)
    PROVE  Sound(ts)'
<1> SUFFICES ASSUME NEW s, OwnTables(ts, s) # {}
             PROVE  OneReport(s, OwnTables(ts, s))'
    BY DEF Sound, OwnTables
<1>1. PICK us : us = OwnTables(ts, s)
    OBVIOUS
<1>2. OneReport(s, us)
    BY <1>1 DEF Sound
<1>3. OneReport(s, us)'
    BY <1>2, StillOne
<1> QED  BY <1>1, <1>3 DEF OneReport, OwnTables

LEMMA SoundPart ==
    ASSUME NEW ts, Sound(ts), NEW s
    PROVE  Sound(OwnTables(ts, s))
<1>1. PICK us : us = OwnTables(ts, s)
    OBVIOUS
<1>2. ASSUME NEW x, OwnTables(us, x) # {}
      PROVE  OneReport(x, OwnTables(us, x))
    <2>1. x = s /\ OwnTables(us, x) = OwnTables(ts, s)
        BY <1>1, <1>2 DEF OwnTables
    <2> QED  BY <1>2, <2>1 DEF Sound
<1> QED  BY <1>1, <1>2 DEF Sound

(* The schema's own tables, or everyone's when it has none.                *)
LEMMA SchemaFileIs ==
    ASSUME NEW captured, NEW s
    PROVE  LET own == OwnTables(captured.tables, s)
               text == SchemaFile(captured, s)
           IN /\ OwnTables(text, s) = own /\ OwnFirst(s, text)
              /\ text \in {own, captured.tables}
BY DEF SchemaFile, OwnTables, OwnFirst

(* A set there was, or what it had of a schema, or none.                   *)
Derived(ts) == ts = {} \/ \E us \in Said : ts = us \/ \E s : ts = OwnTables(us, s)

LEMMA DerivedSound ==
    ASSUME Lasting, Texts, NEW ts, Derived(ts)
    PROVE  Sound(ts)'
<1>1. Sound(ts)
    BY EmptySound, SoundPart DEF Texts, Derived
<1> QED  BY <1>1, StillSound

(* The manager a publication, or one that broke off, has changed.          *)
LEMMA PublishedSound ==
    ASSUME TypeOK, ManagersHold, Apart, Texts, Lasting, NEW t \in Tasks, Publish(t),
           NEW k \in 1..Len(managers), NEW ts, ts = TablesIn(k)'
    PROVE  Sound(ts)'
<1>1. ~AtPc(t, "idle") /\ task[t].manager \in 1..Len(managers)
    BY DEF Publish, AtPc, Apart
<1>2. PICK j : j = task[t].manager /\ j \in 1..Len(managers)
    BY <1>1
<1>3. PICK r \in Reports : r = task[t].report
    BY <1>1, Running DEF TaskRecord
<1>4. SchemaOf(t) = r.schema
    BY <1>3 DEF SchemaOf
<1>5. /\ k # j => managers'[k] = managers[k]
      /\ k = j => /\ OwnTables(ts, r.schema) = r.tables
                  /\ task[t].accumulate => \A s : s # r.schema =>
                       OwnTables(ts, s) = OwnTables(TablesIn(k), s)
                  /\ ~task[t].accumulate => ts = r.tables
    <2>1. \A i \in 1..Len(managers) : i # j => managers'[i] = managers[i]
        BY <1>2, PublishedTables
    <2>2. OwnTables(TablesIn(j)', r.schema) = r.tables
        BY <1>2, <1>3, <1>4, PublishedTables
    <2>3. task[t].accumulate => \A s : s # r.schema =>
            OwnTables(TablesIn(j)', s) = OwnTables(TablesIn(j), s)
        BY <1>2, <1>3, <1>4, PublishedTables
    <2>4. ~task[t].accumulate => TablesIn(j)' = r.tables
        BY <1>2, <1>3, <1>4, PublishedTables
    <2> QED  BY <2>1, <2>2, <2>3, <2>4
<1>6. PICK us : us = TablesIn(k) /\ us \in Said
    BY DEF Said
<1>7. CASE k # j
    <2>1. ts = us
        BY <1>5, <1>6, <1>7 DEF TablesIn
    <2> QED  BY <1>6, <2>1, DerivedSound DEF Derived
<1>8. CASE k = j
    <2>1. OneReport(r.schema, r.tables)'
        BY DEF OneReport
    <2>2. Sound(us)'
        BY <1>6, DerivedSound DEF Derived
    <2>3. \A x \in r.tables : x.schema = r.schema
        BY ReportIsCatalog
    <2>4. ASSUME NEW s, OwnTables(ts, s) # {}
          PROVE  OneReport(s, OwnTables(ts, s))'
        <3>1. CASE s = r.schema
            <4>1. OwnTables(ts, s) = r.tables
                BY <1>5, <1>8, <3>1
            <4> QED  BY <2>1, <3>1, <4>1 DEF OneReport, OwnTables
        <3>2. CASE s # r.schema
            <4>1. task[t].accumulate
                BY <1>5, <1>8, <2>3, <2>4, <3>2 DEF OwnTables
            <4>2. OwnTables(ts, s) = OwnTables(us, s)
                BY <1>5, <1>6, <1>8, <3>2, <4>1
            <4>3. OneReport(s, OwnTables(us, s))'
                BY <2>2, <2>4, <4>2 DEF Sound, OwnTables
            <4> QED  BY <4>2, <4>3 DEF OneReport, OwnTables
        <3> QED  BY <3>1, <3>2
    <2> QED  BY <2>4 DEF Sound, OwnTables
<1> QED  BY <1>7, <1>8

LEMMA BrokenOffSound ==
    ASSUME TypeOK, Lined, ManagersHold, Apart, Texts, Lasting, NEW t \in Tasks,
           FailIndexing(t), NEW k \in 1..Len(managers), NEW ts, ts = TablesIn(k)'
    PROVE  Sound(ts)'
<1>1. AtPc(t, "embedding") /\ task[t].manager \in 1..Len(managers)
    BY DEF FailIndexing, Apart
<1>2. AtPc(t, "failed")' /\ task'[t].report = task[t].report
    BY FailingToIndex DEF Fails, Goes, AtPc
<1>3. PICK j, q : j = task[t].manager /\ j \in 1..Len(managers) /\ q = SchemaOf(t)
    BY <1>1
<1>4. /\ \A i \in 1..Len(managers) : i # j => managers'[i] = managers[i]
      /\ \A s : s # q => OwnTables(TablesIn(j)', s) = OwnTables(TablesIn(j), s)
      /\ OwnTables(TablesIn(j)', q) \in
           {OwnTables(TablesIn(j), q),
            {x \in OwnTables(TablesIn(j), q) : Identity(x) \in Ids(task[t].report.tables)}}
    BY <1>1, <1>3, BrokenOff
<1>5. PICK us : us = TablesIn(k) /\ us \in Said
    BY DEF Said
<1>6. CASE k # j
    <2>1. ts = us
        BY <1>4, <1>5, <1>6 DEF TablesIn
    <2> QED  BY <1>5, <2>1, DerivedSound DEF Derived
<1>7. CASE k = j
    <2>1. Sound(us)'
        BY <1>5, DerivedSound DEF Derived
    <2>2. ASSUME NEW s, OwnTables(ts, s) # {}
          PROVE  OneReport(s, OwnTables(ts, s))'
        <3>1. PICK old, new : old = OwnTables(us, s) /\ new = OwnTables(ts, s)
            OBVIOUS
        <3>2. \/ new = old
              \/ /\ s = SchemaOf(t)
                 /\ new = {x \in old : Identity(x) \in Ids(task'[t].report.tables)}
            BY <1>2, <1>3, <1>4, <1>5, <1>7, <3>1
        <3>3. old # {}
            BY <2>2, <3>1, <3>2
        <3>4. OneReport(s, old)'
            BY <2>1, <3>1, <3>3 DEF Sound, OwnTables, OneReport
        <3>5. OneReport(s, new)'
            <4>1. CASE new = old
                BY <3>4, <4>1
            <4>2. CASE new # old
                <5>1. SchemaOf(t)' = s /\ new = {x \in old : Identity(x) \in Ids(task'[t].report.tables)}
                    BY <1>2, <3>2, <4>2 DEF SchemaOf
                <5> QED  BY <1>2, <3>4, <5>1, LeftOver
            <4> QED  BY <4>1, <4>2
        <3> QED  BY <3>1, <3>5 DEF OneReport, OwnTables
    <2> QED  BY <2>2 DEF Sound, OwnTables
<1> QED  BY <1>6, <1>7

LEMMA ManagersSound ==
    ASSUME TypeOK, Lined, ManagersHold, FilesHold, Apart, Texts, Lasting, [Next]_vars,
           NEW k \in 1..Len(managers'), NEW ts, ts = TablesIn(k)'
    PROVE  Sound(ts)'
<1>1. CASE k \in 1..Len(managers) /\ managers'[k] = managers[k]
    <2>1. ts \in Said
        BY <1>1 DEF Said, TablesIn
    <2> QED  BY <2>1, DerivedSound DEF Derived
<1>2. CASE UNCHANGED managers
    BY <1>1, <1>2
<1>3. ASSUME NEW m, IsManager(m), managers' = Append(managers, m), Derived(Range(m.graph.tables))
      PROVE  Sound(ts)'
    <2>1. /\ Len(managers') = Len(managers) + 1 /\ managers'[Len(managers')] = m
          /\ \A i \in 1..Len(managers) : managers'[i] = managers[i]
        BY <1>3, Growing
    <2>2. Len(managers) \in Nat
        BY TypesHere
    <2>3. CASE k \in 1..Len(managers)
        BY <1>1, <2>1, <2>3
    <2>4. CASE k \notin 1..Len(managers)
        <3>1. k = Len(managers')
            BY <2>1, <2>2, <2>4
        <3>2. ts = Range(m.graph.tables)
            BY <2>1, <3>1 DEF TablesIn
        <3> QED  BY <1>3, <3>2, DerivedSound
    <2> QED  BY <2>3, <2>4
<1>4. ASSUME NEW t \in Tasks, ComeToLock(t) \/ Resume(t)
      PROVE  Sound(ts)'
    <2>1. PICK s : s = SchemaOf(t)
        OBVIOUS
    <2>2. UNCHANGED managers \/ managers' = Append(managers, NewManager(s))
        BY <1>4, <2>1 DEF ComeToLock, Resume, Entered
    <2>3. PICK m : m = NewManager(s) /\ IsManager(m)
        BY Made
    <2>4. Range(m.graph.tables) = {}
        <3>1. m.graph = EmptyGraph
            BY <2>3 DEF NewManager
        <3> QED  BY <3>1, EmptyHolds, HeldTables
    <2>5. Derived(Range(m.graph.tables))
        BY <2>4 DEF Derived
    <2> QED  BY <1>2, <1>3, <2>2, <2>3, <2>5
<1>5. ASSUME NEW t \in Tasks, Publish(t) \/ FailIndexing(t)
      PROVE  Sound(ts)'
    <2>1. Len(managers') = Len(managers)
        <3>1. PICK j : j = task[t].manager
            OBVIOUS
        <3>2. UNCHANGED managers \/ \E m : managers' = [managers EXCEPT ![j] = m]
            BY <1>5, <3>1 DEF Publish, FailIndexing
        <3>3. Listing(managers)
            BY DEF TypeOK
        <3> QED  BY <3>2, <3>3 DEF Listing
    <2> QED  BY <1>5, <2>1, PublishedSound, BrokenOffSound
<1>6. CASE RestoreEnds
    <2>1. CASE UNCHANGED managers
        BY <1>2, <2>1
    <2>2. CASE ~UNCHANGED managers
        <3>1. PICK m : m = Loaded
            OBVIOUS
        <3>2. restore.pc = "loading" /\ managers' = Append(managers, m)
            BY <1>6, <2>2, <3>1 DEF RestoreEnds
        <3>3. PICK us : us = Range(m.graph.tables)
            OBVIOUS
        <3>4. /\ IsManager(m)
              /\ us \in {{}, files.combined.tables} \/ \E s \in DOMAIN files.bySchema : us = files.bySchema[s]
            BY <3>1, <3>2, <3>3, LoadsHold
        <3>5. Derived(us)
            BY <3>4 DEF Derived, Said
        <3> QED  BY <1>3, <3>2, <3>3, <3>4, <3>5
    <2> QED  BY <2>1, <2>2
<1>7. ASSUME NEW t \in Tasks, Work(t)
      PROVE  Sound(ts)'
    <2>1. CASE ComeToLock(t) \/ Resume(t)
        BY <1>4, <2>1
    <2>2. CASE Publish(t) \/ FailIndexing(t)
        BY <1>5, <2>2
    <2>3. CASE \/ FailToEnter(t) \/ SaveReads(t) \/ SaveOpens(t) \/ SaveWrites(t) \/ SavesSchema(t)
               \/ SaveEnds(t) \/ SaveFails(t) \/ Finish(t)
        BY <1>2, <2>3 DEF FailToEnter, SaveReads, SaveOpens, SaveWrites, SavesSchema, OpenSchema,
           WriteSchema, SchemaWritten, CopySnapshot, SaveEnds, SaveFails, Finish
    <2> QED  BY <1>7, <2>1, <2>2, <2>3 DEF Work, SavesSchema
<1>8. ASSUME NEW t \in Tasks, NEW r \in Reports, Discover(t, r) \/ Initialize(t, r)
      PROVE  Sound(ts)'
    BY <1>2, <1>8 DEF Discover, Initialize
<1>9. CASE Leave \/ Come \/ RestoreBegins \/ Cleanup \/ UNCHANGED vars
    BY <1>2, <1>9 DEF Leave, Come, RestoreBegins, Cleanup, vars
<1> QED  BY <1>6, <1>7, <1>8, <1>9 DEF Next

-----------------------------------------------------------------------------
(* The files and what the workers read.                                    *)

(* What a step leaves in them is derived from what there was.              *)
FilesDerived ==
    /\ Derived(files'.combined.tables)
    /\ \A t \in Tasks : Saving(t)' => Derived(saver'[t].captured.tables)
    /\ \A s \in DOMAIN files'.bySchema :
         Derived(files'.bySchema[s]) /\ OwnFirst(s, files'.bySchema[s])

LEMMA WereDerived ==
    ASSUME Firsts
    PROVE  /\ Derived(files.combined.tables) /\ Derived({})
           /\ \A t \in Tasks : Saving(t) => Derived(saver[t].captured.tables)
           /\ \A s \in DOMAIN files.bySchema :
                Derived(files.bySchema[s]) /\ OwnFirst(s, files.bySchema[s])
           /\ \A k \in 1..Len(managers) : Derived(TablesIn(k))
BY DEF Derived, Said, Firsts

LEMMA NoTablesInNoFile ==
    NoFile.tables = {} /\ Torn.tables = {} /\ DOMAIN Nothing = {}
BY DEF NoFile, Torn, Nothing

LEMMA SavesDerived ==
    ASSUME TypeOK, FilesHold, Firsts, NEW t \in Tasks,
           SaveReads(t) \/ SaveOpens(t) \/ SaveWrites(t) \/ SavesSchema(t)
    PROVE  FilesDerived
<1>1. Saves(t)
    BY Reading, Opening, Writing, SchemaSaved
<1>2. PICK c : c = saver[t].captured /\ Derived(c.tables)
    BY <1>1, WereDerived DEF Saves
<1>3. ASSUME NEW u \in Tasks \ {t}, Saving(u)'
      PROVE  Derived(saver'[u].captured.tables)
    <2>1. saver'[u] = saver[u] /\ Saving(u)
        BY <1>1, <1>3 DEF Saves, Saving
    <2> QED  BY <2>1, WereDerived
<1>4. CASE SaveReads(t)
    <2>1. PICK k : k = saver[t].manager /\ k \in 1..Len(managers)
        BY <1>1 DEF Saves, FilesHold
    <2>2. UNCHANGED files /\ saver'[t].captured = Captured(managers[k])
        BY <1>4, <2>1, Reading
    <2>3. saver'[t].captured.tables = TablesIn(k)
        BY <2>2 DEF Captured, TablesIn
    <2> QED  BY <1>3, <2>1, <2>2, <2>3, WereDerived DEF FilesDerived
<1>5. CASE SaveOpens(t)
    <2>1. files'.combined = Torn /\ files'.bySchema = files.bySchema /\ saver'[t].captured = c
        BY <1>2, <1>5, Opening
    <2> QED  BY <1>2, <1>3, <2>1, WereDerived, NoTablesInNoFile DEF FilesDerived
<1>6. CASE SaveWrites(t)
    <2>1. PICK n : n = LiveNames(t)
        OBVIOUS
    <2>2. /\ files'.combined \in {[c EXCEPT !.names = n], Torn}
          /\ files'.bySchema = files.bySchema /\ saver'[t].captured = c
        BY <1>2, <1>6, <2>1, Writing
    <2>3. c = [names |-> c.names, tables |-> c.tables, communities |-> c.communities]
        BY <1>1, <1>2 DEF Saves, FilesHold, IsFile
    <2>4. [c EXCEPT !.names = n].tables = c.tables
        BY <2>3
    <2>5. Derived(files'.combined.tables)
        BY <1>2, <2>2, <2>4, WereDerived, NoTablesInNoFile
    <2> QED  BY <1>2, <1>3, <2>2, <2>5, WereDerived DEF FilesDerived
<1>7. CASE SavesSchema(t)
    <2>1. files'.combined = files.combined /\ saver'[t].captured = c
        BY <1>2, <1>7, SchemaSaved
    <2>2. ASSUME NEW s \in DOMAIN files'.bySchema
          PROVE  Derived(files'.bySchema[s]) /\ OwnFirst(s, files'.bySchema[s])
        <3>1. CASE s \in DOMAIN files.bySchema /\ files'.bySchema[s] = files.bySchema[s]
            BY <3>1, WereDerived
        <3>2. CASE files'.bySchema[s] = SchemaFile(c, s)
            <4>1. PICK text : text = SchemaFile(c, s)
                OBVIOUS
            <4>2. OwnFirst(s, text) /\ text \in {OwnTables(c.tables, s), c.tables}
                BY <4>1, SchemaFileIs
            <4>3. c.tables \in Said
                BY <1>1, <1>2 DEF Saves, Said
            <4>4. Derived(text)
                BY <4>2, <4>3 DEF Derived
            <4> QED  BY <3>2, <4>1, <4>2, <4>4
        <3> QED  BY <1>2, <1>7, <3>1, <3>2, SchemaTexts
    <2> QED  BY <1>2, <1>3, <2>1, <2>2, WereDerived DEF FilesDerived
<1> QED  BY <1>4, <1>5, <1>6, <1>7

LEMMA FilesDerivedStep ==
    ASSUME TypeOK, Lined, FilesHold, Firsts, [Next]_vars
    PROVE  FilesDerived
<1>1. CASE UNCHANGED files /\ \A t \in Tasks : Saving(t)' => saver'[t] = saver[t]
    <2>1. \A t \in Tasks : Saving(t)' => Saving(t)
        BY <1>1 DEF Saving
    <2> QED  BY <1>1, <2>1, WereDerived DEF FilesDerived
<1>2. ASSUME NEW t \in Tasks, Work(t)
      PROVE  FilesDerived
    <2>1. CASE SaveReads(t) \/ SaveOpens(t) \/ SaveWrites(t) \/ SavesSchema(t)
        BY <2>1, SavesDerived
    <2>2. CASE SaveEnds(t) \/ SaveFails(t)
        <3>1. saver'[t] = IdleSaver /\ UNCHANGED files /\ \A u \in Tasks \ {t} : saver'[u] = saver[u]
            BY <2>2, Stopping DEF Stops
        <3>2. \A u \in Tasks : Saving(u)' => saver'[u] = saver[u]
            BY <3>1 DEF Saving, IdleSaver
        <3> QED  BY <1>1, <3>1, <3>2
    <2>3. CASE ComeToLock(t) \/ Resume(t) \/ FailToEnter(t) \/ FailIndexing(t) \/ Finish(t)
        BY <1>1, <2>3 DEF ComeToLock, Resume, FailToEnter, FailIndexing, Finish
    <2>4. CASE Publish(t)
        <3>1. PICK l : l = task[t].life
            OBVIOUS
        <3>2. UNCHANGED files
            BY <2>4 DEF Publish
        <3>3. CASE ref[l] = None
            BY <1>1, <2>4, <3>1, <3>2, <3>3 DEF Publish
        <3>4. CASE ref[l] # None
            <4>1. saver' = [saver EXCEPT ![t] =
                     [pc |-> "reading", manager |-> ref[l], captured |-> NoFile, next |-> 1,
                      name |-> NoSchema]]
                BY <2>4, <3>1, <3>4 DEF Publish
            <4>2. saver = [u \in Tasks |-> saver[u]]
                BY TypesHere
            <4>3. saver'[t].captured = NoFile /\ \A u \in Tasks \ {t} : saver'[u] = saver[u]
                BY <4>1, <4>2
            <4>4. ASSUME NEW u \in Tasks, Saving(u)'
                  PROVE  Derived(saver'[u].captured.tables)
                <5>1. CASE u = t
                    BY <4>3, <5>1, WereDerived, NoTablesInNoFile
                <5>2. CASE u # t
                    <6>1. saver'[u] = saver[u] /\ Saving(u)
                        BY <4>3, <4>4, <5>2 DEF Saving
                    <6> QED  BY <6>1, WereDerived
                <5> QED  BY <5>1, <5>2
            <4> QED  BY <3>2, <4>4, WereDerived DEF FilesDerived
        <3> QED  BY <3>3, <3>4
    <2> QED  BY <1>2, <2>1, <2>2, <2>3, <2>4 DEF Work, SavesSchema
<1>3. ASSUME NEW t \in Tasks, NEW r \in Reports, Discover(t, r) \/ Initialize(t, r)
      PROVE  FilesDerived
    BY <1>1, <1>3 DEF Discover, Initialize
<1>4. CASE Leave \/ Come \/ RestoreBegins \/ RestoreEnds \/ UNCHANGED vars
    BY <1>1, <1>4 DEF Leave, Come, RestoreBegins, RestoreEnds, vars
<1>5. CASE Cleanup
    <2>1. files' = [combined |-> NoFile, bySchema |-> Nothing, snapshots |-> Nothing]
        BY <1>5 DEF Cleanup
    <2>2. files'.combined = NoFile /\ files'.bySchema = Nothing /\ UNCHANGED saver
        BY <1>5, <2>1 DEF Cleanup
    <2>3. \A t \in Tasks : Saving(t)' => Derived(saver'[t].captured.tables)
        BY <2>2, WereDerived DEF Saving
    <2> QED  BY <2>2, <2>3, WereDerived, NoTablesInNoFile DEF FilesDerived
<1> QED  BY <1>2, <1>3, <1>4, <1>5 DEF Next

LEMMA FirstsStep ==
    ASSUME TypeOK, Lined, FilesHold, Firsts, [Next]_vars
    PROVE  Firsts'
<1>1. FilesDerived
    BY FilesDerivedStep
<1> QED  BY <1>1 DEF FilesDerived, Firsts, OwnFirst, OwnTables

LEMMA TextsStep ==
    ASSUME TypeOK, Lined, ManagersHold, FilesHold, Apart, Texts, Firsts, Lasting, [Next]_vars
    PROVE  Texts'
<1> SUFFICES ASSUME NEW ts \in Said'
             PROVE  Sound(ts)'
    BY DEF Texts
<1>1. FilesDerived
    BY FilesDerivedStep
<1>2. \/ \E k \in 1..Len(managers') : ts = TablesIn(k)'
      \/ ts = files'.combined.tables
      \/ \E t \in Tasks : Saving(t)' /\ ts = saver'[t].captured.tables
      \/ \E s \in DOMAIN files'.bySchema : ts = files'.bySchema[s]
    BY DEF Said, Saving, TablesIn
<1>3. CASE \E k \in 1..Len(managers') : ts = TablesIn(k)'
    BY <1>3, ManagersSound
<1>4. CASE Derived(ts)
    BY <1>4, DerivedSound
<1> QED  BY <1>1, <1>2, <1>3, <1>4 DEF FilesDerived

-----------------------------------------------------------------------------
(* The copies.                                                             *)

LEMMA RacedStays ==
    ASSUME [Next]_vars, raced
    PROVE  raced'
<1>1. ASSUME NEW t \in Tasks, Work(t)
      PROVE  raced'
    BY <1>1 DEF Work, ComeToLock, Resume, Publish, FailToEnter, FailIndexing, SaveReads, SaveOpens,
       SaveWrites, OpenSchema, WriteSchema, SchemaWritten, CopySnapshot, SaveEnds, SaveFails, Finish
<1> QED  BY <1>1 DEF Next, Discover, Initialize, Leave, Come, RestoreBegins, RestoreEnds, Cleanup,
         vars

LEMMA CopiesStand ==
    ASSUME TypeOK, FilesHold, Copies, Lasting, raced => raced',
           \A u \in Tasks : Saving(u)' => saver'[u] = saver[u],
           \A s \in DOMAIN files'.bySchema :
              s \in DOMAIN files.bySchema /\ files'.bySchema[s] = files.bySchema[s]
    PROVE  Copies'
<1>1. \A u \in Tasks : Saving(u)' => Saving(u)
    BY DEF Saving
<1>2. ASSUME NEW u \in Tasks, SaverAt(u, "copying")'
      PROVE  /\ saver'[u].name = SchemaOf(u)'
             /\ ~raced' /\ saver'[u].name \in DOMAIN files'.bySchema =>
                  files'.bySchema[saver'[u].name] = SchemaFile(saver'[u].captured, saver'[u].name)
    <2>1. Saving(u)'
        BY <1>2 DEF SaverAt, Saving
    <2>2. saver'[u] = saver[u] /\ SaverAt(u, "copying") /\ ~AtPc(u, "idle")
        BY <1>1, <1>2, <2>1 DEF SaverAt, FilesHold
    <2>3. SchemaOf(u)' = SchemaOf(u)
        BY <2>2 DEF Lasting, SchemaOf
    <2>4. PICK n, c : n = saver[u].name /\ c = saver[u].captured
        OBVIOUS
    <2>5. /\ n = SchemaOf(u)
          /\ ~raced /\ n \in DOMAIN files.bySchema => files.bySchema[n] = SchemaFile(c, n)
        BY <2>2, <2>4 DEF Copies
    <2>6. ~raced' /\ n \in DOMAIN files'.bySchema => files'.bySchema[n] = SchemaFile(c, n)
        BY <2>5
    <2> QED  BY <2>2, <2>3, <2>4, <2>5, <2>6
<1>3. ~raced' => \A t, u \in Tasks : Saving(t)' /\ Saving(u)' => t = u
    BY <1>1 DEF Copies
<1> QED  BY <1>2, <1>3 DEF Copies, SchemaFile, SaverAt

LEMMA CopiesSaved ==
    ASSUME TypeOK, FilesHold, Copies, Lasting, NEW t \in Tasks,
           SaveReads(t) \/ SaveOpens(t) \/ SaveWrites(t) \/ SavesSchema(t)
    PROVE  Copies'
<1>1. Saves(t)
    BY Reading, Opening, Writing, SchemaSaved
<1>2. UNCHANGED << task, raced >> /\ \A u \in Tasks \ {t} : saver'[u] = saver[u]
    BY <1>1 DEF Saves
<1>3. \A u \in Tasks : Saving(u)' => Saving(u)
    BY <1>1, <1>2 DEF Saves, Saving
<1>4. ~raced' => \A v, u \in Tasks : Saving(v)' /\ Saving(u)' => v = u
    BY <1>2, <1>3 DEF Copies
<1>5. ASSUME NEW u \in Tasks, SaverAt(u, "copying")'
      PROVE  /\ saver'[u].name = SchemaOf(u)'
             /\ ~raced' /\ saver'[u].name \in DOMAIN files'.bySchema =>
                  files'.bySchema[saver'[u].name] = SchemaFile(saver'[u].captured, saver'[u].name)
    <2>1. SchemaOf(u)' = SchemaOf(u)
        BY <1>2 DEF SchemaOf
    <2>2. CASE u # t
        <3>1. saver'[u] = saver[u] /\ SaverAt(u, "copying")
            BY <1>2, <1>5, <2>2 DEF SaverAt
        <3>2. Saving(u) /\ Saving(t)
            BY <1>1, <3>1 DEF Saves, SaverAt, Saving
        <3>3. raced'
            BY <1>2, <2>2, <3>2 DEF Copies
        <3>4. saver[u].name = SchemaOf(u)
            BY <3>1 DEF Copies
        <3> QED  BY <2>1, <3>1, <3>3, <3>4
    <2>3. CASE u = t
        <3>1. saver'[t].pc = "copying"
            BY <1>5, <2>3 DEF SaverAt
        <3>2. WriteSchema(t)
            BY <3>1, Reading, Opening, Writing, OpeningSchema, Copying DEF SavesSchema
        <3>3. PICK n, c, f, g : n = saver[t].name /\ c = saver[t].captured /\ f = files.bySchema
                                /\ g = files'.bySchema
            OBVIOUS
        <3>4. /\ saver'[t].name = n /\ saver'[t].captured = c /\ n = SchemaOf(t)
              /\ g \in {Emptied(f, n), Written(f, n, SchemaFile(c, n))}
            BY <3>1, <3>2, <3>3, WritingSchema
        <3>5. PICK text : text = SchemaFile(c, n)
            OBVIOUS
        <3>6. n \in DOMAIN g => g[n] = text
            <4>1. CASE g = Emptied(f, n)
                BY <4>1 DEF Emptied
            <4>2. CASE g = Written(f, n, text)
                BY <4>2 DEF Written, Over
            <4> QED  BY <3>4, <3>5, <4>1, <4>2
        <3> QED  BY <2>1, <2>3, <3>3, <3>4, <3>5, <3>6
    <2> QED  BY <2>2, <2>3
<1> QED  BY <1>4, <1>5 DEF Copies, SchemaFile, SaverAt

LEMMA CopiesStep ==
    ASSUME TypeOK, Lined, FilesHold, Copies, Lasting, [Next]_vars
    PROVE  Copies'
<1>1. raced => raced'
    BY RacedStays
<1>2. CASE UNCHANGED files /\ \A t \in Tasks : Saving(t)' => saver'[t] = saver[t]
    BY <1>1, <1>2, CopiesStand
<1>3. ASSUME NEW t \in Tasks, Work(t)
      PROVE  Copies'
    <2>1. CASE SaveReads(t) \/ SaveOpens(t) \/ SaveWrites(t) \/ SavesSchema(t)
        BY <2>1, CopiesSaved
    <2>2. CASE SaveEnds(t) \/ SaveFails(t)
        <3>1. saver'[t] = IdleSaver /\ UNCHANGED files /\ \A u \in Tasks \ {t} : saver'[u] = saver[u]
            BY <2>2, Stopping DEF Stops
        <3>2. \A u \in Tasks : Saving(u)' => saver'[u] = saver[u]
            BY <3>1 DEF Saving, IdleSaver
        <3> QED  BY <1>2, <3>1, <3>2
    <2>3. CASE ComeToLock(t) \/ Resume(t) \/ FailToEnter(t) \/ FailIndexing(t) \/ Finish(t)
        BY <1>2, <2>3 DEF ComeToLock, Resume, FailToEnter, FailIndexing, Finish
    <2>4. CASE Publish(t)
        <3>1. PICK l : l = task[t].life
            OBVIOUS
        <3>2. UNCHANGED files /\ raced' = (raced \/ \E u \in Tasks : Saving(u))
            BY <2>4 DEF Publish
        <3>3. CASE ref[l] = None
            BY <1>2, <2>4, <3>1, <3>2, <3>3 DEF Publish
        <3>4. CASE ref[l] # None
            <4>1. saver'[t].pc = "reading" /\ \A u \in Tasks \ {t} : saver'[u] = saver[u]
                BY <2>4, <3>1, <3>4, Publishing
            <4>2. ~raced' => \A v, u \in Tasks : Saving(v)' /\ Saving(u)' => v = u
                <5>1. \A u \in Tasks \ {t} : Saving(u)' => Saving(u)
                    BY <4>1 DEF Saving
                <5>2. ~raced' => \A u \in Tasks : ~Saving(u)
                    BY <3>2
                <5>3. ~raced' => \A u \in Tasks : Saving(u)' => u = t
                    BY <5>1, <5>2
                <5> QED  BY <5>3
            <4>3. ASSUME NEW u \in Tasks, SaverAt(u, "copying")'
                  PROVE  /\ saver'[u].name = SchemaOf(u)'
                         /\ ~raced' /\ saver'[u].name \in DOMAIN files'.bySchema =>
                              files'.bySchema[saver'[u].name] =
                                SchemaFile(saver'[u].captured, saver'[u].name)
                <5>1. saver'[u] = saver[u] /\ SaverAt(u, "copying")
                    BY <4>1, <4>3 DEF SaverAt
                <5>2. Saving(u)
                    BY <5>1 DEF SaverAt, Saving
                <5>3. raced' /\ ~AtPc(u, "idle")
                    BY <3>2, <5>2 DEF FilesHold
                <5>4. SchemaOf(u)' = SchemaOf(u) /\ saver[u].name = SchemaOf(u)
                    BY <5>1, <5>3 DEF Lasting, SchemaOf, Copies
                <5> QED  BY <5>1, <5>3, <5>4
            <4> QED  BY <4>2, <4>3 DEF Copies, SchemaFile, SaverAt
        <3> QED  BY <3>3, <3>4
    <2> QED  BY <1>3, <2>1, <2>2, <2>3, <2>4 DEF Work, SavesSchema
<1>4. ASSUME NEW t \in Tasks, NEW r \in Reports, Discover(t, r) \/ Initialize(t, r)
      PROVE  Copies'
    BY <1>2, <1>4 DEF Discover, Initialize
<1>5. CASE Leave \/ Come \/ RestoreBegins \/ RestoreEnds \/ UNCHANGED vars
    BY <1>2, <1>5 DEF Leave, Come, RestoreBegins, RestoreEnds, vars
<1>6. CASE Cleanup
    <2>1. files' = [combined |-> NoFile, bySchema |-> Nothing, snapshots |-> Nothing]
        BY <1>6 DEF Cleanup
    <2>2. DOMAIN files'.bySchema = {} /\ UNCHANGED saver
        BY <1>6, <2>1, NoTablesInNoFile DEF Cleanup
    <2> QED  BY <1>1, <2>2, CopiesStand
<1> QED  BY <1>3, <1>4, <1>5, <1>6 DEF Next

-----------------------------------------------------------------------------
(* The snapshots.                                                          *)

SnapshotOwned(v, text) ==
    /\ v[1] \in Schemas /\ v[2] <= versions[v[1]]
    /\ OwnTables(text, v[1]) # {} =>
         OneReport(v[1], OwnTables(text, v[1])) /\ text = OwnTables(text, v[1])
    /\ ~raced /\ disturbed = {} => OneReport(v[1], OwnTables(text, v[1]))

LEMMA SnapshotsMean ==
    Snapshots <=>
      \A v \in DOMAIN files.snapshots :
         v[1] \in Schemas /\ v[2] \in Nat /\ SnapshotOwned(v, files.snapshots[v])
BY DEF Snapshots, SnapshotsAreOwned, SnapshotOwned

LEMMA SnapshotStays ==
    ASSUME Lasting, raced => raced', NEW v, NEW text, v[1] \in Schemas, v[2] \in Nat,
           SnapshotOwned(v, text)
    PROVE  SnapshotOwned(v, text)'
<1>1. PICK s, ts, n : s = v[1] /\ n = v[2] /\ ts = OwnTables(text, s)
    OBVIOUS
<1>2. /\ n \in Nat /\ n <= versions[s] /\ s \in Schemas
      /\ ts # {} => OneReport(s, ts) /\ text = ts
      /\ ~raced /\ disturbed = {} => OneReport(s, ts)
    BY <1>1 DEF SnapshotOwned
<1>3. OneReport(s, ts) => OneReport(s, ts)'
    BY StillOne
<1>4. n <= versions'[s]
    <2>1. versions[s] <= versions'[s] /\ versions[s] \in Nat /\ versions'[s] \in Nat
        BY <1>2 DEF Lasting
    <2> QED  BY <1>2, <2>1
<1>5. ~raced' /\ disturbed' = {} => ~raced /\ disturbed = {}
    BY DEF Lasting
<1>6. /\ ts # {} => OneReport(s, ts)' /\ text = ts
      /\ ~raced' /\ disturbed' = {} => OneReport(s, ts)'
    BY <1>2, <1>3, <1>5
<1> QED  BY <1>1, <1>2, <1>4, <1>6 DEF SnapshotOwned, OneReport, OwnTables, Schemas

LEMMA SnapshotsMeanNext ==
    ASSUME \A v \in DOMAIN files'.snapshots : v[1] \in Schemas /\ v[2] \in Nat,
           \A v \in DOMAIN files'.snapshots : \A text :
             text = files'.snapshots[v] => SnapshotOwned(v, text)'
    PROVE  Snapshots'
<1>1. ASSUME NEW v \in DOMAIN files'.snapshots
      PROVE  LET own == OwnTables(files'.snapshots[v], v[1])
             IN /\ v[2] <= versions'[v[1]]
                /\ own # {} => /\ OneReport(v[1], OwnTables(files.snapshots[v], v[1]))'
                               /\ files'.snapshots[v] = own
                /\ ~raced' /\ disturbed' = {} =>
                     OneReport(v[1], OwnTables(files.snapshots[v], v[1]))'
    <2>1. PICK text, own : text = files'.snapshots[v] /\ own = OwnTables(text, v[1])
        OBVIOUS
    <2>2. SnapshotOwned(v, text)'
        BY <1>1, <2>1
    <2>3. /\ v[2] <= versions'[v[1]]
          /\ own # {} => OneReport(v[1], own)' /\ text = own
          /\ ~raced' /\ disturbed' = {} => OneReport(v[1], own)'
        BY <2>1, <2>2 DEF SnapshotOwned, OneReport, OwnTables
    <2>4. OneReport(v[1], own)' => OneReport(v[1], OwnTables(files.snapshots[v], v[1]))'
        BY <2>1 DEF OneReport, OwnTables
    <2>5. own = OwnTables(files'.snapshots[v], v[1])
        BY <2>1
    <2> QED  BY <2>1, <2>3, <2>4, <2>5
<1>2. SnapshotsAreOwned'
    BY <1>1 DEF SnapshotsAreOwned, OneReport, OwnTables
<1> QED  BY <1>2 DEF Snapshots, Schemas

(* The ones there were, or some of them.                                   *)
LEMMA SnapshotsStand ==
    ASSUME Lasting, raced => raced', Snapshots,
           \A v \in DOMAIN files'.snapshots :
              v \in DOMAIN files.snapshots /\ files'.snapshots[v] = files.snapshots[v]
    PROVE  Snapshots'
<1>1. \A v \in DOMAIN files'.snapshots : v[1] \in Schemas /\ v[2] \in Nat
    BY DEF Snapshots
<1>2. ASSUME NEW v \in DOMAIN files'.snapshots, NEW text, text = files'.snapshots[v]
      PROVE  SnapshotOwned(v, text)'
    <2>1. SnapshotOwned(v, text) /\ v[1] \in Schemas /\ v[2] \in Nat
        BY <1>2, SnapshotsMean
    <2> QED  BY <2>1, SnapshotStays
<1> QED  BY <1>1, <1>2, SnapshotsMeanNext

(* What a worker copies.                                                   *)
LEMMA CopyOwned ==
    ASSUME TypeOK, FilesHold, Versioned, Indexings, Texts, Firsts, Copies,
           NEW t \in Tasks, SaverAt(t, "copying"),
           NEW s, s = saver[t].name, s \in DOMAIN files.bySchema,
           NEW v, v = << s, task[t].version >>, NEW text, text = files.bySchema[s]
    PROVE  v[1] \in Schemas /\ v[2] \in Nat /\ SnapshotOwned(v, text)
<1>1. Saving(t) /\ ~AtPc(t, "idle") /\ s = SchemaOf(t)
    BY DEF SaverAt, Saving, FilesHold, Copies
<1>2. task[t] \in TaskRecord
    BY <1>1, Running
<1>3. s \in Schemas /\ task[t].version \in Nat
    BY <1>1, <1>2 DEF TaskRecord, SchemaOf, Schemas
<1>4. v[1] = s /\ v[2] = task[t].version /\ task[t].version <= versions[s]
    BY <1>1 DEF Versioned
<1>5. Sound(text) /\ OwnFirst(s, text)
    BY DEF Texts, Said, Firsts
<1>6. PICK own : own = OwnTables(text, s)
    OBVIOUS
<1>7. own # {} => OneReport(s, own) /\ text = own
    BY <1>5, <1>6 DEF Sound, OwnFirst
<1>8. ASSUME ~raced, disturbed = {} PROVE OneReport(s, own)
    <2>1. PICK c : c = saver[t].captured
        OBVIOUS
    <2>2. text = SchemaFile(c, s)
        BY <1>8, <2>1 DEF Copies
    <2>3. own = OwnTables(c.tables, s)
        BY <1>6, <2>2, SchemaFileIs
    <2>4. Reads(t)
        BY <1>1, <1>8 DEF Indexings
    <2>5. OneReport(s, OwnTables(c.tables, s))
        BY <1>1, <2>1, <2>4 DEF Reads, SaverAt
    <2> QED  BY <2>3, <2>5
<1> QED  BY <1>3, <1>4, <1>6, <1>7, <1>8 DEF SnapshotOwned

LEMMA SnapshotsCopied ==
    ASSUME TypeOK, FilesHold, Versioned, Indexings, Texts, Firsts, Copies, Snapshots, Lasting,
           NEW t \in Tasks, CopySnapshot(t)
    PROVE  Snapshots'
<1>1. PICK s, w, f, g : /\ s = saver[t].name /\ w = << s, task[t].version >>
                        /\ f = files.snapshots /\ g = files'.snapshots
    OBVIOUS
<1>2. /\ SaverAt(t, "copying") /\ raced' = raced
      /\ \/ s \in DOMAIN files.bySchema /\ g = Written(f, w, files.bySchema[s])
         \/ g = Emptied(f, w)
         \/ g = f
    BY <1>1, Copying DEF Saves
<1>3. CASE g = Emptied(f, w) \/ g = f
    <2>1. \A v \in DOMAIN g : v \in DOMAIN f /\ g[v] = f[v]
        BY <1>3 DEF Emptied
    <2> QED  BY <1>1, <1>2, <2>1, SnapshotsStand
<1>4. CASE s \in DOMAIN files.bySchema /\ g = Written(f, w, files.bySchema[s])
    <2>1. PICK text : text = files.bySchema[s]
        OBVIOUS
    <2>2. w[1] \in Schemas /\ w[2] \in Nat /\ SnapshotOwned(w, text)
        BY <1>1, <1>2, <1>4, <2>1, CopyOwned
    <2>3. /\ DOMAIN g = {w} \cup DOMAIN f /\ g[w] = text
          /\ \A v \in DOMAIN f : v # w => g[v] = f[v]
        BY <1>4, <2>1 DEF Written, Over
    <2>4. ASSUME NEW v \in DOMAIN g, NEW x, x = g[v]
          PROVE  v[1] \in Schemas /\ v[2] \in Nat /\ SnapshotOwned(v, x)
        <3>1. CASE v = w
            BY <2>2, <2>3, <2>4, <3>1
        <3>2. CASE v # w
            <4>1. v \in DOMAIN f /\ x = f[v]
                BY <2>3, <2>4, <3>2
            <4> QED  BY <1>1, <4>1, SnapshotsMean
        <3> QED  BY <3>1, <3>2
    <2>5. ASSUME NEW v \in DOMAIN g, NEW x, x = g[v]
          PROVE  SnapshotOwned(v, x)'
        <3>1. v[1] \in Schemas /\ v[2] \in Nat /\ SnapshotOwned(v, x)
            BY <2>4, <2>5
        <3> QED  BY <1>2, <3>1, SnapshotStays
    <2>6. \A v \in DOMAIN g : v[1] \in Schemas /\ v[2] \in Nat
        BY <2>4
    <2> QED  BY <1>1, <2>5, <2>6, SnapshotsMeanNext
<1> QED  BY <1>2, <1>3, <1>4

LEMMA SnapshotsStep ==
    ASSUME TypeOK, TypeOK', Lined, FilesHold, Versioned, Indexings, Texts, Firsts, Copies, Snapshots,
           Lasting, [Next]_vars
    PROVE  Snapshots'
<1>0. raced => raced'
    BY RacedStays
<1>1. CASE files'.snapshots = files.snapshots
    BY <1>0, <1>1, SnapshotsStand
<1>2. CASE Cleanup
    <2>1. files' = [combined |-> NoFile, bySchema |-> Nothing, snapshots |-> Nothing]
        BY <1>2 DEF Cleanup
    <2>2. DOMAIN files'.snapshots = {}
        BY <2>1 DEF Nothing
    <2> QED  BY <2>2 DEF Snapshots, SnapshotsAreOwned
<1>3. ASSUME NEW t \in Tasks, NEW r \in Reports, Discover(t, r) \/ Initialize(t, r)
      PROVE  Snapshots'
    BY <1>1, <1>3 DEF Discover, Initialize
<1>4. ASSUME NEW t \in Tasks, Work(t)
      PROVE  Snapshots'
    <2>1. CASE CopySnapshot(t)
        BY <2>1, SnapshotsCopied
    <2>2. CASE SaveOpens(t) \/ SaveWrites(t) \/ OpenSchema(t) \/ WriteSchema(t)
        BY <1>1, <2>2, Opening, Writing, OpeningSchema, WritingSchema
    <2>3. CASE \/ ComeToLock(t) \/ Resume(t) \/ Publish(t) \/ FailToEnter(t) \/ FailIndexing(t)
               \/ SaveReads(t) \/ SaveEnds(t) \/ SaveFails(t) \/ Finish(t)
        BY <1>1, <2>3 DEF ComeToLock, Resume, Publish, FailToEnter, FailIndexing, SaveReads,
           SaveEnds, SaveFails, Finish
    <2> QED  BY <1>4, <2>1, <2>2, <2>3 DEF Work
<1>5. CASE Leave \/ Come \/ RestoreBegins \/ RestoreEnds \/ UNCHANGED vars
    BY <1>1, <1>5 DEF Leave, Come, RestoreBegins, RestoreEnds, vars
<1> QED  BY <1>2, <1>3, <1>4, <1>5 DEF Next

-----------------------------------------------------------------------------
LEMMA PartsAtFirst ==
    Init => Parts
<1> SUFFICES ASSUME Init PROVE Parts
    OBVIOUS
<1>1. TypeOK
    BY TypesAtFirst
<1>2. \A t \in Tasks : AtPc(t, "idle") /\ ~Saving(t)
    BY DEF Init, AtPc, IdleTask, Saving, IdleSaver
<1>3. managers = << >> /\ restore = NoRestore /\ \A l \in Lives : ref[l] = None
    BY DEF Init
<1>4. files.combined = NoFile /\ files.bySchema = Nothing /\ files.snapshots = Nothing
    BY DEF Init
<1>5. ManagersHold
    BY <1>3 DEF ManagersHold
<1>6. FilesHold
    BY <1>2, <1>3, <1>4, NoFileIsOne DEF FilesHold
<1>7. Apart /\ Versioned /\ Indexings
    BY <1>2, <1>3 DEF Apart, Versioned, Indexings, AtPc
<1>8. Snapshots /\ Firsts
    BY <1>4 DEF Snapshots, SnapshotsAreOwned, Firsts, Nothing
<1>9. Texts
    <2>1. \A ts \in Said : ts = {}
        BY <1>2, <1>3, <1>4 DEF Said, NoFile, Nothing
    <2> QED  BY <2>1, EmptySound DEF Texts
<1>10. Copies
    BY <1>2 DEF Copies, SaverAt, Saving
<1> QED  BY <1>5, <1>6, <1>7, <1>8, <1>9, <1>10 DEF Parts

LEMMA PartsStep ==
    Inv /\ Parts /\ [Next]_vars => Parts'
<1> SUFFICES ASSUME Inv, Parts, [Next]_vars
             PROVE  Parts'
    OBVIOUS
<1>1. TypeOK /\ TypeOK' /\ Lined /\ Backed
    BY InvStep DEF Inv
<1>2. /\ ManagersHold /\ FilesHold /\ Apart /\ Versioned /\ Indexings
      /\ Texts /\ Firsts /\ Copies /\ Snapshots
    BY DEF Parts
<1>3. Lasting
    BY <1>1, LastingStep
<1>4. ManagersHold'
    BY <1>1, <1>2, ManagersStep
<1>5. FilesHold'
    BY <1>1, <1>2, <1>3, FilesStep
<1>6. Apart'
    BY <1>1, <1>2, ApartStep
<1>7. Versioned'
    BY <1>1, <1>2, <1>3, VersionedStep
<1>8. Indexings'
    BY <1>1, <1>2, <1>3, IndexingsStep
<1>9. Snapshots'
    BY <1>1, <1>2, <1>3, SnapshotsStep
<1>10. Texts'
    BY <1>1, <1>2, <1>3, TextsStep
<1>11. Firsts' /\ Copies'
    BY <1>1, <1>2, <1>3, FirstsStep, CopiesStep
<1> QED  BY <1>4, <1>5, <1>6, <1>7, <1>8, <1>9, <1>10, <1>11 DEF Parts

LEMMA PartsMean ==
    Parts => IndexSurvives
<1> SUFFICES ASSUME Parts PROVE IndexSurvives
    OBVIOUS
<1>1. ASSUME NEW t \in Tasks, task[t].pc = "done", task[t].life \notin disturbed
      PROVE  LET m == managers[ref[task[t].life]]
             IN /\ SchemaOf(t) \in Range(m.names)
                /\ OneReport(SchemaOf(t), OwnTables(Range(m.graph.tables), SchemaOf(t)))
    <2>1. Whole(t)
        BY <1>1 DEF Parts, Indexings, Through, AtPc
    <2> QED  BY <2>1 DEF Whole, Has, TablesIn
<1> QED  BY <1>1 DEF IndexSurvives, FinishedIsIndexed, Parts, Snapshots

(* What an indexing that finished put into the index stays there, whole,   *)
(* unless a restore or a cleanup replaced a manager under it; and every    *)
(* snapshot is of a version of its schema that was opened and never mixes  *)
(* two reports of it, though it is copied from a file that every saver     *)
(* writes, whatever runs beside it, fails, is cancelled or saves late.     *)
THEOREM IndexSurvivesAll ==
    Spec => []IndexSurvives
<1>1. Init => Inv /\ Parts
    BY InvAtFirst, PartsAtFirst
<1>2. Inv /\ Parts /\ [Next]_vars => (Inv /\ Parts)'
    BY InvStep, PartsStep
<1>3. Inv /\ Parts => IndexSurvives
    BY PartsMean
<1> QED  BY <1>1, <1>2, <1>3, PTL DEF Spec
=============================================================================
