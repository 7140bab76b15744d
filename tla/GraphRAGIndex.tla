---------------------------- MODULE GraphRAGIndex ----------------------------
(***************************************************************************)
(* The index of one database under concurrency: background tasks started   *)
(* by discover_schema and calls of initialize_graphrag index schemas into  *)
(* a shared manager, embedding in a worker under index_lock, publishing on *)
(* the loop in one step, and saving in a worker after the lock was given   *)
(* up.  Sessions come and go: the last to leave cancels the tasks (a       *)
(* worker that saves goes on), the next gets a new GraphRAGState and       *)
(* restores what was saved.  What a step does to a manager is              *)
(* GraphRAGManager's.                                                      *)
(***************************************************************************)
EXTENDS GraphRAGManager

CONSTANTS
    MaxTasks,       (* bound on the indexings, background or called        *)
    Reports,        (* what they may index                                 *)
    MaxLives,       (* bound on the runtimes that follow each other        *)
    MaxCleanups     (* bound on the calls of cleanup_workspace             *)

(* qualify quotes what could be misread, so that an identity is one        *)
(* table's of one schema.                                                  *)
ASSUME IndexAssumption ==
    /\ MaxTasks \in Nat /\ MaxLives \in Nat \ {0}
    /\ MaxCleanups \in Nat
    /\ Reports \subseteq [schema : Name, tables : SUBSET Table, views : SUBSET Name]
    /\ \A report \in Reports : Discovered(report)
    /\ \A r, q \in Reports : \A t \in r.tables, u \in q.tables :
         Identity(t) = Identity(u) => t.schema = u.schema /\ t.name = u.name

VARIABLES
    life,           (* the runtime whose GraphRAGState sessions share      *)
    held,           (* whether a session holds it                          *)
    ref,            (* graphrag_manager of each state, 0 for None          *)
    flag,           (* graphrag_initialized of each                        *)
    line,           (* index_lock of each: the holder, then who waits      *)
    managers,       (* every manager made                                  *)
    vectors,        (* the collections, by the schema they are named after *)
    versions,       (* the last version opened for each schema             *)
    files,          (* combined, bySchema, snapshots: of the last two the  *)
                    (* ones that can be read                               *)
    sections,       (* schemas with an initialized section, in file order  *)
    task,           (* each task's coroutine                               *)
    saver,          (* and the worker that saves for it                    *)
    restore,        (* a restore under way                                 *)
    cleanups,       (* how many there were                                 *)
    disturbed,      (* ghost: lives whose manager was replaced             *)
    raced           (* ghost: a save read or wrote while another, or a     *)
                    (* publication, came between                           *)

vars == << life, held, ref, flag, line, managers, vectors, versions, files,
           sections, task, saver, restore, cleanups, disturbed, raced >>

Schemas == {r.schema : r \in Reports}
Lives == 1..MaxLives
Tasks == 1..MaxTasks        \* numbered as they start
None == 0
Torn == [NoFile EXCEPT !.names = << NoTable >>]
IdleTask == [pc |-> "idle"]
IdleSaver == [pc |-> "idle"]
NoRestore == [pc |-> "idle"]

Init ==
    /\ life = 1 /\ held = TRUE
    /\ ref = [l \in Lives |-> None]
    /\ flag = [l \in Lives |-> FALSE]
    /\ line = [l \in Lives |-> << >>]
    /\ managers = << >>
    /\ vectors = [s \in Schemas |-> {}]
    /\ versions = [s \in Schemas |-> 0]
    /\ files = [combined |-> NoFile, bySchema |-> Nothing, snapshots |-> Nothing]
    /\ sections = << >>
    /\ task = [t \in Tasks |-> IdleTask]
    /\ saver = [t \in Tasks |-> IdleSaver]
    /\ restore = NoRestore
    /\ cleanups = 0 /\ disturbed = {} /\ raced = FALSE

AtPc(t, pc) == task[t].pc = pc
IsNext(t) == AtPc(t, "idle") /\ \A u \in 1..(t - 1) : ~AtPc(u, "idle")
Saving(t) == saver[t].pc # "idle"
Moved(t, pc) == [task EXCEPT ![t].pc = pc]
SchemaOf(t) == task[t].report.schema

-----------------------------------------------------------------------------
(* Starting.  discover_schema opens a version and starts a task;           *)
(* initialize_graphrag works for the version there is.                     *)

Started(t, report, kind, version) ==
    task' = [task EXCEPT ![t] = [pc |-> "preparing", kind |-> kind, life |-> life,
                                 report |-> report, version |-> version,
                                 accumulate |-> FALSE, manager |-> None]]

Discover(t, report) ==
    /\ held /\ IsNext(t)
    /\ versions' = [versions EXCEPT ![report.schema] = @ + 1]
    /\ Started(t, report, "task", versions[report.schema] + 1)
    /\ UNCHANGED << life, held, ref, flag, line, managers, vectors,
                    files, sections, saver, restore, disturbed, raced,
                    cleanups >>

Initialize(t, report) ==
    /\ held /\ IsNext(t)
    /\ Started(t, report, "call", versions[report.schema])
    /\ UNCHANGED << life, held, ref, flag, line, managers, vectors,
                    versions, files, sections, saver, restore,
                    disturbed, raced, cleanups >>

(* The lock is held: the first to hold it makes the manager, and a worker  *)
(* embeds.                                                                 *)
Entered(t) ==
    LET l == task[t].life
        fresh == ref[l] = None
    IN /\ managers' = (IF fresh THEN Append(managers, NewManager(SchemaOf(t))) ELSE managers)
       /\ ref' = [ref EXCEPT ![l] = IF fresh THEN Len(managers') ELSE @]
       /\ task' = [task EXCEPT ![t].pc = "embedding", ![t].accumulate = ~fresh,
                               ![t].manager = ref'[l]]

(* The tables are converted in a worker, so tasks come to the lock in any  *)
(* order.  A free one is taken without a pause.                            *)
ComeToLock(t) ==
    LET l == task[t].life
    IN /\ AtPc(t, "preparing")
       /\ line' = [line EXCEPT ![l] = Append(@, t)]
       /\ IF line[l] = << >> THEN Entered(t)
          ELSE task' = Moved(t, "waiting") /\ UNCHANGED << managers, ref >>
       /\ UNCHANGED << life, held, flag, vectors, versions, files,
                       sections, saver, restore, disturbed, raced,
                       cleanups >>

Resume(t) ==
    /\ AtPc(t, "waiting") /\ Head(line[task[t].life]) = t
    /\ Entered(t)
    /\ UNCHANGED << life, held, flag, line, vectors, versions, files,
                    sections, saver, restore, disturbed, raced,
                    cleanups >>

Unlocked(t) == [line EXCEPT ![task[t].life] = Tail(@)]

Failed(t) ==
    /\ task' = Moved(t, "failed")
    /\ flag' = [flag EXCEPT ![task[t].life] = @ /\ task[t].kind = "call"]

(* The embeddings are there: _publish_schema, the lock is given up and the *)
(* state's manager of this moment handed to a worker to save, all without  *)
(* a pause.                                                                *)
Publish(t) ==
    LET k == task[t].manager
        m == managers[k]
        l == task[t].life
    IN /\ AtPc(t, "embedding")
       /\ managers' = [managers EXCEPT ![k] = PublishSchema(m, task[t].report, task[t].accumulate)]
       /\ vectors' = [vectors EXCEPT ![m.home] = PublishVectors(m, @, task[t].report, FALSE)]
       /\ line' = Unlocked(t)
       /\ raced' = (raced \/ \E u \in Tasks : Saving(u))
       /\ IF ref[l] = None
          THEN task' = Moved(t, "failed") /\ UNCHANGED saver
          ELSE /\ task' = Moved(t, "saving")
               /\ saver' = [saver EXCEPT ![t] =
                     [pc |-> "reading", manager |-> ref[l], captured |-> NoFile, next |-> 1,
                      name |-> NoSchema]]
       /\ flag' = [flag EXCEPT ![l] = IF task[t].kind = "call" THEN TRUE ELSE @ /\ ref[l] # None]
       /\ UNCHANGED << life, held, ref, versions, files, sections,
                       restore, disturbed, cleanups >>

(* The manager cannot be made: there is none for the next in line.         *)
FailToEnter(t) ==
    /\ \/ AtPc(t, "waiting") /\ Head(line[task[t].life]) = t /\ line' = Unlocked(t)
       \/ AtPc(t, "preparing") /\ line[task[t].life] = << >> /\ UNCHANGED line
    /\ ref[task[t].life] = None
    /\ Failed(t)
    /\ UNCHANGED << life, held, ref, managers, vectors, versions,
                    files, sections, saver, restore, disturbed, raced,
                    cleanups >>

(* Mutant: the lock is kept.                                               *)
FailHoldingLock(t) ==
    LET k == task[t].manager
        dropped == Dropped(managers[k], task[t].report)
    IN /\ AtPc(t, "embedding")
       /\ Failed(t)
       /\ \/ UNCHANGED << managers, vectors >>
          \/ /\ managers' = [managers EXCEPT ![k].graph = RemoveTables(@, dropped)]
             /\ vectors' = [vectors EXCEPT ![managers[k].home] = DeleteTables(@, dropped)]
       /\ UNCHANGED << life, held, ref, line, versions, files, sections, saver,
                       restore, disturbed, raced, cleanups >>

(* The embedding fails, or the vector store does when the graph has        *)
(* already lost the dropped tables.                                        *)
FailIndexing(t) ==
    LET k == task[t].manager
        dropped == Dropped(managers[k], task[t].report)
    IN /\ AtPc(t, "embedding")
       /\ Failed(t)
       /\ line' = Unlocked(t)
       /\ \/ UNCHANGED << managers, vectors >>
          \/ /\ managers' = [managers EXCEPT ![k].graph = RemoveTables(@, dropped)]
             /\ vectors' = [vectors EXCEPT ![managers[k].home] = DeleteTables(@, dropped)]
       /\ UNCHANGED << life, held, ref, versions, files, sections, saver,
                       restore, disturbed, raced, cleanups >>

-----------------------------------------------------------------------------
(* save_state, in its worker.                                              *)

SaverAt(t, pc) == saver[t].pc = pc
(* The list of schemas is the manager's own, read again each time.         *)
LiveNames(t) == managers[saver[t].manager].names

SaveReads(t) ==
    /\ SaverAt(t, "reading")
    /\ saver' = [saver EXCEPT ![t].captured = Captured(managers[saver[t].manager]),
                              ![t].pc = "opening"]
    /\ UNCHANGED << life, held, ref, flag, line, managers, vectors,
                    versions, files, sections, task, restore,
                    disturbed, raced, cleanups >>

SaveOpens(t) ==
    /\ SaverAt(t, "opening")
    /\ files' = [files EXCEPT !.combined = Torn]
    /\ saver' = [saver EXCEPT ![t].pc = "writing"]
    /\ UNCHANGED << life, held, ref, flag, line, managers, vectors,
                    versions, sections, task, restore, disturbed,
                    raced, cleanups >>

(* Two savers in the file at once may leave neither's text, also when the  *)
(* other is done with it since this one opened it.                         *)
SaveWrites(t) ==
    LET others == {u \in Tasks \ {t} : SaverAt(u, "writing")}
        mine == [saver[t].captured EXCEPT !.names = LiveNames(t)]
    IN /\ SaverAt(t, "writing")
       /\ \/ files' = [files EXCEPT !.combined = mine]
          \/ /\ raced /\ (others # {} \/ files.combined \notin {NoFile, Torn})
             /\ files' = [files EXCEPT !.combined = Torn]
       /\ saver' = [saver EXCEPT ![t].pc = "schemas"]
       /\ UNCHANGED << life, held, ref, flag, line, managers, vectors,
                       versions, sections, task, restore, disturbed,
                       raced, cleanups >>

(* A file of that name has this text now, or none that can be read.        *)
Written(texts, name, text) == Over([n \in {name} |-> text], texts)
Emptied(texts, name) == [n \in DOMAIN texts \ {name} |-> texts[n]]

(* The next schema's file is opened, which empties it.                     *)
OpenSchema(t) ==
    LET name == LiveNames(t)[saver[t].next]
    IN /\ SaverAt(t, "schemas") /\ saver[t].next <= Len(LiveNames(t))
       /\ files' = [files EXCEPT !.bySchema = Emptied(@, name)]
       /\ saver' = [saver EXCEPT ![t].name = name, ![t].next = @ + 1, ![t].pc = "schema"]
       /\ UNCHANGED << life, held, ref, flag, line, managers, vectors,
                       versions, sections, task, restore, disturbed,
                       raced, cleanups >>

(* It is written, or spoilt by another saver in it; only of the schema     *)
(* whose version this is follows a snapshot.                               *)
SchemaWritten(t, pc) ==
    LET name == saver[t].name
        others == {u \in Tasks \ {t} : SaverAt(u, "schema") /\ saver[u].name = name}
    IN /\ SaverAt(t, "schema")
       /\ \/ files' = [files EXCEPT
                !.bySchema = Written(@, name, SchemaFile(saver[t].captured, name))]
          \/ /\ others # {} \/ name \in DOMAIN files.bySchema
             /\ files' = [files EXCEPT !.bySchema = Emptied(@, name)]
       /\ saver' = [saver EXCEPT ![t].pc = pc]
       /\ UNCHANGED << life, held, ref, flag, line, managers, vectors,
                       versions, sections, task, restore, disturbed,
                       raced, cleanups >>

(* Mutant: whatever schema was written becomes the version's snapshot.     *)
WriteSchemaAsOwn(t) == SchemaWritten(t, "copying")

WriteSchema(t) ==
    LET snapshot == saver[t].name = SchemaOf(t) /\ task[t].version > 0
    IN SchemaWritten(t, IF snapshot THEN "copying" ELSE "schemas")

(* The file is copied as it is by then, whoever wrote it; a copy may break *)
(* off, or never begin, which is only logged.                              *)
CopySnapshot(t) ==
    LET name == saver[t].name
        snapshot == << name, task[t].version >>
    IN /\ SaverAt(t, "copying")
       /\ \/ /\ name \in DOMAIN files.bySchema
             /\ files' = [files EXCEPT
                            !.snapshots = Written(@, snapshot, files.bySchema[name])]
          \/ files' = [files EXCEPT !.snapshots = Emptied(@, snapshot)]
          \/ UNCHANGED files
       /\ saver' = [saver EXCEPT ![t].pc = "schemas"]
       /\ UNCHANGED << life, held, ref, flag, line, managers, vectors,
                       versions, sections, task, restore, disturbed,
                       raced, cleanups >>

SaveEnds(t) ==
    /\ SaverAt(t, "schemas") /\ saver[t].next > Len(LiveNames(t))
    /\ saver' = [saver EXCEPT ![t] = IdleSaver]
    /\ task' = IF AtPc(t, "saving") THEN Moved(t, "saved") ELSE task
    /\ UNCHANGED << life, held, ref, flag, line, managers, vectors,
                    versions, files, sections, restore, disturbed,
                    raced, cleanups >>

(* Mutant: the task is not told.                                           *)
SaveFailsUnheard(t) ==
    /\ Saving(t)
    /\ saver' = [saver EXCEPT ![t] = IdleSaver]
    /\ task' = IF AtPc(t, "saving") THEN Moved(t, "saved") ELSE task
    /\ UNCHANGED << life, held, ref, flag, line, managers, vectors,
                    versions, files, sections, restore, disturbed,
                    raced, cleanups >>

(* A file cannot be written.  A call has said it is initialized already;   *)
(* a cancelled task hears nothing.                                         *)
SaveFails(t) ==
    /\ Saving(t)
    /\ saver' = [saver EXCEPT ![t] = IdleSaver]
    /\ IF AtPc(t, "saving") THEN Failed(t) ELSE UNCHANGED << task, flag >>
    /\ UNCHANGED << life, held, ref, line, managers, vectors,
                    versions, files, sections, restore, disturbed,
                    raced, cleanups >>

(* The version is recorded, the flag set, the section written.             *)
Finish(t) ==
    LET l == task[t].life
    IN /\ AtPc(t, "saved")
       /\ IF ref[l] = None
          THEN Failed(t) /\ UNCHANGED sections
          ELSE /\ task' = Moved(t, "done")
               /\ flag' = [flag EXCEPT ![l] = @ \/ task[t].kind = "task"]
               /\ sections' = IF SchemaOf(t) \in Range(sections) THEN sections
                              ELSE Append(sections, SchemaOf(t))
       /\ UNCHANGED << life, held, ref, line, managers, vectors,
                       versions, files, saver, restore, disturbed, raced,
                       cleanups >>

-----------------------------------------------------------------------------
(* Sessions.                                                               *)

(* Some of the places 1..n, all of them and the least first.               *)
InOrder(places, n) ==
    {at \in UNION {[1..k -> places] : k \in 0..n} :
        /\ \A i, j \in DOMAIN at : i < j => at[i] < at[j]
        /\ \A p \in places : \E i \in DOMAIN at : at[i] = p}

(* The last session leaves: tasks are cancelled where they wait.  A worker *)
(* that saves goes on, one that embeds has nothing to publish to.          *)
Leave ==
    LET ended == {t \in Tasks : /\ task[t].pc \notin {"idle", "failed", "done"}
                                /\ task[t].kind = "task"}
        places == {i \in DOMAIN line[life] : line[life][i] \notin ended}
    IN /\ held /\ held' = FALSE
       /\ task' = [t \in Tasks |-> IF t \in ended THEN [task[t] EXCEPT !.pc = "failed"]
                                   ELSE task[t]]
       /\ \E at \in InOrder(places, Len(line[life])) :
            line' = [line EXCEPT ![life] = [i \in DOMAIN at |-> @[at[i]]]]
       /\ UNCHANGED << life, ref, flag, managers, vectors, versions,
                       files, sections, saver, restore, disturbed, raced,
                       cleanups >>

Come ==
    /\ ~held /\ life < MaxLives
    /\ life' = life + 1 /\ held' = TRUE
    /\ UNCHANGED << ref, flag, line, managers, vectors, versions,
                    files, sections, task, saver, restore, disturbed,
                    raced, cleanups >>

(* connect_database restores the workspace unless the index is there.      *)
RestoreBegins ==
    /\ held /\ restore.pc = "idle" /\ ~flag[life] /\ sections # << >>
    /\ restore' = [pc |-> "loading", life |-> life, manager |-> NewManager(Head(sections))]
    /\ UNCHANGED << life, held, ref, flag, line, managers, vectors,
                    versions, files, sections, task, saver, disturbed,
                    raced, cleanups >>

(* What a torn file leaves to read is nothing: load_state answers False.   *)
Loaded ==
    LoadState(restore.manager,
              IF files.combined = Torn
              THEN [files EXCEPT !.combined = NoFile, !.bySchema = Nothing]
              ELSE files)

(* Mutant: its answer is not heard.                                        *)
RestoreEndsAnyhow ==
    LET loaded == Loaded
        l == restore.life
    IN /\ restore.pc = "loading"
       /\ restore' = NoRestore
       /\ managers' = Append(managers, loaded)
       /\ ref' = [ref EXCEPT ![l] = Len(managers')]
       /\ flag' = [flag EXCEPT ![l] = TRUE]
       /\ disturbed' = disturbed \cup (IF ref[l] = None THEN {} ELSE {l})
       /\ UNCHANGED << life, held, line, vectors, versions, files,
                       sections, task, saver, raced, cleanups >>

RestoreEnds ==
    LET loaded == Loaded
        l == restore.life
    IN /\ restore.pc = "loading"
       /\ restore' = NoRestore
       /\ IF loaded.ready
          THEN /\ managers' = Append(managers, loaded)
               /\ ref' = [ref EXCEPT ![l] = Len(managers')]
               /\ flag' = [flag EXCEPT ![l] = TRUE]
               /\ disturbed' = disturbed \cup (IF ref[l] = None THEN {} ELSE {l})
          ELSE UNCHANGED << managers, ref, flag, disturbed >>
       /\ UNCHANGED << life, held, line, vectors, versions, files,
                       sections, task, saver, raced, cleanups >>

(* cleanup_workspace: the files are gone, then the state is cleared.       *)
Cleanup ==
    /\ held /\ cleanups < MaxCleanups
    /\ cleanups' = cleanups + 1
    /\ files' = [combined |-> NoFile, bySchema |-> Nothing, snapshots |-> Nothing]
    /\ vectors' = [s \in Schemas |-> {}]
    /\ sections' = << >>
    /\ ref' = [ref EXCEPT ![life] = None]
    /\ flag' = [flag EXCEPT ![life] = FALSE]
    /\ disturbed' = disturbed \cup {life}
    /\ UNCHANGED << life, held, line, managers, versions, task, saver,
                    restore, raced >>

Work(t) ==
    \/ ComeToLock(t) \/ Resume(t) \/ Publish(t) \/ FailToEnter(t) \/ FailIndexing(t)
    \/ SaveReads(t) \/ SaveOpens(t) \/ SaveWrites(t) \/ OpenSchema(t) \/ WriteSchema(t)
    \/ CopySnapshot(t) \/ SaveEnds(t) \/ SaveFails(t) \/ Finish(t)

Next ==
    \/ \E t \in Tasks, r \in Reports : Discover(t, r) \/ Initialize(t, r)
    \/ \E t \in Tasks : Work(t)
    \/ Leave \/ Come \/ RestoreBegins \/ RestoreEnds \/ Cleanup

Spec == Init /\ [][Next]_vars

-----------------------------------------------------------------------------
(* Whoever reads the flag finds an index: it is not set over a manager     *)
(* that is missing or empty, and an indexing that failed has left it as it *)
(* was or cleared it.                                                      *)
FlagMeansReady ==
    \A l \in Lives \ disturbed : flag[l] => ref[l] # None /\ managers[ref[l]].ready

(* What a schema has in the graph is one report of it, less the tables     *)
(* that a publication which broke off took away: those its own report      *)
(* does not have.                                                          *)
OneReport(schema, tables) ==
    \E r \in {x \in Reports : x.schema = schema} :
       /\ tables \subseteq r.tables
       /\ \A x \in r.tables \ tables : \E t \in Tasks :
            /\ AtPc(t, "failed") /\ SchemaOf(t) = schema
            /\ Identity(x) \notin {Identity(y) : y \in task[t].report.tables}

OwnTables(tables, schema) == {x \in tables : x.schema = schema}

FinishedIsIndexed ==
    \A t \in Tasks :
       (task[t].pc = "done" /\ task[t].life \notin disturbed) =>
         LET m == managers[ref[task[t].life]]
         IN /\ SchemaOf(t) \in Range(m.names)
            /\ OneReport(SchemaOf(t), OwnTables(Range(m.graph.tables), SchemaOf(t)))

(* A snapshot belongs to a version of its schema that was opened.  It is a *)
(* copy of a file that other savers write too: what it has of its schema   *)
(* is one report all the same, and nothing else is beside it.  One without *)
(* its schema is someone's who read the manager before the schema was      *)
(* published, and no saver's that nothing overlapped.                      *)
SnapshotsAreOwned ==
    \A v \in DOMAIN files.snapshots :
       LET own == OwnTables(files.snapshots[v], v[1])
       IN /\ v[2] <= versions[v[1]]
          /\ own # {} => OneReport(v[1], own) /\ files.snapshots[v] = own
          /\ ~raced /\ disturbed = {} => OneReport(v[1], own)

(* Saves that did not overlap another save or a publication leave the      *)
(* index as it is, whole.                                                  *)
SavedIsCurrent ==
    (/\ ~raced /\ disturbed = {} /\ ref[life] # None /\ managers[ref[life]].ready
     /\ \A t \in Tasks : task[t].pc = "idle" \/ (task[t].pc = "done" /\ task[t].life = life)) =>
      files.combined = Captured(managers[ref[life]])

(* What the server says of the index is so: the flag stands for an index   *)
(* that can be asked, and the saved file for the one that was saved.       *)
IndexIsAsSaid == FlagMeansReady /\ SavedIsCurrent

(* index_lock is handed on whether its holder publishes, fails or is       *)
(* cancelled: who heads a line embeds in it or is about to.                *)
LockIsHandedOn ==
    \A l \in Lives : line[l] # << >> =>
       /\ task[Head(line[l])].life = l /\ task[Head(line[l])].pc \in {"embedding", "waiting"}
       /\ \A i \in 2..Len(line[l]) : AtPc(line[l][i], "waiting")

(* What finished is in the index, whole, as long as nothing replaced a     *)
(* manager that was being indexed into, and snapshots are of versions that *)
(* were opened and never of two reports, through failures, cancellations,  *)
(* late savers and restores (the saves after index_lock, whose files every *)
(* saver writes; the flag cleared by a failed task).                       *)
IndexSurvives == FinishedIsIndexed /\ SnapshotsAreOwned

(* A snapshot has its schema's tables, whichever saver's file was copied.  *)
SnapshotHasItsSchema ==
    disturbed = {} =>
      \A v \in DOMAIN files.snapshots : OneReport(v[1], OwnTables(files.snapshots[v], v[1]))

(* A version's snapshot is of the report its discovery made: a rediscovery *)
(* while the task runs does not capture its output (the docstrings of      *)
(* _save_graphrag_state and _auto_initialize_graphrag_background).         *)
SnapshotOfItsGeneration ==
    \A t \in Tasks :
       LET v == << SchemaOf(t), task[t].version >>
       IN (task[t].pc = "done" /\ task[t].kind = "task" /\ v \in DOMAIN files.snapshots) =>
            files.snapshots[v] = task[t].report.tables

(* When everything is saved, the saved index has every schema.             *)
SavedHasEverySchema ==
    (\A t \in Tasks : task[t].pc \in {"idle", "done"}) =>
      \A t \in Tasks : task[t].pc = "done" /\ disturbed = {} =>
        \E x \in files.combined.tables : x.schema = SchemaOf(t)

(* A restored index can be searched.                                       *)
RestoredIsSearchable ==
    \A l \in Lives : (flag[l] /\ disturbed = {}) =>
       LET m == managers[ref[l]]
       IN {TableElement(t) : t \in Range(m.graph.tables)} \subseteq vectors[m.home]
=============================================================================
