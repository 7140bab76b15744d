--------------------------- MODULE OntologyWorkflow ---------------------------
(***************************************************************************)
(* The files of a schema's ontology, the section of metadata.json that     *)
(* names one of them, and the named graphs they are loaded into.           *)
(*                                                                         *)
(* The tools that write an ontology (generate_ontology,                    *)
(* apply_semantic_names, validate_relationship, store_ontology_in_rdf,     *)
(* load_my_ontology) hold the writer lock of the database's runtime, so    *)
(* that one of them runs at a time: tool is that one.  The ontologies that *)
(* AUTO_ONTOLOGY generates after an indexing (handlers/graphrag.py) do not *)
(* take it: bg holds those, of any number.  Every producer writes a file   *)
(* of its family, records it, and only then deletes the older files of the *)
(* family (lifecycle/artifacts.py); a record of it may fail, and the       *)
(* failure is swallowed.                                                   *)
(*                                                                         *)
(* Files are numbered in the order they are written, 0 is none.  What an   *)
(* ontology says is PreparedOntology's subject, and what a validator makes *)
(* of it QueryGate's.  session.ontology_enriched is left out: it chooses   *)
(* the wording of an answer only.                                          *)
(***************************************************************************)
EXTENDS Naturals, FiniteSets

CONSTANTS Sessions, Tasks,
          CallerUris,    \* graph URIs a caller may give: "schema" is none given
          BaseUri,       \* what the background generation's comes to
          KeepVersions,  \* ARTIFACT_KEEP_VERSIONS
          MaxFiles       \* bound: ontologies written

(* schema_graph_uri, a URI the caller gave, and the background's, which is *)
(* ONTOLOGY_BASE_URI and the schema's name: a caller may give that one,    *)
(* and the variable may be set so that it is the schema's.                 *)
Uris == {"schema", "given", "base"}

ASSUME WorkflowAssumption ==
  /\ CallerUris \subseteq Uris /\ BaseUri \in {"schema", "base"}
  /\ KeepVersions \in Nat \ {0}
  /\ MaxFiles \in Nat

VARIABLES family,   \* the family of each file ever written
          files,    \* those still in the workspace
          section,  \* metadata.json: the schema's "ontology" section
          graphs,   \* the RDF store: the file each named graph holds; an upload,
                    \* nothing, or what is left of two loads at once, is 0
          session,  \* the sessions: connected, and their active ontology
          tool,     \* the call that holds the writer lock
          bg,       \* the background generations (plain is history)
          stray,    \* history: the last record failed, or was made beside a
                    \* generation of the file's family
          rewritten \* history: a tool other than a generation wrote since, or a
                    \* call's load met a background generation's

workspace == <<family, files, section, graphs>>
vars == <<workspace, session, tool, bg, stray, rewritten>>

Numbers == 1..MaxFiles
Written == Cardinality({n \in Numbers : family[n] # "none"})

NoSection == [file |-> 0, graph |-> "none", persisted |-> FALSE]
Away == [on |-> FALSE, file |-> 0, loaded |-> FALSE, graph |-> "none"]
Fresh == [Away EXCEPT !.on = TRUE]
NoCall == [pc |-> "idle", kind |-> "none", s |-> "none", uri |-> "none",
           upload |-> FALSE, file |-> 0, previous |-> 0,
           beside |-> FALSE, crossed |-> FALSE]
NoTask == [pc |-> "idle", uri |-> "none", file |-> 0, previous |-> 0,
           plain |-> TRUE]

Init == /\ family = [n \in Numbers |-> "none"] /\ files = {}
        /\ section = NoSection
        /\ graphs = [u \in Uris |-> 0]
        /\ session = [s \in Sessions |-> Fresh]
        /\ tool = NoCall
        /\ bg = [t \in Tasks |-> NoTask]
        /\ stray = FALSE /\ rewritten = FALSE

-----------------------------------------------------------------------------
(* Writing, recording and pruning                                          *)

\* A file of a family, under a name of its own (get_session_safe_filename).
NewFile(f) == /\ Written < MaxFiles
              /\ family' = [family EXCEPT ![Written + 1] = f]
              /\ files' = files \union {Written + 1}

(* prune_superseded_sync: the file just written and the newest of its      *)
(* family besides, keep in all; a protected file is not counted.           *)
Siblings(file, protect) ==
  {n \in files \ ({file} \union protect) : family[n] = family[file]}
Pruned(file, protect) ==
  {n \in Siblings(file, protect) :
     Cardinality({o \in Siblings(file, protect) : o > n}) >= KeepVersions - 1}

\* update_workspace_section, or the exception that is only logged.
Records(entry, beside) ==
  \/ section' = entry /\ stray' = beside
  \/ stray' = TRUE /\ UNCHANGED section

\* Mutant: the lock of the family is not taken.
NoFamilyLock(t) == TRUE

\* artifact_family_lock, between the tasks: a tool's families are its own.
FamilyFree(t) == \A u \in Tasks \ {t} : bg[u].pc = "idle"

Generating == \E t \in Tasks : bg[t].pc # "idle"

Rewrites == {"apply", "validate", "store"}
Rewriting == tool.pc # "idle" /\ tool.kind \in Rewrites

\* A rewriting begins: what a task is about to record may be true no more.
Overlaps == /\ rewritten' = TRUE
            /\ bg' = [t \in Tasks |-> [bg[t] EXCEPT !.plain = bg[t].pc # "record"]]

-----------------------------------------------------------------------------
(* The tools                                                               *)

Begin(s, c) == /\ tool.pc = "idle" /\ session[s].on
               /\ tool' = [c EXCEPT !.s = s]
               /\ IF c.kind \in Rewrites THEN Overlaps
                  ELSE UNCHANGED <<bg, rewritten>>
               /\ UNCHANGED <<workspace, session, stray>>

\* A session that has an ontology gets it named again.
Generate(s) == \E uri \in CallerUris :
  /\ session[s].file = 0
  /\ Begin(s, [NoCall EXCEPT !.pc = "write", !.kind = "generate", !.uri = uri])

\* The session's file, or any that the caller names.
ApplySemanticNames(s) ==
  /\ files # {}
  /\ Begin(s, [NoCall EXCEPT !.pc = "write", !.kind = "apply"])

\* An upload outranks the session's file.
ValidateRelationship(s) ==
  /\ session[s].loaded \/ session[s].file \in files
  /\ Begin(s, [NoCall EXCEPT !.pc = "write", !.kind = "validate",
                             !.upload = session[s].loaded])

StoreOntology(s) == \E uri \in CallerUris :
  /\ session[s].file \in files
  /\ Begin(s, [NoCall EXCEPT !.pc = "load", !.kind = "store", !.uri = uri,
                             !.file = session[s].file])

\* What each makes of the session: its file is the active ontology, ahead of
\* an upload, but a validated upload stays the user's own.
Generated(s) == [Fresh EXCEPT !.file = Written + 1, !.graph = tool.uri]
Renamed(s) == [session[s] EXCEPT !.file = Written + 1, !.loaded = FALSE]
Validated(s) == IF tool.upload THEN session[s]
                ELSE [session[s] EXCEPT !.file = Written + 1]

\* The part of each that writes the file and makes it the session's, with
\* nothing awaited after the write.
Write ==
  LET s == tool.s IN
  /\ tool.pc = "write"
  /\ NewFile(tool.kind)
  /\ tool' = [tool EXCEPT !.pc = "record", !.file = Written + 1,
                          !.previous = session[s].file]
  /\ session' = [session EXCEPT ![s] = CASE tool.kind = "generate" -> Generated(s)
                                          [] tool.kind = "apply" -> Renamed(s)
                                          [] OTHER -> Validated(s)]
  /\ UNCHANGED <<section, graphs, bg, stray, rewritten>>

\* Each one's section: apply names no graph, a validation changes the file
\* alone, and the store names the session's file of that moment.
GeneratedEntry == [file |-> tool.file, persisted |-> FALSE,
                   graph |-> IF tool.uri = "schema" THEN "none" ELSE tool.uri]
RenamedEntry == [file |-> tool.file, persisted |-> FALSE, graph |-> "none"]
ValidatedEntry == [section EXCEPT !.file = tool.file]
StoredEntry == [file |-> session[tool.s].file, persisted |-> TRUE, graph |-> tool.uri]

Entry == CASE tool.kind = "generate" -> GeneratedEntry
           [] tool.kind = "apply" -> RenamedEntry
           [] tool.kind = "validate" -> ValidatedEntry
           [] OTHER -> StoredEntry

Record ==
  /\ tool.pc = "record"
  /\ IF tool.kind = "validate" /\ tool.upload THEN UNCHANGED <<section, stray>>
     ELSE Records(Entry, tool.beside \/ (tool.kind = "store" /\ Generating))
  /\ tool' = IF tool.kind = "store" THEN NoCall
             ELSE IF tool.kind = "validate" /\ tool.upload
             THEN [tool EXCEPT !.pc = "load"] ELSE [tool EXCEPT !.pc = "prune"]
  /\ rewritten' = IF tool.kind = "generate" THEN FALSE
                  ELSE IF tool.kind = "store" /\ ~stray'
                  THEN session[tool.s].file # tool.file ELSE rewritten
  /\ UNCHANGED <<family, files, graphs, session, bg>>

Prune ==
  /\ tool.pc = "prune"
  /\ files' = files \ Pruned(tool.file, {tool.previous})
  /\ tool' = [tool EXCEPT !.pc = IF tool.kind = "generate" THEN "check" ELSE "load",
                          !.previous = 0]
  /\ UNCHANGED <<family, section, graphs, session, bg, stray, rewritten>>

\* ontology_is_current, unless auto_persist is off.
Check ==
  /\ tool.pc = "check"
  /\ \/ section.file \in {0, tool.file} /\ tool' = [tool EXCEPT !.pc = "load"]
     \/ tool' = NoCall
  /\ UNCHANGED <<workspace, session, bg, stray, rewritten>>

\* The graph a tool loads into: the one given, or the session's, or the one
\* recorded, or the schema's.
Target ==
  IF tool.kind \in {"generate", "store"} THEN tool.uri
  ELSE IF session[tool.s].graph # "none" THEN session[tool.s].graph
  ELSE IF tool.kind = "validate" /\ section.graph # "none" THEN section.graph
  ELSE "schema"

\* What the graph may hold after the load: generating and validating load in
\* a thread, and a background generation that loaded the same graph meanwhile
\* may have come before it, after it, or in the middle.
Loaded == LET own == IF tool.upload THEN 0 ELSE tool.file
          IN IF tool.crossed THEN {own, graphs[Target], 0} ELSE {own}

\* The load meets that of a background generation which is not recorded yet,
\* or was recorded while the thread ran.
Meets(t) == bg[t].pc = "record" /\ bg[t].uri = Target
MeetsRecorded == tool.crossed \/ (section.file # tool.file /\ section.graph = Target)

\* load_ontology replaces the graph, or raises and leaves it.
Load ==
  LET next == CASE tool.kind = "generate" -> [tool EXCEPT !.pc = "mark", !.crossed = FALSE]
                [] tool.kind = "store" -> [tool EXCEPT !.pc = "record"]
                [] OTHER -> NoCall
  IN
  /\ tool.pc = "load"
  /\ \/ /\ \E held \in Loaded : graphs' = [graphs EXCEPT ![Target] = held]
        /\ bg' = [t \in Tasks |-> [bg[t] EXCEPT !.plain = bg[t].plain /\ ~Meets(t)]]
        /\ rewritten' = (rewritten \/ MeetsRecorded)
        /\ session' = IF tool.kind = "store" THEN session
                      ELSE [session EXCEPT ![tool.s].graph = Target]
        /\ tool' = next
     \/ tool' = NoCall /\ UNCHANGED <<graphs, session, bg, rewritten>>
  /\ UNCHANGED <<family, files, section, stray>>

\* Mutant: the flag is set on the strength of the check before the load.
CheckedBefore == section.file # 0

\* Whether the section still names the file whose load this is.
StillRecorded == section.file = tool.file

\* mark_ontology_persisted, or its failure.
Mark ==
  /\ tool.pc = "mark"
  /\ tool' = NoCall
  /\ \/ /\ StillRecorded
        /\ section' = [section EXCEPT !.graph = tool.uri, !.persisted = TRUE]
     \/ UNCHANGED section
  /\ UNCHANGED <<family, files, graphs, session, bg, stray, rewritten>>

\* load_my_ontology: to the session if it maps to the database, and to the
\* store; nothing else runs that could tell the two apart.
LoadMyOntology(s) == \E uri \in CallerUris, activated, persist \in BOOLEAN :
  /\ tool.pc = "idle" /\ session[s].on /\ (activated \/ persist)
  /\ session' = IF activated
                THEN [session EXCEPT ![s].loaded = TRUE, ![s].graph = uri] ELSE session
  /\ graphs' = IF persist THEN [graphs EXCEPT ![uri] = 0] ELSE graphs
  /\ Overlaps
  /\ UNCHANGED <<family, files, section, tool, stray>>

ResetCache(s) ==
  /\ tool.pc = "idle" /\ session[s].on /\ session[s] # Fresh
  /\ session' = [session EXCEPT ![s] = Fresh]
  /\ UNCHANGED <<workspace, tool, bg, stray, rewritten>>

-----------------------------------------------------------------------------
(* Ontologies generated in the background                                  *)

\* A call whose load is in a thread: that of a generation or a validation.
InThread == tool.pc = "load" /\ tool.kind \in {"generate", "validate"}

(* After an indexing that session s asked for: the file is written and, if *)
(* the session is still here, made its ontology and loaded, in one stretch *)
(* of the event loop.  A load that fails leaves the URI it was for.        *)
BgWrite(t, s) ==
  LET here == session[s].on IN
  /\ bg[t].pc = "idle" /\ FamilyFree(t)
  /\ \E o \in Sessions : session[o].on
  /\ NewFile("auto")
  /\ \E outcome \in IF here THEN {"loaded", "failed", "no_store"} ELSE {"no_store"} :
       /\ bg' = [bg EXCEPT ![t].pc = "record", ![t].file = Written + 1,
                           ![t].previous = session[s].file,
                           ![t].plain = outcome # "failed" /\ ~Rewriting,
                           ![t].uri = IF outcome = "no_store" THEN "none" ELSE BaseUri]
       /\ graphs' = IF outcome = "loaded" THEN [graphs EXCEPT ![BaseUri] = Written + 1]
                    ELSE graphs
       /\ tool' = IF outcome = "loaded" /\ InThread /\ Target = BaseUri
                  THEN [tool EXCEPT !.crossed = TRUE] ELSE tool
  /\ session' = IF ~here THEN session
                ELSE [session EXCEPT ![s].file = Written + 1,
                        ![s].graph = IF session[s].loaded THEN session[s].graph
                                     ELSE BaseUri]
  /\ UNCHANGED <<section, stray, rewritten>>

BgRecord(t) ==
  /\ bg[t].pc = "record"
  /\ Records([file |-> bg[t].file, graph |-> bg[t].uri,
              persisted |-> bg[t].uri # "none"], FALSE)
  /\ bg' = [bg EXCEPT ![t].pc = "prune", ![t].uri = "none", ![t].plain = TRUE]
  /\ rewritten' = IF stray' THEN rewritten ELSE ~bg[t].plain
  /\ UNCHANGED <<family, files, graphs, session, tool>>

BgPrune(t) ==
  /\ bg[t].pc = "prune"
  /\ files' = files \ Pruned(bg[t].file, {bg[t].previous})
  /\ bg' = [bg EXCEPT ![t] = NoTask]
  /\ tool' = IF tool.kind = "store" THEN [tool EXCEPT !.beside = TRUE] ELSE tool
  /\ UNCHANGED <<family, section, graphs, session, stray, rewritten>>

-----------------------------------------------------------------------------
(* The sessions                                                            *)

\* To another database, or for good.  The last one out stops the tasks first.
Leave(s) ==
  /\ session[s].on /\ tool.s # s
  /\ (\E o \in Sessions \ {s} : session[o].on) \/ ~Generating
  /\ session' = [session EXCEPT ![s] = Away]
  /\ UNCHANGED <<workspace, tool, bg, stray, rewritten>>

\* connect_database and auto_restore_workspace, which hold the writer lock
\* too: the recorded file is the session's if it is there.
Join(s) ==
  /\ ~session[s].on /\ tool.pc = "idle"
  /\ session' = [session EXCEPT ![s] =
                   [Fresh EXCEPT !.file = IF section.file \in files THEN section.file
                                          ELSE 0]]
  /\ UNCHANGED <<workspace, tool, bg, stray, rewritten>>

Next == \/ \E s \in Sessions : \/ Generate(s) \/ ApplySemanticNames(s)
                               \/ ValidateRelationship(s) \/ StoreOntology(s)
                               \/ LoadMyOntology(s) \/ ResetCache(s)
                               \/ Leave(s) \/ Join(s)
        \/ Write \/ Record \/ Prune \/ Check \/ Load \/ Mark
        \/ \E t \in Tasks : \/ \E s \in Sessions : BgWrite(t, s)
                            \/ BgRecord(t) \/ BgPrune(t)

Spec == Init /\ [][Next]_vars

-----------------------------------------------------------------------------
(* The file metadata.json names for the schema is in the workspace, where  *)
(* a restore or another session will look for it, if its record neither    *)
(* failed nor was made by store_ontology_in_rdf beside a generation: a     *)
(* producer records its file before it deletes, and deletes with the       *)
(* family's lock held (artifact_family_lock, prune_superseded_sync).       *)
RecordedFileExists == ~stray /\ section.file # 0 => section.file \in files

\* What the section names, or is about to.
Named(n) == \/ n = section.file
            \/ \E t \in Tasks : bg[t].pc = "record" /\ bg[t].file = n

(* An ontology recorded as persisted is what its graph holds, as long as   *)
(* generations alone have written and no call has loaded a graph that a    *)
(* background generation loaded or recorded meanwhile, whichever           *)
(* overlapped otherwise: a newer one that was recorded during a load keeps *)
(* its own flag and graph (ontology_is_current, mark_ontology_persisted).  *)
GraphIsRecorded ==
  ~stray /\ ~rewritten /\ section.persisted => Named(graphs[section.graph])
=============================================================================
