----------------------- MODULE OntologyWorkflow_proofs -----------------------
(***************************************************************************)
(* Theorems about OntologyWorkflow, for any number of sessions, background *)
(* generations and files, and any number of files kept.                    *)
(*                                                                         *)
(* That the recorded file exists is a matter of who deletes: a producer    *)
(* deletes files of its own family only, after it has recorded its own.    *)
(* Hence a file on record when a producer deletes is its own, or of a      *)
(* family that it leaves alone (ToolPruning, BgPruning), as long as what   *)
(* is about to be recorded is there (ToolOwns, BgOwns, StoreReads).        *)
(***************************************************************************)
EXTENDS OntologyWorkflow, FiniteSetTheorems, TLAPS

Writers == {"generate", "apply", "validate"}
FileNumbers == 0..MaxFiles

Calls == [pc : {"idle", "write", "load", "record", "prune", "check", "mark"},
          kind : Writers \union {"store", "none"}, s : Sessions \union {"none"},
          uri : CallerUris \union {"none"}, upload : BOOLEAN,
          file : FileNumbers, previous : FileNumbers, beside : BOOLEAN,
          crossed : BOOLEAN]

TaskStates == [pc : {"idle", "record", "prune"}, uri : {"none", BaseUri},
               file : FileNumbers, previous : FileNumbers, plain : BOOLEAN]

SessionStates == [on : BOOLEAN, file : FileNumbers, loaded : BOOLEAN,
                  graph : Uris \union {"none"}]

WorkflowTypeOK ==
  /\ family \in [Numbers -> Writers \union {"auto", "none"}]
  /\ files \subseteq {n \in Numbers : family[n] # "none"}
  /\ section \in [file : FileNumbers, graph : Uris \union {"none"}, persisted : BOOLEAN]
  /\ session \in [Sessions -> SessionStates]
  /\ tool \in Calls
  /\ bg \in [Tasks -> TaskStates]
  /\ stray \in BOOLEAN

\* Files are numbered without gaps.
Numbered == \E k \in FileNumbers : \A n \in Numbers : family[n] # "none" <=> n <= k

\* The call at work, and what it has written.
ToolReady ==
  /\ tool.pc # "idle" => tool.s \in Sessions
  /\ tool.pc \in {"write", "prune"} => tool.kind \in Writers
  /\ tool.pc = "record" => tool.kind \in Writers \union {"store"}
  /\ tool.pc \in {"check", "mark"} => tool.kind = "generate"
  /\ tool.pc = "load" => tool.kind \in Writers \union {"store"}
  /\ tool.kind # "store" => tool.beside = FALSE
  /\ tool.kind # "validate" => tool.upload = FALSE

ToolOwns ==
  tool.pc \in {"record", "prune"} /\ tool.kind # "store" =>
    tool.file \in files /\ family[tool.file] = tool.kind

\* Until a generation deletes beside it, the store's file is there.
StoreReads ==
  tool.pc \in {"load", "record"} /\ tool.kind = "store" /\ tool.beside = FALSE =>
    session[tool.s].file \in files

BgOwns == \A t \in Tasks :
  bg[t].pc # "idle" => bg[t].file \in files /\ family[bg[t].file] = "auto"

OneTask == \A t, u \in Tasks : bg[t].pc # "idle" /\ bg[u].pc # "idle" => t = u

RecordedBy(f) == section.file \in Numbers /\ family[section.file] \in f

ToolPruning ==
  tool.pc = "prune" /\ stray = FALSE => section.file = tool.file \/ RecordedBy({"auto"})

BgPruning == \A t \in Tasks :
  bg[t].pc = "prune" /\ stray = FALSE => section.file = bg[t].file \/ RecordedBy(Writers)

Recorded == stray = FALSE /\ section.file # 0 => section.file \in files

WorkflowInv ==
  /\ WorkflowTypeOK /\ Numbered /\ ToolReady /\ ToolOwns /\ StoreReads
  /\ BgOwns /\ OneTask /\ ToolPruning /\ BgPruning /\ Recorded

-----------------------------------------------------------------------------
(* Files.                                                                  *)

(* A new file has a number of its own, and the others keep their families. *)
LEMMA NewFileFresh ==
  ASSUME WorkflowAssumption, WorkflowTypeOK, Numbered,
         NEW f \in Writers \union {"auto"}, NewFile(f)
  PROVE  /\ Written + 1 \in Numbers
         /\ family' \in [Numbers -> Writers \union {"auto", "none"}]
         /\ files' \subseteq {n \in Numbers : family'[n] # "none"}
         /\ Numbered'
         /\ Written + 1 \in files' /\ files \subseteq files'
         /\ family'[Written + 1] = f
         /\ \A n \in Numbers : family[n] # "none" => family'[n] = family[n]
<1>1. PICK k \in FileNumbers : \A n \in Numbers : family[n] # "none" <=> n <= k
  BY DEF Numbered
<1>2. k \in Nat /\ MaxFiles \in Nat
  BY DEF FileNumbers, WorkflowAssumption
<1>3. {n \in Numbers : family[n] # "none"} = 1..k
  BY <1>1, <1>2 DEF Numbers, FileNumbers
<1>4. Written = k
  <2>1. Cardinality(1..k) = k
    BY <1>2, FS_Interval
  <2> QED  BY <1>3, <2>1 DEF Written
<1>5. /\ k < MaxFiles /\ family' = [family EXCEPT ![k + 1] = f]
      /\ files' = files \union {k + 1}
  BY <1>4 DEF NewFile
<1>6. k + 1 \in Numbers /\ family[k + 1] = "none"
  BY <1>1, <1>2, <1>5 DEF Numbers
<1>7. \A n \in Numbers : family'[n] = IF n = k + 1 THEN f ELSE family[n]
  BY <1>5 DEF WorkflowTypeOK
<1>8. f # "none"
  BY DEF Writers
<1>9. family' \in [Numbers -> Writers \union {"auto", "none"}]
  BY <1>5, <1>6 DEF WorkflowTypeOK
<1>10. files' \subseteq {n \in Numbers : family'[n] # "none"}
  BY <1>5, <1>6, <1>7, <1>8 DEF WorkflowTypeOK
<1>11. Numbered'
  <2>1. k + 1 \in FileNumbers
    BY <1>2, <1>5 DEF FileNumbers
  <2>2. \A n \in Numbers : family'[n] # "none" <=> n <= k + 1
    BY <1>1, <1>2, <1>7, <1>8 DEF Numbers
  <2> QED  BY <2>1, <2>2 DEF Numbered, Numbers, FileNumbers
<1> QED  BY <1>4, <1>5, <1>6, <1>7, <1>9, <1>10, <1>11

(* Only files of the same family are deleted, and never the new one.       *)
LEMMA PrunedAreSiblings ==
  ASSUME NEW file, NEW protect
  PROVE  \A n \in Pruned(file, protect) : n # file /\ family[n] = family[file]
BY DEF Pruned, Siblings

\* The generations in the background are where they were.
SameTasks == /\ bg' \in [Tasks -> TaskStates]
             /\ \A t \in Tasks : bg'[t].pc = bg[t].pc /\ bg'[t].file = bg[t].file

(* What does not touch files, the section or the background, or only what  *)
(* is said of it, may change the call at work and the sessions.            *)
LEMMA ToolMoves ==
  ASSUME WorkflowInv, UNCHANGED <<family, files, section, stray>>, SameTasks,
         session' \in [Sessions -> SessionStates], tool' \in Calls,
         ToolReady', ToolOwns', StoreReads', ToolPruning'
  PROVE  WorkflowInv'
<1>1. WorkflowTypeOK' /\ Numbered' /\ Recorded'
  BY DEF SameTasks, WorkflowInv, WorkflowTypeOK, Numbered, Recorded
<1>2. BgOwns' /\ OneTask' /\ BgPruning'
  BY DEF SameTasks, WorkflowInv, BgOwns, OneTask, BgPruning, RecordedBy
<1> QED  BY <1>1, <1>2 DEF WorkflowInv

(* A background that does not change is where it was.                      *)
LEMMA TasksStay ==
  ASSUME WorkflowInv, UNCHANGED bg
  PROVE  SameTasks
BY DEF SameTasks, WorkflowInv, WorkflowTypeOK

(* A session without an ontology.                                          *)
LEMMA FreshTyped ==
  ASSUME WorkflowAssumption
  PROVE  Fresh \in SessionStates /\ Away \in SessionStates
<1>1. 0 \in FileNumbers
  BY DEF FileNumbers, WorkflowAssumption
<1> QED  BY <1>1 DEF Fresh, Away, SessionStates

(* A call that neither has a file nor reads one.                           *)
LEMMA IdleTool ==
  ASSUME WorkflowAssumption
  PROVE  /\ NoCall \in Calls /\ NoCall.pc = "idle" /\ NoCall.kind = "none"
         /\ NoCall.beside = FALSE /\ NoCall.upload = FALSE
BY DEF NoCall, Calls, FileNumbers, WorkflowAssumption

-----------------------------------------------------------------------------

LEMMA WorkflowInit ==
  ASSUME WorkflowAssumption, Init
  PROVE  WorkflowInv
<1>1. 0 \in FileNumbers
  BY DEF FileNumbers, WorkflowAssumption
<1>2. NoTask \in TaskStates /\ NoTask.pc = "idle" /\ Fresh \in SessionStates
  BY <1>1, FreshTyped DEF NoTask, TaskStates
<1>3. NoSection \in [file : FileNumbers, graph : Uris \union {"none"}, persisted : BOOLEAN]
  BY <1>1 DEF NoSection
<1>4. WorkflowTypeOK
  BY <1>2, <1>3, IdleTool DEF Init, WorkflowTypeOK
<1>5. \A n \in Numbers : family[n] # "none" <=> n <= 0
  BY DEF Init, Numbers
<1>6. Numbered
  BY <1>1, <1>5 DEF Numbered
<1>7. section.file = 0
  BY DEF Init, NoSection
<1>8. tool = NoCall /\ \A t \in Tasks : bg[t].pc = "idle"
  BY <1>2 DEF Init
<1> QED  BY <1>4, <1>6, <1>7, <1>8, IdleTool
         DEF WorkflowInv, ToolReady, ToolOwns, StoreReads, BgOwns, OneTask, ToolPruning,
             BgPruning, Recorded

(* A tool that rewrites an ontology beside a generation leaves a mark.     *)
LEMMA OverlapsMarks ==
  ASSUME WorkflowInv, Overlaps \/ UNCHANGED <<bg, rewritten>>
  PROVE  /\ bg' \in [Tasks -> TaskStates]
         /\ \A t \in Tasks : bg'[t].pc = bg[t].pc /\ bg'[t].file = bg[t].file
<1>1. \/ bg' = bg
      \/ bg' = [t \in Tasks |-> [bg[t] EXCEPT !.plain = bg[t].pc # "record"]]
  BY DEF Overlaps
<1>2. ASSUME NEW t \in Tasks, NEW p \in BOOLEAN, bg'[t] = [bg[t] EXCEPT !.plain = p]
      PROVE  /\ bg'[t] \in TaskStates
             /\ bg'[t].pc = bg[t].pc /\ bg'[t].file = bg[t].file
  BY <1>2 DEF WorkflowInv, WorkflowTypeOK, TaskStates
<1>3. \A t \in Tasks : (bg[t].pc # "record") \in BOOLEAN
  OBVIOUS
<1> QED  BY <1>1, <1>2, <1>3 DEF WorkflowInv, WorkflowTypeOK

(* Sessions come, go and change their ontology, but not under a call.      *)
LEMMA SessionsMove ==
  ASSUME WorkflowInv, UNCHANGED <<family, files, section, stray, tool>>,
         Overlaps \/ UNCHANGED <<bg, rewritten>>,
         session' \in [Sessions -> SessionStates],
         tool.pc = "idle" \/ session'[tool.s].file = session[tool.s].file
  PROVE  WorkflowInv'
<1>1. /\ bg' \in [Tasks -> TaskStates]
      /\ \A t \in Tasks : bg'[t].pc = bg[t].pc /\ bg'[t].file = bg[t].file
  BY OverlapsMarks
<1>2. StoreReads'
  BY DEF WorkflowInv, StoreReads
<1>3. WorkflowTypeOK' /\ Numbered' /\ ToolReady' /\ ToolOwns' /\ ToolPruning'
  BY <1>1 DEF WorkflowInv, WorkflowTypeOK, Numbered, ToolReady, ToolOwns, ToolPruning, RecordedBy
<1>4. BgOwns' /\ OneTask' /\ BgPruning' /\ Recorded'
  BY <1>1 DEF WorkflowInv, BgOwns, OneTask, BgPruning, RecordedBy, Recorded
<1> QED  BY <1>2, <1>3, <1>4 DEF WorkflowInv

(* A call begins with no file of its own; a store, with one that is there. *)
LEMMA BeginKeeps ==
  ASSUME WorkflowAssumption, WorkflowInv, NEW s \in Sessions, NEW c \in Calls, Begin(s, c),
         c.beside = FALSE, c.kind # "validate" => c.upload = FALSE,
         \/ c.pc = "write" /\ c.kind \in Writers
         \/ c.pc = "load" /\ c.kind = "store" /\ session[s].file \in files
  PROVE  WorkflowInv'
<1>1. UNCHANGED <<family, files, section, session, stray>>
  BY DEF Begin, workspace
<1>2. /\ tool' \in Calls /\ tool'.pc = c.pc /\ tool'.kind = c.kind
      /\ tool'.s = s /\ tool'.beside = FALSE /\ tool'.upload = c.upload
  BY DEF Begin, Calls
<1>3. /\ bg' \in [Tasks -> TaskStates]
      /\ \A t \in Tasks : bg'[t].pc = bg[t].pc /\ bg'[t].file = bg[t].file
  BY OverlapsMarks DEF Begin
<1>4. WorkflowTypeOK'
  BY <1>1, <1>2, <1>3 DEF WorkflowInv, WorkflowTypeOK
<1>5. ToolReady' /\ ToolOwns' /\ StoreReads' /\ ToolPruning'
  BY <1>1, <1>2 DEF ToolReady, ToolOwns, StoreReads, ToolPruning, Writers
<1>6. Numbered' /\ BgOwns' /\ OneTask' /\ BgPruning' /\ Recorded'
  BY <1>1, <1>3 DEF WorkflowInv, Numbered, BgOwns, OneTask, BgPruning, Recorded, RecordedBy
<1> QED  BY <1>4, <1>5, <1>6 DEF WorkflowInv

LEMMA CallsBegin ==
  ASSUME WorkflowAssumption, WorkflowInv, NEW s \in Sessions,
         \/ Generate(s) \/ ApplySemanticNames(s) \/ ValidateRelationship(s)
         \/ StoreOntology(s)
  PROVE  WorkflowInv'
<1>1. /\ session[s] \in SessionStates /\ session[s].loaded \in BOOLEAN
      /\ session[s].file \in FileNumbers
  BY DEF WorkflowInv, WorkflowTypeOK, SessionStates
<1>2. ASSUME Generate(s) PROVE WorkflowInv'
  <2>1. PICK uri \in CallerUris :
           Begin(s, [NoCall EXCEPT !.pc = "write", !.kind = "generate", !.uri = uri])
    BY <1>2 DEF Generate
  <2> DEFINE c == [NoCall EXCEPT !.pc = "write", !.kind = "generate", !.uri = uri]
  <2>2. /\ c \in Calls /\ c.pc = "write" /\ c.kind \in Writers /\ c.beside = FALSE
        /\ (c.kind # "validate" => c.upload = FALSE)
    BY IdleTool DEF Calls, Writers
  <2> HIDE DEF c
  <2>3. Begin(s, c)
    BY <2>1 DEF c
  <2> QED  BY <2>2, <2>3, BeginKeeps
<1>3. ASSUME ApplySemanticNames(s) PROVE WorkflowInv'
  <2> DEFINE c == [NoCall EXCEPT !.pc = "write", !.kind = "apply"]
  <2>1. Begin(s, c)
    BY <1>3 DEF ApplySemanticNames
  <2>2. /\ c \in Calls /\ c.pc = "write" /\ c.kind \in Writers /\ c.beside = FALSE
        /\ (c.kind # "validate" => c.upload = FALSE)
    BY IdleTool DEF Calls, Writers
  <2> HIDE DEF c
  <2> QED  BY <2>1, <2>2, BeginKeeps
<1>4. ASSUME ValidateRelationship(s) PROVE WorkflowInv'
  <2> DEFINE c == [NoCall EXCEPT !.pc = "write", !.kind = "validate",
                                 !.upload = session[s].loaded]
  <2>1. Begin(s, c)
    BY <1>4 DEF ValidateRelationship
  <2>2. /\ c \in Calls /\ c.pc = "write" /\ c.kind \in Writers /\ c.beside = FALSE
        /\ (c.kind # "validate" => c.upload = FALSE)
    BY <1>1, IdleTool DEF Calls, Writers
  <2> HIDE DEF c
  <2> QED  BY <2>1, <2>2, BeginKeeps
<1>5. ASSUME StoreOntology(s) PROVE WorkflowInv'
  <2>1. PICK uri \in CallerUris :
          /\ session[s].file \in files
          /\ Begin(s, [NoCall EXCEPT !.pc = "load", !.kind = "store", !.uri = uri,
                                     !.file = session[s].file])
    BY <1>5 DEF StoreOntology
  <2> DEFINE c == [NoCall EXCEPT !.pc = "load", !.kind = "store", !.uri = uri,
                                 !.file = session[s].file]
  <2>2. /\ c \in Calls /\ c.pc = "load" /\ c.kind = "store" /\ c.beside = FALSE
        /\ c.upload = FALSE
    BY <1>1, IdleTool DEF Calls, Writers
  <2> HIDE DEF c
  <2>3. Begin(s, c)
    BY <2>1 DEF c
  <2> QED  BY <2>1, <2>2, <2>3, BeginKeeps
<1> QED  BY <1>2, <1>3, <1>4, <1>5

(* The session a call works for, with a file of the call's.                *)
LEMMA SessionsTyped ==
  ASSUME WorkflowAssumption, WorkflowInv, tool.s \in Sessions, Written + 1 \in Numbers
  PROVE  /\ Generated(tool.s) \in SessionStates
         /\ Renamed(tool.s) \in SessionStates
         /\ Validated(tool.s) \in SessionStates
<1>1. session[tool.s] \in SessionStates /\ Written + 1 \in FileNumbers
  BY DEF WorkflowInv, WorkflowTypeOK, Numbers, FileNumbers, WorkflowAssumption
<1>2. Fresh \in SessionStates
  BY FreshTyped
<1>3. tool.uri \in Uris \union {"none"}
  BY DEF WorkflowInv, WorkflowTypeOK, Calls, Uris, WorkflowAssumption
<1> QED  BY <1>1, <1>2, <1>3 DEF Generated, Renamed, Validated, SessionStates

LEMMA WriteKeeps ==
  ASSUME WorkflowAssumption, WorkflowInv, Write
  PROVE  WorkflowInv'
<1>1. /\ tool.kind \in Writers /\ tool.s \in Sessions /\ tool.beside = FALSE
      /\ tool \in Calls
  BY DEF WorkflowInv, ToolReady, Write, WorkflowTypeOK, Writers
<1>2. /\ Written + 1 \in Numbers
      /\ family' \in [Numbers -> Writers \union {"auto", "none"}]
      /\ files' \subseteq {n \in Numbers : family'[n] # "none"}
      /\ Numbered'
      /\ Written + 1 \in files' /\ files \subseteq files'
      /\ family'[Written + 1] = tool.kind
      /\ \A n \in Numbers : family[n] # "none" => family'[n] = family[n]
  BY <1>1, NewFileFresh DEF Write, WorkflowInv
<1>3. Written + 1 \in FileNumbers /\ session[tool.s].file \in FileNumbers
  BY <1>1, <1>2
     DEF Numbers, FileNumbers, WorkflowAssumption, WorkflowInv, WorkflowTypeOK, SessionStates
<1>4. tool' = [tool EXCEPT !.pc = "record", !.file = Written + 1,
                           !.previous = session[tool.s].file]
  BY DEF Write
<1>5. /\ tool' \in Calls /\ tool'.pc = "record" /\ tool'.kind = tool.kind
      /\ tool'.s = tool.s /\ tool'.file = Written + 1 /\ tool'.beside = FALSE
      /\ tool'.upload = tool.upload
  BY <1>1, <1>3, <1>4 DEF Calls
<1>6. session' \in [Sessions -> SessionStates]
  <2>1. \E x \in SessionStates : session' = [session EXCEPT ![tool.s] = x]
    BY <1>1, <1>2, SessionsTyped DEF Write
  <2> QED  BY <2>1, ZenonT(60) DEF WorkflowInv, WorkflowTypeOK
<1>7. UNCHANGED <<section, bg, stray>>
  BY DEF Write
<1>8. WorkflowTypeOK'
  BY <1>2, <1>5, <1>6, <1>7 DEF WorkflowInv, WorkflowTypeOK
<1>9. ToolReady' /\ ToolOwns' /\ StoreReads' /\ ToolPruning'
  BY <1>1, <1>2, <1>5 DEF WorkflowInv, ToolReady, ToolOwns, StoreReads, ToolPruning, Writers
<1>10. BgOwns' /\ OneTask'
  BY <1>2, <1>7 DEF WorkflowInv, WorkflowTypeOK, BgOwns, OneTask
<1>11. RecordedBy(Writers) => RecordedBy(Writers)'
  BY <1>2, <1>7 DEF RecordedBy, Writers
<1>12. BgPruning' /\ Recorded'
  BY <1>2, <1>7, <1>11 DEF WorkflowInv, BgPruning, Recorded
<1> QED  BY <1>2, <1>8, <1>9, <1>10, <1>12 DEF WorkflowInv

(* The call's file is on record, or the record is known to have failed: a  *)
(* store's only if nothing was deleted beside it.                          *)
LEMMA RecordKeeps ==
  ASSUME WorkflowAssumption, WorkflowInv, Record
  PROVE  WorkflowInv'
<1>1. /\ tool \in Calls /\ tool.kind \in Writers \union {"store"}
      /\ tool.s \in Sessions /\ tool.pc = "record"
  BY DEF WorkflowInv, ToolReady, Record, WorkflowTypeOK
<1>2. UNCHANGED <<family, files, session, bg>>
  BY DEF Record
<1>3. /\ tool' \in Calls /\ tool'.pc \in {"idle", "load", "prune"}
      /\ tool'.kind # "store" /\ tool'.beside = FALSE
      /\ tool'.pc # "idle" => /\ tool'.kind = tool.kind /\ tool'.s = tool.s
                              /\ tool'.file = tool.file
      /\ tool'.upload = FALSE \/ (tool'.upload = tool.upload /\ tool'.kind = tool.kind)
      /\ tool'.pc = "prune" => ~(tool.kind = "validate" /\ tool.upload)
      /\ tool.kind = "store" => tool'.pc = "idle"
  <2>1. CASE tool.kind = "store"
    <3>1. tool' = NoCall
      BY <2>1 DEF Record
    <3>2. /\ tool' \in Calls /\ tool'.pc = "idle" /\ tool'.kind = "none"
          /\ tool'.beside = FALSE /\ tool'.upload = FALSE
      BY <3>1, IdleTool
    <3>3. tool'.pc = "prune" => ~(tool.kind = "validate" /\ tool.upload)
      BY <3>2
    <3>4. tool'.upload = FALSE \/ (tool'.upload = tool.upload /\ tool'.kind = tool.kind)
      BY <3>2
    <3> QED  BY <3>2, <3>3, <3>4
  <2>2. ASSUME NEW pc \in {"load", "prune"}, tool' = [tool EXCEPT !.pc = pc]
        PROVE  /\ tool' \in Calls /\ tool'.pc = pc /\ tool'.kind = tool.kind
               /\ tool'.s = tool.s /\ tool'.file = tool.file
               /\ tool'.beside = tool.beside /\ tool'.upload = tool.upload
    BY <1>1, <2>2 DEF Calls
  <2>3. tool.kind # "store" => tool.beside = FALSE
    BY DEF WorkflowInv, ToolReady
  <2>4. CASE tool.kind = "validate" /\ tool.upload
    <3>1. tool' = [tool EXCEPT !.pc = "load"]
      BY <2>4 DEF Record
    <3> QED  BY <2>2, <2>3, <2>4, <3>1
  <2>5. CASE tool.kind # "store" /\ ~(tool.kind = "validate" /\ tool.upload)
    <3>1. tool' = [tool EXCEPT !.pc = "prune"]
      BY <2>5 DEF Record
    <3> QED  BY <2>2, <2>3, <2>5, <3>1
  <2> QED  BY <2>1, <2>4, <2>5
<1>4. CASE tool.kind = "validate" /\ tool.upload
  <2>1. UNCHANGED <<section, stray>> /\ tool'.pc # "prune"
    BY <1>1, <1>3, <1>4 DEF Record
  <2> QED  BY <1>2, <1>3, <2>1, <1>1, TasksStay, ToolMoves
           DEF WorkflowInv, WorkflowTypeOK, ToolReady, ToolOwns, StoreReads, ToolPruning, Writers
<1>5. CASE ~(tool.kind = "validate" /\ tool.upload)
  <2>1. Records(Entry, tool.beside \/ (tool.kind = "store" /\ Generating))
    BY <1>5 DEF Record
  <2>2. \/ UNCHANGED section /\ stray' = TRUE
        \/ section' = Entry /\ stray' = (tool.beside \/ (tool.kind = "store" /\ Generating))
    BY <2>1 DEF Records
  <2>3. /\ Entry \in [file : FileNumbers, graph : Uris \union {"none"}, persisted : BOOLEAN]
        /\ Entry.file = IF tool.kind = "store" THEN session[tool.s].file ELSE tool.file
    <3>1. /\ tool.file \in FileNumbers /\ session[tool.s].file \in FileNumbers
          /\ tool.uri \in Uris \union {"none"} /\ "given" \in Uris
      BY <1>1 DEF Calls, WorkflowInv, WorkflowTypeOK, SessionStates, Uris, WorkflowAssumption
    <3>2. CASE tool.kind = "generate"
      BY <3>1, <3>2 DEF Entry, GeneratedEntry
    <3>3. CASE tool.kind = "apply"
      BY <3>1, <3>3 DEF Entry, RenamedEntry
    <3>4. CASE tool.kind = "validate"
      BY <3>1, <3>4 DEF Entry, ValidatedEntry, WorkflowInv, WorkflowTypeOK
    <3>5. CASE tool.kind = "store"
      BY <3>1, <3>5 DEF Entry, StoredEntry
    <3> QED  BY <1>1, <3>2, <3>3, <3>4, <3>5 DEF Writers
  <2>4. stray' \in BOOLEAN
    BY <2>2, <1>1 DEF Calls
  <2>5. WorkflowTypeOK' /\ Numbered' /\ BgOwns' /\ OneTask' /\ ToolReady' /\ StoreReads'
    <3>1. section' \in [file : FileNumbers, graph : Uris \union {"none"}, persisted : BOOLEAN]
      BY <2>2, <2>3 DEF WorkflowInv, WorkflowTypeOK
    <3> QED  BY <1>1, <1>2, <1>3, <2>4, <3>1
             DEF WorkflowInv, WorkflowTypeOK, Numbered, BgOwns, OneTask, ToolReady, StoreReads,
                 Writers
  <2>6. ToolOwns'
    BY <1>1, <1>2, <1>3 DEF WorkflowInv, ToolOwns
  <2>7. ASSUME stray' = FALSE, tool.kind # "store"
        PROVE  section'.file = tool.file /\ tool.file \in files /\ RecordedBy(Writers)'
    <3>1. /\ section'.file = tool.file /\ tool.file \in files
          /\ family[tool.file] = tool.kind
      BY <1>1, <2>2, <2>3, <2>7 DEF WorkflowInv, ToolOwns
    <3> QED  BY <3>1, <1>1, <1>2, <2>7 DEF RecordedBy, WorkflowInv, WorkflowTypeOK, Writers
  <2>8. ASSUME stray' = FALSE, tool.kind = "store"
        PROVE  section'.file \in files /\ \A t \in Tasks : bg[t].pc = "idle"
    <3>1. tool.beside = FALSE /\ ~Generating /\ section' = Entry
      BY <2>2, <2>8, <1>1 DEF Calls
    <3> QED  BY <3>1, <1>1, <2>3, <2>8 DEF WorkflowInv, StoreReads, Generating
  <2>9. ToolPruning'
    BY <1>3, <2>7 DEF ToolPruning
  <2>10. BgPruning'
    BY <1>1, <1>2, <2>7, <2>8 DEF BgPruning
  <2>11. Recorded'
    BY <1>1, <1>2, <2>7, <2>8 DEF Recorded
  <2> QED  BY <2>5, <2>6, <2>9, <2>10, <2>11 DEF WorkflowInv
<1> QED  BY <1>4, <1>5

(* What a tool deletes is neither on record, nor a generation's.           *)
LEMMA PruneKeeps ==
  ASSUME WorkflowAssumption, WorkflowInv, Prune
  PROVE  WorkflowInv'
<1>1. /\ tool \in Calls /\ tool.kind \in Writers /\ tool.s \in Sessions
      /\ tool.pc = "prune" /\ family[tool.file] = tool.kind
      /\ tool.beside = FALSE
  BY DEF WorkflowInv, ToolReady, ToolOwns, Prune, WorkflowTypeOK, Writers
<1>2. UNCHANGED <<family, section, session, bg, stray>>
  BY DEF Prune
<1>3. /\ files' \subseteq files
      /\ \A n \in files : n = tool.file \/ family[n] # tool.kind => n \in files'
  BY <1>1, PrunedAreSiblings DEF Prune
<1>4. /\ tool' \in Calls /\ tool'.pc \in {"check", "load"} /\ tool'.kind = tool.kind
      /\ tool'.s = tool.s /\ tool'.beside = FALSE /\ tool'.upload = tool.upload
      /\ tool'.pc = "check" => tool.kind = "generate"
  <2>1. 0 \in FileNumbers
    BY DEF FileNumbers, WorkflowAssumption
  <2>2. ASSUME NEW pc \in {"check", "load"}, tool' = [tool EXCEPT !.pc = pc, !.previous = 0]
        PROVE  /\ tool' \in Calls /\ tool'.pc = pc /\ tool'.kind = tool.kind
               /\ tool'.s = tool.s /\ tool'.beside = tool.beside
               /\ tool'.upload = tool.upload
    BY <1>1, <2>1, <2>2 DEF Calls
  <2>3. CASE tool.kind = "generate"
    <3>1. tool' = [tool EXCEPT !.pc = "check", !.previous = 0]
      BY <2>3 DEF Prune
    <3> QED  BY <1>1, <2>2, <2>3, <3>1
  <2>4. CASE tool.kind # "generate"
    <3>1. tool' = [tool EXCEPT !.pc = "load", !.previous = 0]
      BY <2>4 DEF Prune
    <3> QED  BY <1>1, <2>2, <3>1
  <2> QED  BY <2>3, <2>4
<1>5. WorkflowTypeOK' /\ Numbered' /\ ToolReady' /\ ToolOwns' /\ StoreReads' /\ ToolPruning'
  BY <1>1, <1>2, <1>3, <1>4
     DEF WorkflowInv, WorkflowTypeOK, Numbered, ToolReady, ToolOwns, StoreReads, ToolPruning,
         Writers
<1>6. BgOwns' /\ OneTask' /\ BgPruning'
  BY <1>1, <1>2, <1>3 DEF WorkflowInv, BgOwns, OneTask, BgPruning, RecordedBy, Writers
<1>7. Recorded'
  BY <1>1, <1>2, <1>3 DEF WorkflowInv, ToolPruning, RecordedBy, Recorded, Writers
<1> QED  BY <1>5, <1>6, <1>7 DEF WorkflowInv

(* A call that ends leaves nothing to be recorded or read.                 *)
LEMMA CallEnds ==
  ASSUME WorkflowAssumption, WorkflowInv, tool' = NoCall,
         UNCHANGED <<family, files, section, stray>>, SameTasks,
         session' \in [Sessions -> SessionStates]
  PROVE  WorkflowInv'
BY IdleTool, ToolMoves DEF ToolReady, ToolOwns, StoreReads, ToolPruning

(* The check, the load and the flag move neither files nor what is named.  *)
LEMMA CheckKeeps ==
  ASSUME WorkflowAssumption, WorkflowInv, Check
  PROVE  WorkflowInv'
<1>1. /\ tool \in Calls /\ tool.kind = "generate" /\ tool.s \in Sessions
      /\ tool.beside = FALSE /\ tool.upload = FALSE
      /\ session \in [Sessions -> SessionStates]
  BY DEF WorkflowInv, WorkflowTypeOK, ToolReady, Check
<1>2. UNCHANGED <<family, files, section, session, bg, stray>>
  BY DEF Check, workspace
<1>0. SameTasks
  BY <1>2, TasksStay
<1>3. CASE tool' = NoCall
  BY <1>0, <1>1, <1>2, <1>3, CallEnds
<1>4. CASE tool' = [tool EXCEPT !.pc = "load"]
  <2>1. /\ tool' \in Calls /\ tool'.pc = "load" /\ tool'.kind = "generate"
        /\ tool'.s = tool.s /\ tool'.beside = FALSE /\ tool'.upload = FALSE
    BY <1>1, <1>4 DEF Calls
  <2> QED  BY <1>0, <1>1, <1>2, <2>1, ToolMoves
           DEF ToolReady, ToolOwns, StoreReads, ToolPruning, Writers
<1> QED  BY <1>3, <1>4 DEF Check

LEMMA LoadKeeps ==
  ASSUME WorkflowAssumption, WorkflowInv, Load
  PROVE  WorkflowInv'
<1>1. /\ tool \in Calls /\ tool.pc = "load" /\ tool.s \in Sessions
      /\ session \in [Sessions -> SessionStates]
  BY DEF WorkflowInv, WorkflowTypeOK, ToolReady, Load
<1>2. UNCHANGED <<family, files, section, stray>>
  BY DEF Load
<1>0. SameTasks
  <2>1. ASSUME NEW t \in Tasks, bg'[t] = [bg[t] EXCEPT !.plain = bg[t].plain /\ ~Meets(t)]
        PROVE  /\ bg'[t] \in TaskStates
               /\ bg'[t].pc = bg[t].pc /\ bg'[t].file = bg[t].file
    <3>1. bg[t] \in TaskStates /\ (bg[t].plain /\ ~Meets(t)) \in BOOLEAN
      BY DEF WorkflowInv, WorkflowTypeOK
    <3> QED  BY <2>1, <3>1 DEF TaskStates
  <2>2. \/ bg' = bg
        \/ bg' = [t \in Tasks |-> [bg[t] EXCEPT !.plain = bg[t].plain /\ ~Meets(t)]]
    BY DEF Load
  <2>3. CASE bg' = bg
    BY <2>3, TasksStay
  <2>4. CASE bg' = [t \in Tasks |-> [bg[t] EXCEPT !.plain = bg[t].plain /\ ~Meets(t)]]
    BY <2>1, <2>4 DEF SameTasks
  <2> QED  BY <2>2, <2>3, <2>4
<1>3. Target \in Uris \union {"none"}
  BY <1>1 DEF Target, Calls, Uris, SessionStates, WorkflowInv, WorkflowTypeOK, WorkflowAssumption
<1>4. session' \in [Sessions -> SessionStates]
  <2>1. session' = session \/ session' = [session EXCEPT ![tool.s].graph = Target]
    BY DEF Load
  <2>2. [session[tool.s] EXCEPT !.graph = Target] \in SessionStates
    BY <1>1, <1>3 DEF SessionStates
  <2> QED  BY <1>1, <2>1, <2>2
<1>5. CASE tool' = NoCall
  BY <1>0, <1>2, <1>4, <1>5, CallEnds
<1>6. CASE tool.kind = "generate" /\ tool' = [tool EXCEPT !.pc = "mark", !.crossed = FALSE]
  <2>1. /\ tool' \in Calls /\ tool'.pc = "mark" /\ tool'.kind = "generate"
        /\ tool'.s = tool.s /\ tool'.beside = FALSE /\ tool'.upload = FALSE
    BY <1>1, <1>6 DEF Calls, WorkflowInv, ToolReady
  <2> QED  BY <1>0, <1>1, <1>2, <1>4, <2>1, ToolMoves
           DEF ToolReady, ToolOwns, StoreReads, ToolPruning
<1>7. CASE tool.kind = "store" /\ tool' = [tool EXCEPT !.pc = "record"]
  <2>1. /\ tool' \in Calls /\ tool'.pc = "record" /\ tool'.kind = "store"
        /\ tool'.s = tool.s /\ tool'.beside = tool.beside /\ tool'.upload = FALSE
    BY <1>1, <1>7 DEF Calls, WorkflowInv, ToolReady
  <2>2. session'[tool.s].file = session[tool.s].file
    BY <1>1, <1>7, IdleTool DEF Load, Calls
  <2>3. StoreReads'
    BY <1>1, <1>2, <1>7, <2>1, <2>2 DEF WorkflowInv, StoreReads
  <2> QED  BY <1>0, <1>1, <1>2, <1>4, <2>1, <2>3, ToolMoves
           DEF ToolReady, ToolOwns, ToolPruning, Writers
<1> QED  BY <1>5, <1>6, <1>7 DEF Load

LEMMA MarkKeeps ==
  ASSUME WorkflowAssumption, WorkflowInv, Mark
  PROVE  WorkflowInv'
<1>1. tool \in Calls /\ tool.uri \in Uris \union {"none"}
  BY DEF WorkflowInv, WorkflowTypeOK, Calls, Uris, WorkflowAssumption
<1>2. UNCHANGED <<family, files, session, bg, stray>> /\ tool' = NoCall
  BY DEF Mark
<1>3. /\ section' \in [file : FileNumbers, graph : Uris \union {"none"}, persisted : BOOLEAN]
      /\ section'.file = section.file
  BY <1>1 DEF Mark, WorkflowInv, WorkflowTypeOK
<1>4. WorkflowTypeOK' /\ Numbered' /\ BgOwns' /\ OneTask' /\ BgPruning' /\ Recorded'
  BY <1>2, <1>3, IdleTool
     DEF WorkflowInv, WorkflowTypeOK, Numbered, BgOwns, OneTask, BgPruning, RecordedBy, Recorded
<1>5. ToolReady' /\ ToolOwns' /\ StoreReads' /\ ToolPruning'
  BY <1>2, IdleTool DEF ToolReady, ToolOwns, StoreReads, ToolPruning
<1> QED  BY <1>4, <1>5 DEF WorkflowInv

-----------------------------------------------------------------------------
(* The sessions.                                                           *)

LEMMA SessionsKeep ==
  ASSUME WorkflowAssumption, WorkflowInv, NEW s \in Sessions,
         \/ LoadMyOntology(s) \/ ResetCache(s) \/ Leave(s) \/ Join(s)
  PROVE  WorkflowInv'
<1>1. /\ session \in [Sessions -> SessionStates] /\ session[s] \in SessionStates
      /\ section.file \in FileNumbers /\ 0 \in FileNumbers
  BY DEF WorkflowInv, WorkflowTypeOK, FileNumbers, WorkflowAssumption
<1>2. ASSUME LoadMyOntology(s) PROVE WorkflowInv'
  <2>1. PICK uri \in CallerUris, activated \in BOOLEAN :
          /\ session' = IF activated
                        THEN [session EXCEPT ![s].loaded = TRUE, ![s].graph = uri] ELSE session
          /\ tool.pc = "idle" /\ Overlaps /\ UNCHANGED <<family, files, section, tool, stray>>
    BY <1>2 DEF LoadMyOntology
  <2>2. uri \in Uris
    BY DEF Uris, WorkflowAssumption
  <2>3. [session[s] EXCEPT !.loaded = TRUE, !.graph = uri] \in SessionStates
    BY <1>1, <2>2 DEF SessionStates
  <2>4. session' \in [Sessions -> SessionStates]
    BY <1>1, <2>1, <2>3
  <2> QED  BY <2>1, <2>4, SessionsMove
<1>3. ASSUME ResetCache(s) PROVE WorkflowInv'
  BY <1>1, <1>3, FreshTyped, SessionsMove DEF ResetCache, workspace
<1>4. ASSUME Leave(s) PROVE WorkflowInv'
  <2>1. session' \in [Sessions -> SessionStates]
    BY <1>1, <1>4, FreshTyped DEF Leave
  <2>2. tool.pc = "idle" \/ session'[tool.s].file = session[tool.s].file
    BY <1>1, <1>4 DEF Leave, WorkflowInv, ToolReady
  <2> QED  BY <1>4, <2>1, <2>2, SessionsMove DEF Leave, workspace
<1>5. ASSUME Join(s) PROVE WorkflowInv'
  <2>1. PICK n \in FileNumbers : session' = [session EXCEPT ![s] = [Fresh EXCEPT !.file = n]]
    BY <1>1, <1>5 DEF Join
  <2>2. [Fresh EXCEPT !.file = n] \in SessionStates
    BY FreshTyped DEF SessionStates
  <2>3. session' \in [Sessions -> SessionStates]
    BY <1>1, <2>1, <2>2
  <2> QED  BY <1>5, <2>3, SessionsMove DEF Join, workspace
<1> QED  BY <1>2, <1>3, <1>4, <1>5

-----------------------------------------------------------------------------
(* Generations in the background.                                          *)

LEMMA BgWriteKeeps ==
  ASSUME WorkflowAssumption, WorkflowInv, NEW t \in Tasks, NEW s \in Sessions, BgWrite(t, s)
  PROVE  WorkflowInv'
<1> DEFINE new == Written + 1
<1>1. /\ new \in Numbers
      /\ family' \in [Numbers -> Writers \union {"auto", "none"}]
      /\ files' \subseteq {n \in Numbers : family'[n] # "none"}
      /\ Numbered'
      /\ new \in files' /\ files \subseteq files'
      /\ family'[new] = "auto"
      /\ \A n \in Numbers : family[n] # "none" => family'[n] = family[n]
  BY NewFileFresh DEF BgWrite, WorkflowInv
<1> HIDE DEF new
<1>2. /\ UNCHANGED <<section, stray>>
      /\ tool' \in Calls /\ tool'.pc = tool.pc /\ tool'.kind = tool.kind
      /\ tool'.s = tool.s /\ tool'.file = tool.file /\ tool'.upload = tool.upload
      /\ tool'.beside = tool.beside
  <2>1. tool' = tool \/ tool' = [tool EXCEPT !.crossed = TRUE]
    BY DEF BgWrite
  <2>2. tool \in Calls /\ UNCHANGED <<section, stray>>
    BY DEF BgWrite, WorkflowInv, WorkflowTypeOK
  <2> QED  BY <2>1, <2>2 DEF Calls
<1>3. new \in FileNumbers /\ session[s] \in SessionStates /\ bg[t] \in TaskStates
  BY <1>1 DEF Numbers, FileNumbers, WorkflowAssumption, WorkflowInv, WorkflowTypeOK
<1>4. PICK uri \in {"none", BaseUri}, plain \in BOOLEAN :
        bg' = [bg EXCEPT ![t].pc = "record", ![t].file = new,
                         ![t].previous = session[s].file, ![t].plain = plain,
                         ![t].uri = uri]
  BY DEF BgWrite, new
<1>5. /\ bg' \in [Tasks -> TaskStates]
      /\ bg'[t].pc = "record" /\ bg'[t].file = new
      /\ \A u \in Tasks \ {t} : bg'[u] = bg[u]
  <2> DEFINE b == [bg[t] EXCEPT !.pc = "record", !.file = new,
                      !.previous = session[s].file, !.plain = plain, !.uri = uri]
  <2>1. b \in TaskStates /\ b.pc = "record" /\ b.file = new
    BY <1>3 DEF TaskStates, SessionStates
  <2>2. bg' = [bg EXCEPT ![t] = b]
    BY <1>4
  <2> QED  BY <2>1, <2>2 DEF WorkflowInv, WorkflowTypeOK
<1>6. /\ session' \in [Sessions -> SessionStates]
      /\ \A o \in Sessions : session'[o].file \in {session[o].file, new}
  <2>1. \/ session' = session
        \/ \E g \in Uris \union {"none"} :
              session' = [session EXCEPT ![s].file = new, ![s].graph = g]
    <3>1. BaseUri \in Uris \union {"none"}
      BY DEF Uris, WorkflowAssumption
    <3> QED  BY <1>3, <3>1 DEF BgWrite, new, SessionStates
  <2>2. \A g \in Uris \union {"none"} :
          LET x == [session[s] EXCEPT !.file = new, !.graph = g]
          IN x \in SessionStates /\ x.file = new
    BY <1>3 DEF SessionStates
  <2>3. ASSUME NEW g \in Uris \union {"none"},
               session' = [session EXCEPT ![s].file = new, ![s].graph = g]
        PROVE  /\ session' \in [Sessions -> SessionStates]
               /\ \A o \in Sessions : session'[o].file \in {session[o].file, new}
    BY <2>2, <2>3 DEF WorkflowInv, WorkflowTypeOK
  <2> QED  BY <2>1, <2>3 DEF WorkflowInv, WorkflowTypeOK
<1>7. WorkflowTypeOK'
  BY <1>1, <1>2, <1>5, <1>6 DEF WorkflowInv, WorkflowTypeOK
<1>8. ToolReady' /\ ToolOwns'
  BY <1>1, <1>2 DEF WorkflowInv, WorkflowTypeOK, ToolReady, ToolOwns
<1>9. StoreReads'
  BY <1>1, <1>2, <1>6 DEF WorkflowInv, ToolReady, StoreReads
<1>10. BgOwns'
  BY <1>1, <1>5 DEF WorkflowInv, WorkflowTypeOK, BgOwns
<1>11. OneTask'
  BY <1>5 DEF BgWrite, FamilyFree, OneTask
<1>12. /\ RecordedBy(Writers) => RecordedBy(Writers)'
       /\ RecordedBy({"auto"}) => RecordedBy({"auto"})'
  BY <1>1, <1>2 DEF RecordedBy, Writers
<1>13. ToolPruning' /\ BgPruning' /\ Recorded'
  BY <1>1, <1>2, <1>5, <1>12 DEF WorkflowInv, ToolPruning, BgPruning, Recorded
<1> QED  BY <1>1, <1>7, <1>8, <1>9, <1>10, <1>11, <1>13 DEF WorkflowInv

LEMMA BgRecordKeeps ==
  ASSUME WorkflowAssumption, WorkflowInv, NEW t \in Tasks, BgRecord(t)
  PROVE  WorkflowInv'
<1>1. /\ bg[t] \in TaskStates /\ bg[t].file \in files
      /\ family[bg[t].file] = "auto" /\ bg[t].file \in Numbers
      /\ \A u \in Tasks \ {t} : bg[u].pc = "idle"
  BY DEF WorkflowInv, WorkflowTypeOK, BgOwns, OneTask, BgRecord
<1>2. UNCHANGED <<family, files, session, tool>>
  BY DEF BgRecord
<1>3. /\ bg' \in [Tasks -> TaskStates]
      /\ bg'[t].pc = "prune" /\ bg'[t].file = bg[t].file
      /\ \A u \in Tasks \ {t} : bg'[u] = bg[u]
  <2>1. LET b == [bg[t] EXCEPT !.pc = "prune", !.uri = "none", !.plain = TRUE]
        IN b \in TaskStates /\ b.pc = "prune" /\ b.file = bg[t].file /\ bg' = [bg EXCEPT ![t] = b]
    BY <1>1 DEF TaskStates, BgRecord
  <2> QED  BY <2>1 DEF WorkflowInv, WorkflowTypeOK
<1> DEFINE entry == [file |-> bg[t].file, graph |-> bg[t].uri, persisted |-> bg[t].uri # "none"]
<1>4. /\ entry \in [file : FileNumbers, graph : Uris \union {"none"}, persisted : BOOLEAN]
      /\ entry.file = bg[t].file
  <2>1. bg[t].file \in FileNumbers /\ bg[t].uri \in Uris \union {"none"}
    BY <1>1 DEF TaskStates, Uris, WorkflowAssumption
  <2> QED  BY <2>1
<1>5. \/ section' = entry /\ stray' = FALSE
      \/ section' = section /\ stray' = TRUE
  BY DEF BgRecord, Records
<1> HIDE DEF entry
<1>6. WorkflowTypeOK' /\ Numbered'
  BY <1>2, <1>3, <1>4, <1>5 DEF WorkflowInv, WorkflowTypeOK, Numbered
<1>7. ToolReady' /\ ToolOwns' /\ StoreReads' /\ BgOwns' /\ OneTask'
  BY <1>1, <1>2, <1>3
     DEF WorkflowInv, ToolReady, ToolOwns, StoreReads, BgOwns, OneTask
<1>8. stray' = FALSE => RecordedBy({"auto"})'
  BY <1>1, <1>2, <1>4, <1>5 DEF RecordedBy
<1>9. ToolPruning' /\ BgPruning' /\ Recorded'
  BY <1>1, <1>2, <1>3, <1>4, <1>5, <1>8 DEF ToolPruning, BgPruning, Recorded
<1> QED  BY <1>6, <1>7, <1>9 DEF WorkflowInv

LEMMA BgPruneKeeps ==
  ASSUME WorkflowAssumption, WorkflowInv, NEW t \in Tasks, BgPrune(t)
  PROVE  WorkflowInv'
<1>1. /\ bg[t].pc = "prune" /\ family[bg[t].file] = "auto"
      /\ \A u \in Tasks \ {t} : bg[u].pc = "idle"
  BY DEF WorkflowInv, BgOwns, OneTask, BgPrune
<1>2. UNCHANGED <<family, section, session, stray>>
  BY DEF BgPrune
<1>3. /\ files' \subseteq files
      /\ \A n \in files : n = bg[t].file \/ family[n] # "auto" => n \in files'
  BY <1>1, PrunedAreSiblings DEF BgPrune
<1>4. bg' \in [Tasks -> TaskStates] /\ \A u \in Tasks : bg'[u].pc = "idle"
  <2>1. NoTask \in TaskStates /\ NoTask.pc = "idle"
    BY DEF NoTask, TaskStates, FileNumbers, WorkflowAssumption
  <2> QED  BY <1>1, <2>1 DEF BgPrune, WorkflowInv, WorkflowTypeOK
<1>5. /\ tool' \in Calls /\ tool'.pc = tool.pc /\ tool'.kind = tool.kind
      /\ tool'.s = tool.s /\ tool'.file = tool.file /\ tool'.upload = tool.upload
      /\ IF tool.kind = "store" THEN tool'.beside = TRUE ELSE tool' = tool
  BY DEF BgPrune, Calls, WorkflowInv, WorkflowTypeOK
<1>6. WorkflowTypeOK' /\ Numbered' /\ ToolReady' /\ StoreReads'
  BY <1>2, <1>3, <1>4, <1>5
     DEF WorkflowInv, WorkflowTypeOK, Numbered, ToolReady, StoreReads
<1>7. ToolOwns'
  BY <1>2, <1>3, <1>5 DEF WorkflowInv, ToolOwns, ToolReady, Writers
<1>8. BgOwns' /\ OneTask' /\ BgPruning'
  BY <1>4 DEF BgOwns, OneTask, BgPruning
<1>9. ToolPruning'
  BY <1>2, <1>5 DEF WorkflowInv, ToolPruning, RecordedBy
<1>10. Recorded'
  BY <1>1, <1>2, <1>3 DEF WorkflowInv, BgPruning, RecordedBy, Recorded, Writers
<1> QED  BY <1>6, <1>7, <1>8, <1>9, <1>10 DEF WorkflowInv

-----------------------------------------------------------------------------

LEMMA WorkflowStep ==
  ASSUME WorkflowAssumption, WorkflowInv, [Next]_vars
  PROVE  WorkflowInv'
<1>1. ASSUME UNCHANGED vars PROVE WorkflowInv'
  BY <1>1 DEF vars, workspace, WorkflowInv, WorkflowTypeOK, Numbered, ToolReady, ToolOwns,
              StoreReads, BgOwns, OneTask, ToolPruning, BgPruning, RecordedBy, Recorded
<1>2. ASSUME NEW s \in Sessions,
             \/ Generate(s) \/ ApplySemanticNames(s) \/ ValidateRelationship(s)
             \/ StoreOntology(s)
      PROVE  WorkflowInv'
  BY <1>2, CallsBegin
<1>3. ASSUME NEW s \in Sessions,
             \/ LoadMyOntology(s) \/ ResetCache(s) \/ Leave(s) \/ Join(s)
      PROVE  WorkflowInv'
  BY <1>3, SessionsKeep
<1>4. ASSUME Write \/ Record \/ Prune \/ Check \/ Load \/ Mark PROVE WorkflowInv'
  BY <1>4, WriteKeeps, RecordKeeps, PruneKeeps, CheckKeeps, LoadKeeps, MarkKeeps
<1>5. ASSUME NEW t \in Tasks, (\E s \in Sessions : BgWrite(t, s)) \/ BgRecord(t) \/ BgPrune(t)
      PROVE  WorkflowInv'
  BY <1>5, BgWriteKeeps, BgRecordKeeps, BgPruneKeeps
<1> QED  BY <1>1, <1>2, <1>3, <1>4, <1>5 DEF Next

(* WorkflowInv is inductive: each step of OntologyWorkflow keeps it.       *)
THEOREM WorkflowInductive == Spec => []WorkflowInv
<1>1. Init => WorkflowInv
  BY WorkflowInit, WorkflowAssumption
<1>2. WorkflowInv /\ [Next]_vars => WorkflowInv'
  BY WorkflowStep, WorkflowAssumption
<1> QED  BY <1>1, <1>2, PTL DEF Spec

(* Files, sections, sessions, calls and background generations are well    *)
(* formed whatever overlaps and fails (handlers/ontology_generation.py,    *)
(* lifecycle/artifacts.py).                                                *)
THEOREM WorkflowTypes == Spec => []WorkflowTypeOK
<1>1. WorkflowInv => WorkflowTypeOK
  BY DEF WorkflowInv
<1> QED  BY <1>1, WorkflowInductive, PTL

(* With any number of sessions, generations and files kept, a file on      *)
(* record is in the workspace, unless its record failed or a store made it *)
(* beside a generation (artifact_family_lock, prune_superseded_sync).      *)
THEOREM RecordedFilesExist == Spec => []RecordedFileExists
<1>1. WorkflowInv => RecordedFileExists
  BY DEF WorkflowInv, WorkflowTypeOK, Recorded, RecordedFileExists
<1> QED  BY <1>1, WorkflowInductive, PTL

-----------------------------------------------------------------------------
(* What the graphs hold.                                                   *)

\* The graph a call names is one it was given, and a store loads on the loop.
UriGiven(c) == /\ c.kind \in {"generate", "store"} => c.uri \in CallerUris
               /\ c.kind = "store" => c.crossed = FALSE

GraphsTyped ==
  /\ graphs \in [Uris -> FileNumbers] /\ rewritten \in BOOLEAN
  /\ section.persisted = TRUE => section.graph \in Uris
  /\ UriGiven(tool)

\* What is recorded after a generation's own record is a background's.
GeneratedLast ==
  tool.kind = "generate" /\ tool.pc \in {"prune", "check", "load", "mark"} /\ stray = FALSE =>
    \/ section.file = tool.file /\ section.persisted = FALSE
    \/ section.graph \in {BaseUri, "none"}

\* A generation's file is not of the background's family.
ToolFile ==
  tool.kind = "generate" /\ tool.pc \in {"check", "load", "mark"} =>
    tool.file \in Numbers /\ family[tool.file] = "generate"

Recording(n) == \E t \in Tasks : bg[t].pc = "record" /\ bg[t].file = n

(* What a call has loaded is in its graph, until a background generation   *)
(* loads the same: and that one is about to be recorded, or was.           *)
ToolLoaded ==
  /\ tool.pc = "mark" =>
       \/ graphs[tool.uri] = tool.file \/ Recording(graphs[tool.uri])
       \/ section.file # tool.file \/ stray = TRUE \/ rewritten = TRUE
  /\ tool.pc = "record" /\ tool.kind = "store" =>
       graphs[tool.uri] = tool.file \/ tool.beside = TRUE \/ Generating

IsPlain(t) == bg[t].pc = "record" /\ bg[t].plain = TRUE

BgLoaded == \A t \in Tasks :
  IsPlain(t) => ~Rewriting /\ (bg[t].uri = BaseUri => graphs[BaseUri] = bg[t].file)

Said == Rewriting => rewritten = TRUE

PersistedIsNamed ==
  stray = FALSE /\ rewritten = FALSE /\ section.persisted = TRUE => Named(graphs[section.graph])

GraphsInv ==
  /\ GraphsTyped /\ GeneratedLast /\ ToolFile /\ ToolLoaded /\ BgLoaded /\ Said
  /\ PersistedIsNamed

LEMMA GraphsInit ==
  ASSUME WorkflowAssumption, Init
  PROVE  GraphsInv
<1>1. 0 \in FileNumbers
  BY DEF FileNumbers, WorkflowAssumption
<1>2. graphs \in [Uris -> FileNumbers] /\ rewritten = FALSE
  BY <1>1 DEF Init
<1>3. section.persisted = FALSE
  BY DEF Init, NoSection
<1>4. tool.pc = "idle" /\ tool.kind = "none" /\ UriGiven(tool)
  BY IdleTool DEF Init, UriGiven
<1>5. \A t \in Tasks : bg[t].pc = "idle"
  BY DEF Init, NoTask
<1> QED  BY <1>2, <1>3, <1>4, <1>5
         DEF GraphsInv, GraphsTyped, GeneratedLast, ToolFile, ToolLoaded, IsPlain, BgLoaded, Said,
             Rewriting, PersistedIsNamed

(* A step that leaves graphs, sections and the background, and the file    *)
(* and graph of a call that goes on.                                       *)
LEMMA GraphsRest ==
  ASSUME GraphsInv, UNCHANGED <<section, graphs, bg, stray, rewritten>>,
         UriGiven(tool'), GeneratedLast', ToolFile', ToolLoaded', Rewriting' => Rewriting
  PROVE  GraphsInv'
<1>1. PersistedIsNamed'
  BY DEF GraphsInv, PersistedIsNamed, Named
<1> QED  BY <1>1 DEF GraphsInv, GraphsTyped, BgLoaded, IsPlain, Said

(* Whatever a rewriting tool finds recorded is in doubt from its beginning.*)
LEMMA RewritingBegins ==
  ASSUME WorkflowInv, GraphsInv, Overlaps, UNCHANGED <<section, stray>>,
         graphs' \in [Uris -> FileNumbers],
         UriGiven(tool'), GeneratedLast', ToolFile', ToolLoaded'
  PROVE  GraphsInv'
<1>1. rewritten' = TRUE
  BY DEF Overlaps
<1>2. ASSUME NEW t \in Tasks, bg'[t].pc = "record", bg'[t].plain = TRUE
      PROVE  FALSE
  <2>1. bg'[t] = [bg[t] EXCEPT !.plain = bg[t].pc # "record"] /\ bg[t] \in TaskStates
    BY DEF Overlaps, WorkflowInv, WorkflowTypeOK
  <2>2. bg'[t].pc = bg[t].pc /\ bg'[t].plain = (bg[t].pc # "record")
    BY <2>1 DEF TaskStates
  <2> QED  BY <1>2, <2>2
<1> QED  BY <1>1, <1>2
         DEF GraphsInv, GraphsTyped, BgLoaded, IsPlain, Said, PersistedIsNamed

LEMMA GraphsBegin ==
  ASSUME WorkflowAssumption, WorkflowInv, GraphsInv, NEW s \in Sessions,
         \/ Generate(s) \/ ApplySemanticNames(s) \/ ValidateRelationship(s)
         \/ StoreOntology(s)
  PROVE  GraphsInv'
<1>1. ASSUME Generate(s) PROVE GraphsInv'
  <2>1. PICK uri \in CallerUris :
           Begin(s, [NoCall EXCEPT !.pc = "write", !.kind = "generate", !.uri = uri])
    BY <1>1 DEF Generate
  <2>2. tool'.pc = "write" /\ tool'.kind = "generate" /\ tool'.uri = uri
    BY <2>1 DEF Begin, NoCall
  <2>3. UNCHANGED <<section, graphs, bg, stray, rewritten>>
    BY <2>1 DEF Begin, NoCall, workspace, Rewrites
  <2> QED  BY <2>2, <2>3, GraphsRest
           DEF UriGiven, GeneratedLast, ToolFile, ToolLoaded, Rewriting, Rewrites
<1>2. ASSUME ApplySemanticNames(s) \/ ValidateRelationship(s) \/ StoreOntology(s)
      PROVE  GraphsInv'
  <2>1. ASSUME NEW c, Begin(s, c), c \in Calls,
               \/ c.pc = "write" /\ c.kind \in {"apply", "validate"}
               \/ /\ c.pc = "load" /\ c.kind = "store" /\ c.uri \in CallerUris
                  /\ c.crossed = FALSE
        PROVE  GraphsInv'
    <3>1. tool'.pc = c.pc /\ tool'.kind = c.kind /\ tool'.uri = c.uri /\ tool'.crossed = c.crossed
      BY <2>1 DEF Begin, Calls
    <3>2. Overlaps /\ UNCHANGED <<section, graphs, stray>>
      BY <2>1 DEF Begin, workspace, Rewrites
    <3>3. graphs' \in [Uris -> FileNumbers]
      BY <3>2 DEF GraphsInv, GraphsTyped
    <3> QED  BY <2>1, <3>1, <3>2, <3>3, RewritingBegins
             DEF UriGiven, GeneratedLast, ToolFile, ToolLoaded
  <2>2. ASSUME ApplySemanticNames(s) PROVE GraphsInv'
    <3> DEFINE c == [NoCall EXCEPT !.pc = "write", !.kind = "apply"]
    <3>1. Begin(s, c)
      BY <2>2 DEF ApplySemanticNames
    <3>2. c \in Calls /\ c.pc = "write" /\ c.kind = "apply"
      BY IdleTool DEF Calls, Writers
    <3> HIDE DEF c
    <3> QED  BY <2>1, <3>1, <3>2
  <2>3. ASSUME ValidateRelationship(s) PROVE GraphsInv'
    <3> DEFINE c == [NoCall EXCEPT !.pc = "write", !.kind = "validate",
                                   !.upload = session[s].loaded]
    <3>1. Begin(s, c)
      BY <2>3 DEF ValidateRelationship
    <3>2. session[s].loaded \in BOOLEAN
      BY DEF WorkflowInv, WorkflowTypeOK, SessionStates
    <3>3. c \in Calls /\ c.pc = "write" /\ c.kind = "validate"
      BY <3>2, IdleTool DEF Calls, Writers
    <3> HIDE DEF c
    <3> QED  BY <2>1, <3>1, <3>3
  <2>4. ASSUME StoreOntology(s) PROVE GraphsInv'
    <3>1. PICK uri \in CallerUris :
            Begin(s, [NoCall EXCEPT !.pc = "load", !.kind = "store", !.uri = uri,
                                    !.file = session[s].file])
      BY <2>4 DEF StoreOntology
    <3> DEFINE c == [NoCall EXCEPT !.pc = "load", !.kind = "store", !.uri = uri,
                                   !.file = session[s].file]
    <3>2. session[s].file \in FileNumbers
      BY DEF WorkflowInv, WorkflowTypeOK, SessionStates
    <3>3. /\ c \in Calls /\ c.pc = "load" /\ c.kind = "store" /\ c.uri = uri
          /\ c.crossed = FALSE
      BY <3>2, IdleTool DEF Calls, Writers, NoCall
    <3> HIDE DEF c
    <3>4. Begin(s, c)
      BY <3>1 DEF c
    <3> QED  BY <2>1, <3>3, <3>4
  <2> QED  BY <1>2, <2>2, <2>3, <2>4
<1> QED  BY <1>1, <1>2

LEMMA GraphsWrite ==
  ASSUME WorkflowInv, GraphsInv, Write
  PROVE  GraphsInv'
<1>1. tool.kind \in Writers /\ tool \in Calls
  BY DEF WorkflowInv, WorkflowTypeOK, ToolReady, Write
<1>2. /\ tool'.pc = "record" /\ tool'.kind = tool.kind /\ tool'.uri = tool.uri
      /\ UNCHANGED <<section, graphs, bg, stray, rewritten>>
  BY <1>1 DEF Write, Calls
<1>3. GeneratedLast' /\ ToolFile' /\ ToolLoaded' /\ (Rewriting' => Rewriting)
  BY <1>1, <1>2 DEF GeneratedLast, ToolFile, ToolLoaded, Rewriting, Writers, Write
<1> QED  BY <1>1, <1>2, <1>3, GraphsRest DEF GraphsInv, GraphsTyped, UriGiven, Writers

(* A generation's record says nothing of a graph yet; a store's names the  *)
(* graph it has just loaded.                                               *)
LEMMA GraphsRecord ==
  ASSUME WorkflowAssumption, WorkflowInv, GraphsInv, Record
  PROVE  GraphsInv'
<1>1. /\ tool \in Calls /\ tool.pc = "record" /\ tool.kind \in Writers \union {"store"}
      /\ tool.s \in Sessions /\ stray \in BOOLEAN
      /\ tool.kind # "store" => tool.beside = FALSE
  BY DEF WorkflowInv, WorkflowTypeOK, ToolReady, Record
<1>2. UNCHANGED <<graphs, session, bg>>
  BY DEF Record
<1>3. \/ tool'.kind = "none" /\ tool'.pc = "idle"
      \/ /\ tool.kind # "store" /\ tool'.kind = tool.kind /\ tool'.pc \in {"load", "prune"}
         /\ tool.kind = "generate" => tool'.pc = "prune"
         /\ tool'.uri = tool.uri /\ tool'.file = tool.file
  <2>1. CASE tool.kind = "store"
    BY <2>1, IdleTool DEF Record
  <2>2. CASE tool.kind # "store"
    BY <1>1, <2>2 DEF Record, Calls
  <2> QED  BY <2>1, <2>2
<1>4. ToolFile' /\ ToolLoaded' /\ (Rewriting' => Rewriting)
  BY <1>1, <1>3 DEF ToolFile, ToolLoaded, Rewriting, Rewrites
<1>5. UriGiven(tool')
  BY <1>3 DEF GraphsInv, GraphsTyped, UriGiven
<1>6. BgLoaded'
  BY <1>2, <1>4 DEF GraphsInv, BgLoaded, IsPlain
<1>7. CASE tool.kind = "generate"
  <2>1. \/ section' = GeneratedEntry /\ stray' = FALSE
        \/ UNCHANGED section /\ stray' = TRUE
    BY <1>1, <1>7 DEF Record, Records, Entry
  <2>2. rewritten' = FALSE
    BY <1>7 DEF Record
  <2>3. GeneratedEntry.persisted = FALSE /\ GeneratedEntry.file = tool.file
    BY DEF GeneratedEntry
  <2>4. GraphsTyped'
    BY <1>2, <1>5, <2>1, <2>2, <2>3 DEF GraphsInv, GraphsTyped
  <2>5. GeneratedLast' /\ PersistedIsNamed'
    BY <1>3, <1>7, <2>1, <2>3 DEF GeneratedLast, PersistedIsNamed
  <2>6. Said'
    BY <1>3, <1>7 DEF Said, Rewriting, Rewrites
  <2> QED  BY <1>4, <1>6, <2>4, <2>5, <2>6 DEF GraphsInv
<1>8. CASE tool.kind \in {"apply", "validate"}
  <2>1. rewritten' = rewritten /\ rewritten = TRUE
    BY <1>1, <1>8 DEF Record, GraphsInv, Said, Rewriting, Rewrites
  <2>2. section' \in {section, RenamedEntry, ValidatedEntry}
    BY <1>8 DEF Record, Records, Entry
  <2>3. section'.persisted = TRUE => section'.graph \in Uris
    BY <2>2 DEF RenamedEntry, ValidatedEntry, GraphsInv, GraphsTyped, WorkflowInv, WorkflowTypeOK
  <2>4. GraphsTyped' /\ Said' /\ PersistedIsNamed'
    BY <1>2, <1>5, <2>1, <2>3 DEF GraphsInv, GraphsTyped, Said, PersistedIsNamed
  <2>5. GeneratedLast'
    BY <1>3, <1>8 DEF GeneratedLast
  <2> QED  BY <1>4, <1>6, <2>4, <2>5 DEF GraphsInv
<1>9. CASE tool.kind = "store"
  <2>1. /\ tool'.kind = "none" /\ tool'.pc = "idle"
        /\ graphs[tool.uri] = tool.file \/ tool.beside = TRUE \/ Generating
        /\ tool.uri \in Uris /\ rewritten = TRUE
    BY <1>1, <1>3, <1>9
       DEF GraphsInv, GraphsTyped, UriGiven, ToolLoaded, Said, Rewriting, Rewrites, Uris,
           WorkflowAssumption
  <2>2. \/ /\ section' = StoredEntry
           /\ stray' = FALSE => tool.beside # TRUE /\ ~Generating
           /\ stray' = FALSE => rewritten' = (session[tool.s].file # tool.file)
           /\ stray' # FALSE => rewritten' = rewritten
        \/ UNCHANGED section /\ stray' = TRUE /\ rewritten' = rewritten
    BY <1>1, <1>9 DEF Record, Records, Entry, Calls
  <2>3. /\ StoredEntry.file = session[tool.s].file /\ StoredEntry.graph = tool.uri
    BY DEF StoredEntry
  <2>4. rewritten' \in BOOLEAN /\ (section'.persisted = TRUE => section'.graph \in Uris)
    BY <2>1, <2>2, <2>3 DEF GraphsInv, GraphsTyped
  <2>5. GraphsTyped' /\ Said' /\ GeneratedLast'
    BY <1>2, <1>5, <2>1, <2>4 DEF GraphsInv, GraphsTyped, Said, GeneratedLast, Rewriting
  <2>6. PersistedIsNamed'
    BY <1>2, <2>1, <2>2, <2>3 DEF PersistedIsNamed, Named
  <2> QED  BY <1>4, <1>6, <2>5, <2>6 DEF GraphsInv
<1> QED  BY <1>1, <1>7, <1>8, <1>9 DEF Writers

LEMMA GraphsPruneCheck ==
  ASSUME WorkflowAssumption, WorkflowInv, GraphsInv, Prune \/ Check
  PROVE  GraphsInv'
<1>1. tool \in Calls /\ tool.pc \in {"prune", "check"} /\ tool.kind \in Writers
  BY DEF WorkflowInv, WorkflowTypeOK, ToolReady, Prune, Check, Writers
<1>2. UNCHANGED <<section, graphs, bg, stray, rewritten>>
  BY DEF Prune, Check, workspace
<1>3. \/ tool'.kind = "none" /\ tool'.pc = "idle"
      \/ /\ tool'.kind = tool.kind /\ tool'.pc \in {"check", "load"}
         /\ tool'.uri = tool.uri /\ tool'.file = tool.file
  <2>1. ASSUME NEW pc \in {"check", "load"},
               tool' = [tool EXCEPT !.pc = pc] \/ tool' = [tool EXCEPT !.pc = pc, !.previous = 0]
        PROVE  /\ tool'.kind = tool.kind /\ tool'.pc = pc
               /\ tool'.uri = tool.uri /\ tool'.file = tool.file
    BY <1>1, <2>1 DEF Calls
  <2>2. CASE Prune
    <3>1. \/ tool' = [tool EXCEPT !.pc = "check", !.previous = 0]
          \/ tool' = [tool EXCEPT !.pc = "load", !.previous = 0]
      BY <2>2 DEF Prune
    <3> QED  BY <2>1, <3>1
  <2>3. CASE Check
    <3>1. tool' = [tool EXCEPT !.pc = "load"] \/ tool' = NoCall
      BY <2>3 DEF Check
    <3> QED  BY <2>1, <3>1, IdleTool
  <2> QED  BY <2>2, <2>3
<1>4. GeneratedLast' /\ ToolLoaded' /\ (Rewriting' => Rewriting)
  BY <1>1, <1>2, <1>3
     DEF GraphsInv, GeneratedLast, ToolLoaded, Rewriting, Rewrites, Writers
<1>5. ToolFile'
  <2>1. /\ family' = family
        /\ tool.kind = "generate" => tool.file \in Numbers /\ family[tool.file] = "generate"
    BY <1>1 DEF WorkflowInv, WorkflowTypeOK, ToolOwns, GraphsInv, ToolFile, Prune, Check,
                workspace
  <2> QED  BY <1>3, <2>1 DEF ToolFile
<1> QED  BY <1>1, <1>2, <1>3, <1>4, <1>5, GraphsRest
         DEF GraphsInv, GraphsTyped, UriGiven, Writers

(* What a generation loads is not what a generation in the background has  *)
(* recorded since, or it says that the two have met.                       *)
LEMMA GraphsLoad ==
  ASSUME WorkflowAssumption, WorkflowInv, GraphsInv, Load
  PROVE  GraphsInv'
<1>1. /\ tool \in Calls /\ tool.pc = "load" /\ tool.s \in Sessions
      /\ tool.file \in FileNumbers /\ 0 \in FileNumbers
  BY DEF WorkflowInv, WorkflowTypeOK, ToolReady, Load, Calls, FileNumbers, WorkflowAssumption
<1>2. UNCHANGED <<family, section, stray>>
  BY DEF Load
<1>3. \/ tool'.kind = "none" /\ tool'.pc = "idle"
      \/ /\ tool'.kind = tool.kind /\ tool'.uri = tool.uri /\ tool'.file = tool.file
         /\ \/ tool.kind = "generate" /\ tool'.pc = "mark"
            \/ tool.kind = "store" /\ tool'.pc = "record" /\ tool'.crossed = tool.crossed
  BY <1>1, IdleTool DEF Load, Calls
<1>4. /\ graphs' \in [Uris -> FileNumbers]
      /\ \A u \in Uris : u # Target => graphs'[u] = graphs[u]
  <2>1. \/ graphs' = graphs
        \/ \E n \in Loaded : graphs' = [graphs EXCEPT ![Target] = n]
    BY DEF Load
  <2>2. \A n \in Loaded : n \in FileNumbers \/ n = graphs[Target]
    BY <1>1 DEF Loaded
  <2>3. ASSUME NEW n \in Loaded, graphs' = [graphs EXCEPT ![Target] = n]
        PROVE  /\ graphs' \in [Uris -> FileNumbers]
               /\ \A u \in Uris : u # Target => graphs'[u] = graphs[u]
    <3>1. CASE Target \in Uris
      BY <2>2, <2>3, <3>1 DEF GraphsInv, GraphsTyped
    <3>2. CASE Target \notin Uris
      BY <2>3, <3>2 DEF GraphsInv, GraphsTyped
    <3> QED  BY <3>1, <3>2
  <2> QED  BY <2>1, <2>3 DEF GraphsInv, GraphsTyped
<1>5. Rewriting' => Rewriting
  BY <1>1, <1>3 DEF Rewriting, Rewrites
<1>6. \/ UNCHANGED <<graphs, bg, rewritten>> /\ tool'.pc = "idle"
      \/ /\ \E n \in Loaded : graphs' = [graphs EXCEPT ![Target] = n]
         /\ bg' = [t \in Tasks |-> [bg[t] EXCEPT !.plain = bg[t].plain /\ ~Meets(t)]]
         /\ rewritten' = (rewritten \/ MeetsRecorded)
  BY IdleTool DEF Load
<1>7. rewritten' \in BOOLEAN /\ (rewritten = TRUE => rewritten' = TRUE)
  BY <1>6 DEF GraphsInv, GraphsTyped
<1>8. \A t \in Tasks :
         /\ bg'[t].pc = bg[t].pc /\ bg'[t].file = bg[t].file /\ bg'[t].uri = bg[t].uri
         /\ bg'[t].plain = TRUE => bg[t].plain = TRUE /\ (graphs' = graphs \/ ~Meets(t))
  <2>1. ASSUME NEW t \in Tasks, bg'[t] = [bg[t] EXCEPT !.plain = bg[t].plain /\ ~Meets(t)]
        PROVE  /\ bg'[t].pc = bg[t].pc /\ bg'[t].file = bg[t].file /\ bg'[t].uri = bg[t].uri
               /\ bg'[t].plain = TRUE => bg[t].plain = TRUE /\ ~Meets(t)
    <3>1. bg[t] \in TaskStates
      BY DEF WorkflowInv, WorkflowTypeOK
    <3>2. /\ bg'[t].pc = bg[t].pc /\ bg'[t].file = bg[t].file /\ bg'[t].uri = bg[t].uri
          /\ bg'[t].plain = (bg[t].plain /\ ~Meets(t))
      BY <2>1, <3>1 DEF TaskStates
    <3>3. bg[t].plain \in BOOLEAN
      BY <3>1 DEF TaskStates
    <3> QED  BY <3>2, <3>3
  <2> QED  BY <1>6, <2>1
<1>9. GraphsTyped' /\ Said' /\ GeneratedLast' /\ ToolFile'
  BY <1>1, <1>2, <1>3, <1>4, <1>5, <1>7
     DEF GraphsInv, GraphsTyped, UriGiven, Said, GeneratedLast, ToolFile
<1>10. CASE tool.kind = "generate"
  <2>1. /\ Target = tool.uri /\ tool.uri \in Uris /\ BaseUri \in Uris
        /\ tool.upload = FALSE
    BY <1>1, <1>10
       DEF Target, GraphsInv, GraphsTyped, UriGiven, Uris, WorkflowAssumption, WorkflowInv,
           ToolReady
  <2>2. BgLoaded'
    <3>1. ASSUME NEW t \in Tasks, bg'[t].pc = "record", bg'[t].plain = TRUE
          PROVE  ~Rewriting' /\ (bg'[t].uri = BaseUri => graphs'[BaseUri] = bg'[t].file)
      <4>1. IsPlain(t)
        BY <1>8, <3>1 DEF IsPlain
      <4>2. ~Rewriting /\ (bg[t].uri = BaseUri => graphs[BaseUri] = bg[t].file)
        BY <4>1 DEF GraphsInv, BgLoaded
      <4>3. bg[t].uri = BaseUri => graphs' = graphs \/ Target # BaseUri
        BY <1>6, <1>8, <3>1 DEF Meets
      <4> QED  BY <1>4, <1>5, <1>8, <2>1, <4>2, <4>3
    <3> QED  BY <3>1 DEF BgLoaded, IsPlain
  <2>3. CASE UNCHANGED <<graphs, bg, rewritten>> /\ tool'.pc = "idle"
    BY <1>2, <1>9, <2>2, <2>3
       DEF GraphsInv, ToolLoaded, PersistedIsNamed, Named
  <2>4. CASE /\ \E n \in Loaded : graphs' = [graphs EXCEPT ![Target] = n]
             /\ rewritten' = (rewritten \/ MeetsRecorded)
    <3>1. rewritten' # TRUE => ~MeetsRecorded
      BY <2>4
    <3>2. rewritten' # TRUE => graphs'[Target] = tool.file
      BY <2>1, <2>4, <3>1 DEF MeetsRecorded, Loaded, GraphsInv, GraphsTyped
    <3>3. ToolLoaded'
      BY <1>3, <1>10, <2>1, <3>2 DEF ToolLoaded
    <3>4. ASSUME stray = FALSE, rewritten' = FALSE, section.persisted = TRUE
          PROVE  \/ section.file = graphs'[section.graph]
                 \/ \E t \in Tasks : /\ bg'[t].pc = "record"
                                     /\ bg'[t].file = graphs'[section.graph]
      <4>1. rewritten = FALSE /\ Named(graphs[section.graph]) /\ section.graph \in Uris
        BY <1>7, <3>4 DEF GraphsInv, PersistedIsNamed, GraphsTyped
      <4>2. CASE section.graph # Target
        <5>1. graphs'[section.graph] = graphs[section.graph]
          BY <1>4, <4>1, <4>2
        <5>2. \/ graphs[section.graph] = section.file
              \/ \E t \in Tasks : bg[t].pc = "record" /\ bg[t].file = graphs[section.graph]
          BY <4>1 DEF Named
        <5> QED  BY <1>8, <5>1, <5>2
      <4>3. CASE section.graph = Target
        <5>1. rewritten' # TRUE
          BY <3>4
        <5>2. ~MeetsRecorded
          BY <3>1, <5>1
        <5>3. section.file = tool.file
          BY <4>3, <5>2 DEF MeetsRecorded
        <5>4. graphs'[Target] = tool.file
          BY <3>2, <5>1
        <5> QED  BY <4>3, <5>3, <5>4
      <4> QED  BY <4>2, <4>3
    <3>5. PersistedIsNamed'
      BY <1>2, <3>4 DEF PersistedIsNamed, Named
    <3> QED  BY <1>9, <2>2, <3>3, <3>5 DEF GraphsInv
  <2> QED  BY <1>6, <2>3, <2>4
<1>11. CASE tool.kind # "generate"
  <2>1. Rewriting /\ rewritten = TRUE
    BY <1>1, <1>11
       DEF Rewriting, Rewrites, Writers, WorkflowInv, ToolReady, GraphsInv, Said
  <2>2. BgLoaded' /\ PersistedIsNamed'
    BY <1>7, <1>8, <2>1 DEF GraphsInv, BgLoaded, IsPlain, PersistedIsNamed
  <2>3. tool.kind = "store" /\ tool'.pc = "record" => graphs'[tool.uri] = tool.file
    <3>1. /\ tool.kind = "store" => tool.upload = FALSE /\ tool.uri \in Uris /\ Target = tool.uri
          /\ tool.kind = "store" => tool.crossed = FALSE
      BY DEF WorkflowInv, ToolReady, GraphsInv, GraphsTyped, UriGiven, Uris,
             WorkflowAssumption, Target
    <3> QED  BY <1>1, <1>6, <3>1 DEF Loaded, GraphsInv, GraphsTyped
  <2>4. ToolLoaded'
    BY <1>3, <1>11, <2>3 DEF ToolLoaded
  <2> QED  BY <1>9, <2>2, <2>4 DEF GraphsInv
<1> QED  BY <1>10, <1>11

(* A generation marks the graph it loaded, if its file is still on record. *)
LEMMA GraphsMark ==
  ASSUME WorkflowAssumption, WorkflowInv, GraphsInv, Mark
  PROVE  GraphsInv'
<1>1. /\ tool.kind = "generate" /\ tool.pc = "mark" /\ tool.uri \in Uris
      /\ \/ graphs[tool.uri] = tool.file \/ Recording(graphs[tool.uri])
         \/ section.file # tool.file \/ stray = TRUE \/ rewritten = TRUE
  BY DEF WorkflowInv, ToolReady, Mark, GraphsInv, GraphsTyped, UriGiven, ToolLoaded, Uris,
         WorkflowAssumption
<1>2. /\ UNCHANGED <<graphs, bg, stray, rewritten>>
      /\ tool'.kind = "none" /\ tool'.pc = "idle"
  BY IdleTool DEF Mark
<1>3. \/ section' = section
      \/ /\ section.file = tool.file /\ section'.file = section.file
         /\ section'.graph = tool.uri
  BY DEF Mark, StillRecorded, WorkflowInv, WorkflowTypeOK
<1>4. PersistedIsNamed'
  BY <1>1, <1>2, <1>3 DEF GraphsInv, PersistedIsNamed, Named, Recording
<1>5. GraphsTyped' /\ GeneratedLast' /\ ToolFile' /\ ToolLoaded' /\ BgLoaded' /\ Said'
  BY <1>1, <1>2, <1>3
     DEF GraphsInv, GraphsTyped, UriGiven, GeneratedLast, ToolFile, ToolLoaded, BgLoaded,
         IsPlain, Said, Rewriting
<1> QED  BY <1>4, <1>5 DEF GraphsInv

LEMMA GraphsSessions ==
  ASSUME WorkflowAssumption, WorkflowInv, GraphsInv, NEW s \in Sessions,
         \/ LoadMyOntology(s) \/ ResetCache(s) \/ Leave(s) \/ Join(s)
  PROVE  GraphsInv'
<1>1. ASSUME LoadMyOntology(s) PROVE GraphsInv'
  <2>1. /\ Overlaps /\ UNCHANGED <<section, stray, tool>> /\ tool.pc = "idle"
        /\ 0 \in FileNumbers
    BY <1>1 DEF LoadMyOntology, FileNumbers, WorkflowAssumption
  <2>2. graphs' = graphs \/ \E uri \in CallerUris : graphs' = [graphs EXCEPT ![uri] = 0]
    BY <1>1 DEF LoadMyOntology
  <2>3. graphs' \in [Uris -> FileNumbers]
    BY <2>1, <2>2 DEF GraphsInv, GraphsTyped
  <2>4. GeneratedLast' /\ ToolFile' /\ ToolLoaded'
    BY <2>1 DEF GeneratedLast, ToolFile, ToolLoaded
  <2> QED  BY <2>1, <2>3, <2>4, RewritingBegins DEF GraphsInv, GraphsTyped
<1>2. ASSUME ResetCache(s) \/ Leave(s) \/ Join(s) PROVE GraphsInv'
  <2>1. UNCHANGED <<family, section, graphs, bg, stray, rewritten, tool>>
    BY <1>2 DEF ResetCache, Leave, Join, workspace
  <2>2. GeneratedLast' /\ ToolFile' /\ ToolLoaded' /\ (Rewriting' => Rewriting)
    BY <2>1 DEF GraphsInv, GeneratedLast, ToolFile, ToolLoaded, Recording, Generating,
                Rewriting
  <2> QED  BY <2>1, <2>2, GraphsRest DEF GraphsInv, GraphsTyped
<1> QED  BY <1>1, <1>2

(* What a background generation loads is what it is about to record.       *)
LEMMA GraphsBgWrite ==
  ASSUME WorkflowAssumption, WorkflowInv, GraphsInv,
         NEW t \in Tasks, NEW s \in Sessions, BgWrite(t, s)
  PROVE  GraphsInv'
<1> DEFINE new == Written + 1
<1>1. /\ UNCHANGED <<section, stray, rewritten>>
      /\ tool'.pc = tool.pc /\ tool'.kind = tool.kind /\ tool'.uri = tool.uri
      /\ tool'.file = tool.file /\ tool'.beside = tool.beside
      /\ tool.kind = "store" => tool'.crossed = tool.crossed
  <2>1. \/ tool' = tool
        \/ tool' = [tool EXCEPT !.crossed = TRUE] /\ tool.kind \in {"generate", "validate"}
    BY DEF BgWrite, InThread
  <2>2. tool \in Calls /\ UNCHANGED <<section, stray, rewritten>>
    BY DEF BgWrite, WorkflowInv, WorkflowTypeOK
  <2> QED  BY <2>1, <2>2 DEF Calls
<1>2. new \in FileNumbers
  BY NewFileFresh DEF BgWrite, WorkflowInv, Numbers, FileNumbers, WorkflowAssumption
<1> HIDE DEF new
<1>3. /\ bg[t] \in TaskStates /\ bg \in [Tasks -> TaskStates] /\ bg[t].pc = "idle"
      /\ \A u \in Tasks \ {t} : bg[u].pc = "idle"
  BY DEF BgWrite, FamilyFree, WorkflowInv, WorkflowTypeOK
<1>4. PICK outcome \in {"loaded", "failed", "no_store"} :
        /\ bg' = [bg EXCEPT ![t].pc = "record", ![t].file = new,
                            ![t].previous = session[s].file,
                            ![t].plain = outcome # "failed" /\ ~Rewriting,
                            ![t].uri = IF outcome = "no_store" THEN "none" ELSE BaseUri]
        /\ graphs' = IF outcome = "loaded" THEN [graphs EXCEPT ![BaseUri] = new] ELSE graphs
  BY DEF BgWrite, new
<1>5. /\ bg'[t].pc = "record" /\ bg'[t].file = new
      /\ bg'[t].uri = IF outcome = "no_store" THEN "none" ELSE BaseUri
      /\ \A u \in Tasks \ {t} : bg'[u] = bg[u]
  BY <1>3, <1>4 DEF TaskStates
<1>6. bg'[t].plain = TRUE => outcome # "failed" /\ ~Rewriting
  BY <1>3, <1>4 DEF TaskStates
<1>7. /\ graphs' \in [Uris -> FileNumbers] /\ graphs'[BaseUri] \in {graphs[BaseUri], new}
      /\ \A u \in Uris \ {BaseUri} : graphs'[u] = graphs[u]
      /\ outcome = "loaded" => graphs'[BaseUri] = new
  BY <1>2, <1>4 DEF GraphsInv, GraphsTyped, Uris, WorkflowAssumption
<1>8. Rewriting' <=> Rewriting
  BY <1>1 DEF Rewriting
<1>9. BgLoaded'
  BY <1>3, <1>5, <1>6, <1>7, <1>8 DEF BgLoaded, IsPlain
<1>10. GraphsTyped' /\ GeneratedLast' /\ Said'
  BY <1>1, <1>7, <1>8 DEF GraphsInv, GraphsTyped, UriGiven, GeneratedLast, Said
<1>14. ToolFile'
  BY <1>1, NewFileFresh DEF GraphsInv, ToolFile, BgWrite, WorkflowInv
<1>11. ToolLoaded'
  <2>1. \A n : ~Recording(n)
    BY <1>3 DEF Recording
  <2>2. tool.pc \in {"mark", "record"} /\ tool.kind \in {"generate", "store"} =>
          tool.uri \in Uris
    BY DEF GraphsInv, GraphsTyped, UriGiven, WorkflowAssumption
  <2>3. tool.pc = "mark" => tool.kind = "generate"
    BY DEF WorkflowInv, ToolReady
  <2>4. Generating'
    BY <1>5 DEF Generating
  <2>5. tool.uri \in Uris => graphs'[tool.uri] \in {graphs[tool.uri], new}
    BY <1>7
  <2>6. tool'.pc = "record" /\ tool'.kind = "store" =>
          graphs'[tool'.uri] = tool'.file \/ tool'.beside = TRUE \/ Generating'
    BY <2>4
  <2>7. ASSUME tool'.pc = "mark"
        PROVE  \/ graphs'[tool'.uri] = tool'.file
               \/ \E u \in Tasks : bg'[u].pc = "record" /\ bg'[u].file = graphs'[tool'.uri]
               \/ section'.file # tool'.file \/ stray' = TRUE \/ rewritten' = TRUE
    <3>1. graphs'[tool'.uri] = graphs[tool.uri] \/ graphs'[tool'.uri] = new
      BY <1>1, <2>2, <2>3, <2>5, <2>7
    <3>2. graphs'[tool'.uri] = new =>
            \E u \in Tasks : bg'[u].pc = "record" /\ bg'[u].file = graphs'[tool'.uri]
      BY <1>5
    <3>3. \/ graphs[tool.uri] = tool.file
          \/ section.file # tool.file \/ stray = TRUE \/ rewritten = TRUE
      BY <1>1, <2>1, <2>7 DEF GraphsInv, ToolLoaded
    <3> QED  BY <1>1, <3>1, <3>2, <3>3
  <2> QED  BY <2>6, <2>7 DEF ToolLoaded, Recording
<1>12. ASSUME stray' = FALSE, rewritten' = FALSE, section'.persisted = TRUE
       PROVE  \/ section'.file = graphs'[section'.graph]
              \/ bg'[t].file = graphs'[section'.graph]
  <2>1. section.graph \in Uris /\ Named(graphs[section.graph])
    BY <1>1, <1>12 DEF GraphsInv, PersistedIsNamed, GraphsTyped
  <2>2. section.file = graphs[section.graph]
    BY <1>3, <2>1 DEF Named
  <2>3. graphs'[section.graph] = graphs[section.graph] \/ graphs'[section.graph] = new
    BY <1>7, <2>1
  <2> QED  BY <1>1, <1>5, <2>2, <2>3
<1>13. PersistedIsNamed'
  BY <1>5, <1>12 DEF PersistedIsNamed, Named
<1> QED  BY <1>9, <1>10, <1>11, <1>13, <1>14 DEF GraphsInv

(* A record is of the graph loaded before, unless a rewriting tool came    *)
(* between, and then it says so.                                           *)
LEMMA GraphsBgRecord ==
  ASSUME WorkflowAssumption, WorkflowInv, GraphsInv, NEW t \in Tasks, BgRecord(t)
  PROVE  GraphsInv'
<1>1. /\ bg[t] \in TaskStates /\ bg \in [Tasks -> TaskStates] /\ bg[t].pc = "record"
      /\ bg[t].uri \in {"none", BaseUri} /\ bg[t].plain \in BOOLEAN
      /\ \A u \in Tasks \ {t} : bg[u].pc = "idle"
  BY DEF WorkflowInv, WorkflowTypeOK, OneTask, BgRecord, TaskStates
<1>2. UNCHANGED <<family, graphs, tool>>
  BY DEF BgRecord
<1>3. \A u \in Tasks : bg'[u].pc # "record"
  BY <1>1 DEF BgRecord, TaskStates
<1>4. \/ /\ section'.file = bg[t].file /\ section'.graph = bg[t].uri
         /\ section'.persisted = (bg[t].uri # "none")
         /\ stray' = FALSE /\ rewritten' = ~bg[t].plain
      \/ section' = section /\ stray' = TRUE /\ rewritten' = rewritten
  BY DEF BgRecord, Records
<1>5. GraphsTyped'
  <2>1. rewritten' \in BOOLEAN
    BY <1>1, <1>4 DEF GraphsInv, GraphsTyped
  <2>2. section'.persisted = TRUE => section'.graph \in Uris
    BY <1>1, <1>4 DEF GraphsInv, GraphsTyped, Uris, WorkflowAssumption
  <2> QED  BY <1>2, <2>1, <2>2 DEF GraphsInv, GraphsTyped
<1>6. GeneratedLast' /\ ToolFile' /\ BgLoaded'
  BY <1>1, <1>2, <1>3, <1>4 DEF GraphsInv, GeneratedLast, ToolFile, BgLoaded, IsPlain
<1>9. ToolLoaded'
  <2>1. tool.pc = "mark" => tool.file \in Numbers /\ family[tool.file] = "generate"
    BY DEF WorkflowInv, ToolReady, GraphsInv, ToolFile
  <2>2. family[bg[t].file] = "auto"
    BY <1>1 DEF WorkflowInv, BgOwns
  <2>3. tool.pc = "mark" => section'.file # tool.file \/ stray' = TRUE
    BY <1>4, <2>1, <2>2
  <2>4. bg'[t].pc # "idle"
    BY <1>1 DEF BgRecord, TaskStates
  <2>5. Generating'
    BY <2>4 DEF Generating
  <2> QED  BY <1>2, <2>3, <2>5 DEF ToolLoaded
<1>7. Said'
  <2>1. bg[t].plain = TRUE => ~Rewriting
    BY <1>1 DEF GraphsInv, BgLoaded, IsPlain
  <2> QED  BY <1>1, <1>2, <1>4, <2>1 DEF GraphsInv, Said, Rewriting
<1>8. PersistedIsNamed'
  <2>1. ASSUME stray' = FALSE, rewritten' = FALSE, section'.persisted = TRUE
        PROVE  section'.file = graphs'[section'.graph]
    <3>1. bg[t].plain = TRUE /\ bg[t].uri = BaseUri
      BY <1>1, <1>4, <2>1
    <3>2. graphs[BaseUri] = bg[t].file
      BY <1>1, <3>1 DEF GraphsInv, BgLoaded, IsPlain
    <3> QED  BY <1>2, <1>4, <2>1, <3>1, <3>2
  <2> QED  BY <2>1 DEF PersistedIsNamed, Named
<1> QED  BY <1>5, <1>6, <1>7, <1>8, <1>9 DEF GraphsInv

LEMMA GraphsBgPrune ==
  ASSUME WorkflowAssumption, WorkflowInv, GraphsInv, NEW t \in Tasks, BgPrune(t)
  PROVE  GraphsInv'
<1>1. /\ bg[t].pc = "prune" /\ \A u \in Tasks \ {t} : bg[u].pc = "idle"
      /\ bg \in [Tasks -> TaskStates] /\ tool \in Calls
  BY DEF WorkflowInv, WorkflowTypeOK, OneTask, BgPrune
<1>2. UNCHANGED <<family, section, graphs, stray, rewritten>>
  BY DEF BgPrune
<1>3. \A u \in Tasks : bg[u].pc # "record" /\ bg'[u].pc # "record"
  BY <1>1 DEF BgPrune, NoTask
<1>4. /\ tool'.pc = tool.pc /\ tool'.kind = tool.kind /\ tool'.uri = tool.uri
      /\ tool'.file = tool.file /\ tool'.crossed = tool.crossed
      /\ tool.kind = "store" => tool'.beside = TRUE
  BY <1>1 DEF BgPrune, Calls
<1>5. GraphsTyped' /\ GeneratedLast' /\ ToolFile' /\ Said'
  BY <1>2, <1>4
     DEF GraphsInv, GraphsTyped, UriGiven, GeneratedLast, ToolFile, Said, Rewriting
<1>7. ToolLoaded'
  <2>1. \A n : ~Recording(n)
    BY <1>3 DEF Recording
  <2> QED  BY <1>2, <1>4, <2>1 DEF GraphsInv, ToolLoaded
<1>6. BgLoaded' /\ PersistedIsNamed'
  BY <1>2, <1>3 DEF GraphsInv, BgLoaded, IsPlain, PersistedIsNamed, Named
<1> QED  BY <1>5, <1>6, <1>7 DEF GraphsInv

LEMMA GraphsStep ==
  ASSUME WorkflowAssumption, WorkflowInv, GraphsInv, [Next]_vars
  PROVE  GraphsInv'
<1>1. ASSUME UNCHANGED vars PROVE GraphsInv'
  BY <1>1 DEF vars, workspace, GraphsInv, GraphsTyped, GeneratedLast, ToolFile, ToolLoaded,
              Recording, Generating, BgLoaded, IsPlain, Said, Rewriting, PersistedIsNamed, Named
<1>2. ASSUME NEW s \in Sessions,
             \/ Generate(s) \/ ApplySemanticNames(s) \/ ValidateRelationship(s)
             \/ StoreOntology(s)
      PROVE  GraphsInv'
  BY <1>2, GraphsBegin
<1>3. ASSUME NEW s \in Sessions,
             \/ LoadMyOntology(s) \/ ResetCache(s) \/ Leave(s) \/ Join(s)
      PROVE  GraphsInv'
  BY <1>3, GraphsSessions
<1>4. ASSUME Write \/ Record \/ Prune \/ Check \/ Load \/ Mark PROVE GraphsInv'
  BY <1>4, GraphsWrite, GraphsRecord, GraphsPruneCheck, GraphsLoad, GraphsMark
<1>5. ASSUME NEW t \in Tasks, (\E s \in Sessions : BgWrite(t, s)) \/ BgRecord(t) \/ BgPrune(t)
      PROVE  GraphsInv'
  BY <1>5, GraphsBgWrite, GraphsBgRecord, GraphsBgPrune
<1> QED  BY <1>1, <1>2, <1>3, <1>4, <1>5 DEF Next

(* GraphsInv is inductive, beside WorkflowInv.                             *)
THEOREM GraphsInductive == Spec => []GraphsInv
<1>1. Init => GraphsInv
  BY GraphsInit, WorkflowAssumption
<1>2. WorkflowInv /\ GraphsInv /\ [Next]_vars => GraphsInv'
  BY GraphsStep, WorkflowAssumption
<1> QED  BY <1>1, <1>2, WorkflowInductive, PTL DEF Spec

(* With any number of sessions, generations and files, and whatever graph  *)
(* URIs the callers give, a schema whose ontology is recorded as persisted *)
(* has that ontology in its graph, as long as generations alone wrote,     *)
(* their records succeeded, and no call's load met a background            *)
(* generation's in one graph (ontology_is_current,                         *)
(* mark_ontology_persisted).                                               *)
THEOREM GraphsAreRecorded == Spec => []GraphIsRecorded
<1>1. WorkflowInv /\ GraphsInv => GraphIsRecorded
  BY DEF WorkflowInv, WorkflowTypeOK, GraphsInv, GraphsTyped, PersistedIsNamed, GraphIsRecorded
<1> QED  BY <1>1, WorkflowInductive, GraphsInductive, PTL
=============================================================================
