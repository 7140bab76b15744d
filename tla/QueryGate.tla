------------------------------ MODULE QueryGate ------------------------------
(***************************************************************************)
(* The two tools a statement passes through on its way to the database:    *)
(* execute_sql_query and validate_sql_syntax (handlers/query.py), with the *)
(* question put to the user (handlers/confirmation.py), the validator of   *)
(* the session (server_state.py) and the bound on the rows that come back  *)
(* (result_limits.py).                                                     *)
(*                                                                         *)
(* One session, and any number of calls of it.  A call pins the            *)
(* connection, may await the parsing of an ontology, may await a person,   *)
(* waits for the connection's line (QueryLine) and runs in a worker; the   *)
(* session may reconnect, generate, load or reset an ontology between any  *)
(* two of those steps.  How an ontology judges a statement is QueryCheck's *)
(* subject: here it is one of Verdicts.  What the extraction kept on the   *)
(* runtime saves is time, so that a hit and a miss are both possible.      *)
(***************************************************************************)
EXTENDS Naturals, FiniteSets

CONSTANTS Calls,          \* calls of the two tools
          Databases,
          HeldElsewhere,  \* databases another session stays connected to
          Clients,        \* ways the client can be asked: a subset of ClientKinds
          HardRowCap,     \* HARD_ROW_CAP, 5000
          MaxRows,        \* bound: rows a statement matches
          MaxConnects,    \* bound: connects of the session
          MaxOntologies   \* bound: ontologies made active

ClientKinds == {"silent", "elicited", "stateless"}

ASSUME QueryGateAssumption ==
  /\ HeldElsewhere \subseteq Databases
  /\ Clients \subseteq ClientKinds
  /\ HardRowCap \in Nat \ {0} /\ MaxRows \in Nat
  /\ MaxConnects \in Nat /\ MaxOntologies \in Nat
  /\ "none" \notin Databases

VARIABLES client,      \* how this client can be asked
          connection,  \* session.connection_id and session.runtime
          manager,     \* the manager the session's calls use
          closed,      \* managers that were disconnected
          ontology,    \* the ontology the session names, a file or a text
          lost,        \* whether the file it names can no longer be read
          unread,      \* history: it could not, at some time since the validator
                       \* was last dropped
          validator,   \* session.obqc_validator: the ontology it was built from
          call,        \* the calls
          ran,         \* history: the last statement a database ran
          connects, made

standing == <<connection, manager, ontology, lost, unread>>
session == <<standing, validator>>
vars == <<client, session, closed, call, ran, connects, made>>

Verdicts == {"clean", "invalid", "fan_trap"}
Ontologies == [db : Databases, verdict : Verdicts]
NoOntology == [db |-> "none", verdict |-> "clean"]

\* A validator that was bound before its ontology could be read: it knows no
\* table, and finds every statement valid.
Empty == [db |-> "none", verdict |-> "empty"]
Unbound == [db |-> "none", life |-> 0]

(* What a statement says of its own length: nothing, a count that can be   *)
(* read, a limit that cannot (LIMIT (SELECT 1), a percentage), or that it  *)
(* takes none (SHOW).                                                      *)
Statements == {"unlimited", "counted", "unreadable", "metadata"}

\* No statement ran yet.
Nothing == [limit |-> 0, answer |-> 0, fetched |-> [rows |-> 0, says |-> FALSE]]

\* A request with nothing known of it yet.
Blank == [pc |-> "idle", tool |-> "execute", allow |-> FALSE, limit |-> 0,
          pinned |-> Unbound, manager |-> 0, by |-> NoOntology,
          judgedOn |-> Unbound, without |-> "nothing", about |-> "none", answer |-> "none",
          accepted |-> "none", outcome |-> "none"]

Init == /\ client \in Clients
        /\ connection = Unbound /\ manager = 0 /\ closed = {}
        /\ ontology = NoOntology /\ validator = NoOntology
        /\ lost = FALSE /\ unread = FALSE
        /\ call = [c \in Calls |-> Blank]
        /\ ran = Nothing
        /\ connects = 0 /\ made = 0

-----------------------------------------------------------------------------
(* Judging                                                                 *)

\* Mutant: what was pinned is not looked at again.
NeverLeft(r) == TRUE

StillConnected(r) == connection = r.pinned

\* get_session_obqc_validator: nothing awaited, and built from what the
\* session names now.  It is bound to the session before it is filled, and
\* stays as it is when there is no file to fill it from.
Validator == CASE ontology = NoOntology -> NoOntology
               [] ontology # NoOntology /\ validator # NoOntology -> validator
               [] OTHER -> IF lost THEN Empty ELSE ontology

\* What a session judges without, for the property: an ontology, or the file
\* of the one it names.
Without == CASE ontology = NoOntology -> "ontology"
             [] ontology # NoOntology /\ unread -> "file"
             [] OTHER -> "nothing"

\* The end of a request that ran nothing more.
Forgotten(why) == [Blank EXCEPT !.pc = "done", !.outcome = why]
Queued(r) == [r EXCEPT !.pc = "queued"]

Judged(r) == [r EXCEPT !.by = Validator, !.judgedOn = connection,
                       !.without = Without]

(* ask_to_confirm and the comparison after it.  answer is what the client  *)
(* sent with this request, about the connection it was asked of.           *)
Asked(r) ==
  CASE client = "silent" -> Queued(r)
    [] client = "elicited" -> [r EXCEPT !.pc = "asking", !.about = connection.db]
    [] client = "stateless" /\ r.answer = "none" ->
         [r EXCEPT !.pc = "asked", !.about = connection.db]
    [] OTHER -> IF r.about = connection.db /\ r.answer = "yes"
                THEN Queued([r EXCEPT !.accepted = connection.db])
                ELSE Forgotten("declined")

\* The part of a call from its validator to its next await.
JudgedCall(r) ==
  IF ~StillConnected(r) THEN Forgotten("connection_changed")
  ELSE LET j == Judged(r) IN
       CASE j.tool = "validate" -> [j EXCEPT !.pc = "done", !.outcome = "answered"]
         [] j.tool = "execute" /\ j.by.verdict \in {"clean", "empty"} -> Queued(j)
         [] j.tool = "execute" /\ j.by.verdict = "invalid" -> Forgotten("invalid")
         [] OTHER -> IF j.allow THEN Asked(j) ELSE Forgotten("fan_trap")

JudgeNow(c, r) == /\ call' = [call EXCEPT ![c] = JudgedCall(r)]
                  /\ validator' = Validator

(* aget_session_obqc_validator: an extraction at hand, or a worker parses  *)
(* the file, what the session names meanwhile notwithstanding.             *)
AskForValidator(c, r) ==
  \/ JudgeNow(c, r)
  \/ /\ validator = NoOntology /\ ontology # NoOntology
     /\ call' = [call EXCEPT ![c] = [r EXCEPT !.pc = "parsing"]]
     /\ UNCHANGED validator

\* The worker, or after it the getter, finds no ontology in the file: the
\* exception ends the call, and what the getter had bound stays bound.
NotParsed(c) ==
  /\ call' = [call EXCEPT ![c] = Forgotten("failed")]
  /\ \/ UNCHANGED validator
     \/ validator' = Validator /\ Validator = Empty

Parsed(c) == /\ call[c].pc = "parsing"
             /\ JudgeNow(c, call[c]) \/ NotParsed(c)
             /\ UNCHANGED <<client, standing, closed, ran, connects, made>>

-----------------------------------------------------------------------------
(* The two tools                                                           *)

HasEngine == connection # Unbound /\ manager \notin closed

Pinned(r) == [r EXCEPT !.pinned = connection, !.manager = manager]

ExecuteBegins(c, r, allow, limit) ==
  LET p == [Pinned(r) EXCEPT !.tool = "execute", !.allow = allow, !.limit = limit] IN
  /\ IF HasEngine /\ limit \in 1..HardRowCap
     THEN AskForValidator(c, p)
     ELSE call' = [call EXCEPT ![c] = Forgotten("refused")] /\ UNCHANGED validator
  /\ UNCHANGED <<client, standing, closed, ran, connects, made>>

Execute(c) == /\ call[c].pc \in {"idle", "done"}
              /\ \E allow \in BOOLEAN, limit \in 0..(HardRowCap + 1) :
                   ExecuteBegins(c, Blank, allow, limit)

\* The second round of a stateless client: the same arguments, the answer,
\* and the scope the question came with.
Retry(c) == /\ call[c].pc = "asked"
            /\ \E answer \in {"yes", "no"} :
                 ExecuteBegins(c, [Blank EXCEPT !.answer = answer, !.about = call[c].about],
                               call[c].allow, call[c].limit)

\* validate_sql_syntax asks the database first, and the ontology after.
Validate(c) ==
  LET p == [Pinned(Blank) EXCEPT !.tool = "validate"] IN
  /\ call[c].pc \in {"idle", "done"}
  /\ call' = [call EXCEPT ![c] = IF HasEngine THEN [p EXCEPT !.pc = "syntax"]
                                 ELSE Forgotten("refused")]
  /\ UNCHANGED <<client, session, closed, ran, connects, made>>

SyntaxChecked(c) ==
  /\ call[c].pc = "syntax"
  /\ IF call[c].manager \in closed
     THEN call' = [call EXCEPT ![c] = Forgotten("failed")] /\ UNCHANGED validator
     ELSE AskForValidator(c, call[c])
  /\ UNCHANGED <<client, standing, closed, ran, connects, made>>

(* The person answers a question put by elicitation.  An answer given on   *)
(* another connection is no answer, and the override is withdrawn: the     *)
(* ontology that found the fan trap finds it again.                        *)
Answered(c) ==
  LET r == call[c] IN
  /\ r.pc = "asking"
  /\ \E yes \in BOOLEAN :
       call' = [call EXCEPT ![c] =
                  IF connection.db = r.about /\ yes
                  THEN Queued([r EXCEPT !.accepted = r.about])
                  ELSE Forgotten("declined")]
  /\ UNCHANGED <<client, session, closed, ran, connects, made>>

-----------------------------------------------------------------------------
(* The database                                                            *)

\* What the database answers to the statement as the caller wrote it.
OwnAnswer(statement, own, rows) ==
  IF statement \in {"counted", "unreadable"} /\ own < rows THEN own ELSE rows

\* Mutant: a limit that cannot be read is replaced.
LimitReplaced(statement, own, limit) ==
  statement # "metadata" /\ (statement = "counted" => own > limit)

\* apply_row_limit
LimitApplied(statement, own, limit) ==
  \/ statement = "unlimited"
  \/ statement = "counted" /\ own > limit

\* The statement as it is sent, and fetch_bounded on what comes back.
Sent(statement, own, rows, limit) ==
  IF LimitApplied(statement, own, limit) THEN IF limit < rows THEN limit ELSE rows
  ELSE OwnAnswer(statement, own, rows)

Fetched(statement, own, rows, limit) ==
  LET sent == Sent(statement, own, rows, limit)
      got == IF sent > limit THEN limit ELSE sent
  IN [rows |-> got,
      says |-> sent > limit \/ (LimitApplied(statement, own, limit) /\ got = limit)]

\* The worker runs the statement on the manager pinned at the start.
Run(c) ==
  LET r == call[c] IN
  /\ r.pc = "queued"
  /\ IF r.manager \in closed
     THEN call' = [call EXCEPT ![c] = Forgotten("failed")] /\ UNCHANGED ran
     ELSE \E statement \in Statements, own \in 0..MaxRows, rows \in 0..MaxRows :
            /\ call' = [call EXCEPT ![c] = Forgotten("ran")]
            /\ ran' = [limit |-> r.limit, answer |-> OwnAnswer(statement, own, rows),
                       fetched |-> Fetched(statement, own, rows, r.limit)]
  /\ UNCHANGED <<client, session, closed, connects, made>>

-----------------------------------------------------------------------------
(* The rest of the session                                                 *)

\* A runtime lives until its last holder leaves.
LifeOf(db) == IF db \in HeldElsewhere THEN 0 ELSE connects + 1

\* The session names another ontology, or none, and its validator is dropped.
Named(o) == /\ ontology' = o /\ validator' = NoOntology
            /\ lost' = FALSE /\ unread' = FALSE

\* Another database: the session's ontologies are cleared and it is bound,
\* with nothing awaited in between (connect_database after its worker).
Connect(db) ==
  /\ connection.db # db
  /\ connects < MaxConnects
  /\ connects' = connects + 1
  /\ connection' = [db |-> db, life |-> LifeOf(db)]
  /\ manager' = connects + 1
  /\ Named(NoOntology)
  /\ UNCHANGED <<client, closed, call, ran, made>>

\* The same database again: the runtime and the ontologies stay, and the
\* manager is replaced when it had lost its connection.
Reconnect ==
  /\ connection # Unbound
  /\ connects < MaxConnects
  /\ connects' = connects + 1
  /\ manager' = connects + 1
  /\ UNCHANGED <<client, connection, ontology, lost, unread, validator, closed, call,
                 ran, made>>

\* A manager nobody uses any more closes when its line is empty, if the
\* runtime it belonged to is not held elsewhere.
CloseManager(n) ==
  /\ n \in 1..connects /\ n # manager /\ n \notin closed
  /\ closed' = closed \union {n}
  /\ UNCHANGED <<client, session, call, ran, connects, made>>

\* generate_ontology, apply_semantic_names, load_my_ontology, the restore.
Activate(o) ==
  /\ connection # Unbound /\ o.db = connection.db
  /\ made < MaxOntologies
  /\ made' = made + 1
  /\ Named(o)
  /\ UNCHANGED <<client, connection, manager, closed, call, ran, connects>>

\* The background generation names its file, and leaves the validator.
BackgroundActivates(o) ==
  /\ connection # Unbound /\ o.db = connection.db
  /\ made < MaxOntologies
  /\ made' = made + 1
  /\ ontology' = o /\ lost' = FALSE
  /\ UNCHANGED <<client, connection, manager, unread, validator, closed, call, ran,
                 connects>>

\* A pruned, deleted or damaged file is named by the session all the same.  An
\* ontology held as text (load_my_ontology) is one this never happens to.
LoseFile ==
  /\ ontology # NoOntology /\ ~lost
  /\ lost' = TRUE /\ unread' = TRUE
  /\ UNCHANGED <<client, connection, manager, ontology, validator, closed, call, ran,
                 connects, made>>

ResetCache ==
  /\ ontology # NoOntology
  /\ Named(NoOntology)
  /\ UNCHANGED <<client, connection, manager, closed, call, ran, connects, made>>

Next == \/ \E c \in Calls : \/ Execute(c) \/ Retry(c) \/ Validate(c)
                            \/ SyntaxChecked(c) \/ Parsed(c) \/ Answered(c) \/ Run(c)
        \/ \E db \in Databases : Connect(db)
        \/ Reconnect \/ \E n \in 1..MaxConnects : CloseManager(n)
        \/ \E o \in Ontologies : Activate(o) \/ BackgroundActivates(o)
        \/ LoseFile \/ ResetCache

Spec == Init /\ [][Next]_vars

-----------------------------------------------------------------------------
(* Nothing runs on a database, and nothing is said of a statement, but by  *)
(* an ontology of that database.  There are two exceptions: the session    *)
(* named no ontology when it judged, or the file it named could not be     *)
(* read since its validator was last dropped, and the empty validator      *)
(* bound in its place judges everything valid (server_state.py:1315).      *)
(* What that ontology finds invalid does not run, and a fan trap runs only *)
(* when the model overrides it and the user, if there is one to ask,       *)
(* accepts it for that database (query.py's pin, still_connected and       *)
(* asked_about, across the parsing, the question and the line).            *)
RunsAsJudged ==
  \A c \in Calls :
    LET r == call[c] IN
    r.pc = "queued" \/ r.outcome = "answered" =>
      /\ r.judgedOn.db = r.pinned.db
      /\ \/ r.by \in Ontologies /\ r.by.db = r.pinned.db
         \/ r.by = NoOntology /\ r.without = "ontology"
         \/ r.by = Empty /\ r.without = "file"
      /\ r.tool = "execute" =>
           /\ r.by.verdict # "invalid"
           /\ r.by.verdict = "fan_trap" =>
                r.allow /\ (client # "silent" => r.accepted = r.pinned.db)

(* The rows of an answer are no more than were asked for and no more than  *)
(* the statement asks of the database itself, and an answer that lacks any *)
(* says so (result_limits.py: a limit is narrowed and never widened).      *)
RowsAreBounded ==
  /\ ran.fetched.rows <= ran.limit
  /\ ran.fetched.rows <= ran.answer
  /\ ran.fetched.rows < ran.answer => ran.fetched.says
=============================================================================
