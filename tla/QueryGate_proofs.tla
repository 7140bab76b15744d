-------------------------- MODULE QueryGate_proofs --------------------------
(***************************************************************************)
(* Theorems about QueryGate, for any number of calls, connects, ontologies *)
(* and rows.                                                               *)
(*                                                                         *)
(* RunsAsJudged speaks of a call that waits for the database, and nothing  *)
(* keeps the session where it was by then.  It rests on what holds when    *)
(* the call is judged: an ontology or a validator the session has there is *)
(* of its connection, and it has an empty validator only once a file could *)
(* not be read (SessionHere), and the connection is the one the call       *)
(* pinned; and on what a call carries through a question (Carried).        *)
(***************************************************************************)
EXTENDS QueryGate, TLAPS

Places == Databases \union {"none"}
Answers == {"none", "yes", "no"}
States == {"idle", "done", "parsing", "syntax", "asking", "asked", "queued"}

Requests == [pc : States, tool : {"execute", "validate"}, allow : BOOLEAN, limit : Nat,
             pinned : [db : Places, life : Nat], manager : Nat,
             by : Ontologies \union {NoOntology, Empty},
             judgedOn : [db : Places, life : Nat],
             without : {"nothing", "ontology", "file"}, about : Places, answer : Answers,
             accepted : Places,
             outcome : {"none", "connection_changed", "answered", "invalid", "fan_trap",
                        "declined", "refused", "failed", "ran"}]

SessionTyped ==
  /\ client \in Clients
  /\ connection \in [db : Places, life : Nat] /\ manager \in Nat
  /\ ontology \in Ontologies \union {NoOntology}
  /\ validator \in Ontologies \union {NoOntology, Empty}
  /\ lost \in BOOLEAN /\ unread \in BOOLEAN
  /\ connects \in Nat

GateTypeOK == SessionTyped /\ call \in [Calls -> Requests]

SessionHere ==
  /\ ontology # NoOntology => ontology.db = connection.db
  /\ validator \in Ontologies => validator.db = connection.db
  /\ validator = Empty \/ lost => unread

\* Judged where it was pinned.
JudgedThere(r) ==
  /\ r.judgedOn.db = r.pinned.db
  /\ \/ r.by \in Ontologies /\ r.by.db = r.pinned.db
     \/ r.by = NoOntology /\ r.without = "ontology"
     \/ r.by = Empty /\ r.without = "file"

MayRun(r, who) ==
  r.tool = "execute" =>
    /\ r.by.verdict # "invalid"
    /\ r.by.verdict = "fan_trap" => r.allow /\ (who # "silent" => r.accepted = r.pinned.db)

Carried(r, who) ==
  /\ r.pc \in {"asking", "queued"} \/ r.outcome = "answered" => JudgedThere(r)
  /\ r.pc = "queued" \/ r.outcome = "answered" => MayRun(r, who)
  /\ r.pc = "asking" => /\ r.about = r.pinned.db /\ r.allow
                        /\ r.by.verdict # "invalid" /\ r.outcome = "none"
  /\ r.pc \in {"syntax", "parsing"} => r.outcome = "none"

GateInv == GateTypeOK /\ SessionHere /\ \A c \in Calls : Carried(call[c], client)

-----------------------------------------------------------------------------

(* A request of which nothing is known yet carries nothing either.         *)
LEMMA BlankIsEmpty ==
  /\ Blank \in Requests /\ Blank.outcome = "none"
  /\ \A who : Carried(Blank, who)
<1>1. Unbound \in [db : Places, life : Nat]
  BY DEF Unbound, Places
<1>2. Blank \in Requests /\ Blank.pc = "idle" /\ Blank.outcome = "none"
  BY <1>1 DEF Blank, Requests, States, Places, Answers
<1>3. ASSUME NEW who PROVE Carried(Blank, who)
  BY <1>2 DEF Carried
<1> QED  BY <1>2, <1>3

(* A request of which nothing is left but why carries nothing.             *)
LEMMA ForgottenCarried ==
  ASSUME NEW why \in {"connection_changed", "invalid", "fan_trap", "declined", "refused",
                      "failed", "ran"}, NEW who
  PROVE  Forgotten(why) \in Requests /\ Carried(Forgotten(why), who)
<1>1. Forgotten(why) \in Requests
  BY BlankIsEmpty DEF Forgotten, Requests, States
<1>2. Forgotten(why).pc = "done" /\ Forgotten(why).outcome = why
  BY BlankIsEmpty DEF Forgotten, Requests
<1>3. Carried(Forgotten(why), who)
  BY <1>2 DEF Carried
<1> QED  BY <1>1, <1>3

(* No ontology, a validator that is empty and an ontology are told apart.  *)
LEMMA NotEmpty ==
  ASSUME QueryGateAssumption
  PROVE  NoOntology \notin Ontologies /\ Empty \notin Ontologies /\ NoOntology # Empty
BY DEF QueryGateAssumption, NoOntology, Empty, Ontologies

(* The validator a session gets is of its connection, or the session does  *)
(* without one for the reason Without gives.                               *)
LEMMA ValidatorHere ==
  ASSUME SessionTyped, SessionHere
  PROVE  /\ Validator \in Ontologies \union {NoOntology, Empty}
         /\ Without \in {"nothing", "ontology", "file"}
         /\ \/ Validator \in Ontologies /\ Validator.db = connection.db
            \/ Validator = NoOntology /\ Without = "ontology"
            \/ Validator = Empty /\ Without = "file"
         /\ Validator = Empty => unread
<1>1. CASE ontology = NoOntology
  <2>1. Validator = NoOntology /\ Without = "ontology" /\ NoOntology # Empty
    BY <1>1 DEF Validator, Without, NoOntology, Empty
  <2> QED  BY <2>1
<1>2. CASE ontology # NoOntology /\ validator # NoOntology
  <2>1. Validator = validator
    BY <1>2 DEF Validator
  <2>2. validator = Empty => Without = "file"
    BY <1>2 DEF Without, SessionHere
  <2>3. Without \in {"nothing", "ontology", "file"}
    BY DEF Without
  <2> QED  BY <1>2, <2>1, <2>2, <2>3 DEF SessionTyped, SessionHere
<1>3. CASE ontology # NoOntology /\ validator = NoOntology
  <2>1. Validator = IF lost THEN Empty ELSE ontology
    BY <1>3 DEF Validator
  <2>2. lost => unread /\ Without = "file"
    BY <1>3 DEF Without, SessionHere
  <2>3. Without \in {"nothing", "ontology", "file"}
    BY DEF Without
  <2>4. ontology \in Ontologies /\ ontology.db = connection.db
    BY <1>3 DEF SessionTyped, SessionHere
  <2>5. ontology # Empty
    BY <2>4 DEF Ontologies, Empty, Verdicts
  <2> QED  BY <2>1, <2>2, <2>3, <2>4, <2>5 DEF SessionTyped
<1> QED  BY <1>1, <1>2, <1>3

(* What is judged was judged where it was pinned, and what goes on to the  *)
(* database may run there.                                                 *)
LEMMA JudgedCarried ==
  ASSUME QueryGateAssumption, SessionTyped, SessionHere,
         NEW r \in Requests, r.outcome = "none"
  PROVE  JudgedCall(r) \in Requests /\ Carried(JudgedCall(r), client)
<1> DEFINE j == Judged(r)
<1>1. /\ Validator \in Ontologies \union {NoOntology, Empty}
      /\ Without \in {"nothing", "ontology", "file"}
      /\ \/ Validator \in Ontologies /\ Validator.db = connection.db
         \/ Validator = NoOntology /\ Without = "ontology"
         \/ Validator = Empty /\ Without = "file"
  BY ValidatorHere
<1>2. Validator.verdict \in Verdicts \union {"empty"}
  BY <1>1 DEF Ontologies, NoOntology, Empty, Verdicts
<1>3. CASE ~StillConnected(r)
  BY <1>3, ForgottenCarried DEF JudgedCall
<1>4. CASE StillConnected(r)
  <2>1. connection = r.pinned /\ connection \in [db : Places, life : Nat]
    BY <1>4 DEF StillConnected, SessionTyped
  <2>2. /\ j \in Requests
        /\ j = [r EXCEPT !.by = Validator, !.judgedOn = connection, !.without = Without]
        /\ j.by = Validator /\ j.without = Without /\ j.judgedOn = connection /\ j.pinned = connection
        /\ j.outcome = "none" /\ j.pc = r.pc /\ j.tool = r.tool /\ j.allow = r.allow
        /\ j.about = r.about /\ j.answer = r.answer
    BY <1>1, <2>1 DEF Judged, Requests
  <2>3. JudgedThere(j)
    BY <1>1, <2>2 DEF JudgedThere
  <2> HIDE DEF j
  <2>4. ASSUME j.tool = "execute" => j.by.verdict \in {"clean", "empty"}
        PROVE  Queued(j) \in Requests /\ Carried(Queued(j), client)
    <3>1. Queued(j) \in Requests /\ JudgedThere(Queued(j))
      BY <2>2, <2>3, ZenonT(60) DEF Queued, Requests, States, JudgedThere
    <3>2. /\ Queued(j).pc = "queued" /\ Queued(j).tool = j.tool
          /\ Queued(j).by = j.by
      BY <2>2 DEF Queued, Requests
    <3>3. MayRun(Queued(j), client)
      BY <3>2, <2>4 DEF MayRun
    <3> QED  BY <3>1, <3>2, <3>3 DEF Carried
  <2>5. ASSUME j.tool = "validate"
        PROVE  /\ [j EXCEPT !.pc = "done", !.outcome = "answered"] \in Requests
               /\ Carried([j EXCEPT !.pc = "done", !.outcome = "answered"], client)
    <3> DEFINE d == [j EXCEPT !.pc = "done", !.outcome = "answered"]
    <3>1. d \in Requests /\ JudgedThere(d)
      BY <2>2, <2>3, ZenonT(60) DEF Requests, States, JudgedThere
    <3>2. d.pc = "done" /\ d.outcome = "answered" /\ d.tool = "validate"
      BY <2>2, <2>5 DEF Requests
    <3> HIDE DEF d
    <3>3. Carried(d, client)
      BY <3>1, <3>2 DEF Carried, MayRun
    <3> QED  BY <3>1, <3>3 DEF d
  <2>6. ASSUME j.allow, j.tool = "execute", j.by.verdict = "fan_trap"
        PROVE  Asked(j) \in Requests /\ Carried(Asked(j), client)
    <3>0. connection.db \in Places
      BY <2>1
    <3>1. CASE client = "silent"
      <4>1. Asked(j) = Queued(j)
        BY <3>1 DEF Asked
      <4>2. Queued(j) \in Requests /\ JudgedThere(Queued(j))
        BY <2>2, <2>3, ZenonT(60) DEF Queued, Requests, States, JudgedThere
      <4>3. /\ Queued(j).pc = "queued" /\ Queued(j).allow = j.allow
            /\ Queued(j).by = j.by
        BY <2>2 DEF Queued, Requests
      <4>4. MayRun(Queued(j), client)
        BY <4>3, <3>1, <2>6 DEF MayRun
      <4> QED  BY <4>1, <4>2, <4>3, <4>4 DEF Carried
    <3>2. CASE client = "elicited"
      <4>1. Asked(j) = [j EXCEPT !.pc = "asking", !.about = connection.db]
        BY <3>2 DEF Asked
      <4> DEFINE a == [j EXCEPT !.pc = "asking", !.about = connection.db]
      <4>2. a \in Requests /\ JudgedThere(a)
        BY <3>0, <2>2, <2>3, ZenonT(60) DEF Requests, States, JudgedThere
      <4>3. /\ a.pc = "asking" /\ a.allow = j.allow /\ a.by = j.by
            /\ a.about = a.pinned.db /\ a.outcome = "none"
        BY <2>2 DEF Requests
      <4> HIDE DEF a
      <4>4. Carried(a, client)
        BY <4>2, <4>3, <2>6 DEF Carried
      <4> QED  BY <4>1, <4>2, <4>4 DEF a
    <3>3. CASE client = "stateless" /\ j.answer = "none"
      <4>1. Asked(j) = [j EXCEPT !.pc = "asked", !.about = connection.db]
        BY <3>3 DEF Asked
      <4> DEFINE a == [j EXCEPT !.pc = "asked", !.about = connection.db]
      <4>2. a \in Requests /\ a.pc = "asked" /\ a.outcome = "none"
        BY <3>0, <2>2, ZenonT(60) DEF Requests, States
      <4> HIDE DEF a
      <4>3. Carried(a, client)
        BY <4>2 DEF Carried
      <4> QED  BY <4>1, <4>2, <4>3 DEF a
    <3>4. CASE client = "stateless" /\ j.answer # "none"
      <4> DEFINE y == [j EXCEPT !.accepted = connection.db]
      <4>1. Asked(j) = IF j.about = connection.db /\ j.answer = "yes"
                       THEN Queued(y) ELSE Forgotten("declined")
        BY <3>4 DEF Asked
      <4>2. Queued(y) \in Requests /\ Carried(Queued(y), client)
        <5>1. Queued(y) \in Requests /\ JudgedThere(Queued(y))
          BY <3>0, <2>2, <2>3, ZenonT(60) DEF Queued, Requests, States, JudgedThere
        <5>2. /\ Queued(y).pc = "queued" /\ Queued(y).allow = j.allow
              /\ Queued(y).by = j.by /\ Queued(y).accepted = Queued(y).pinned.db
          BY <2>2 DEF Queued, Requests
        <5>3. MayRun(Queued(y), client)
          BY <5>2, <2>6 DEF MayRun
        <5> QED  BY <5>1, <5>2, <5>3 DEF Carried
      <4> QED  BY <4>1, <4>2, ForgottenCarried
    <3> QED  BY <3>1, <3>2, <3>3, <3>4 DEF QueryGateAssumption, ClientKinds, SessionTyped
  <2>7. JudgedCall(r) =
          CASE j.tool = "validate" -> [j EXCEPT !.pc = "done", !.outcome = "answered"]
            [] j.tool = "execute" /\ j.by.verdict \in {"clean", "empty"} -> Queued(j)
            [] j.tool = "execute" /\ j.by.verdict = "invalid" -> Forgotten("invalid")
            [] OTHER -> IF j.allow THEN Asked(j) ELSE Forgotten("fan_trap")
    BY <1>4 DEF JudgedCall, j
  <2>8. j.tool \in {"execute", "validate"} /\ j.by.verdict \in Verdicts \union {"empty"}
    BY <2>2, <1>2 DEF Requests
  <2> QED  BY <2>4, <2>5, <2>6, <2>7, <2>8, ForgottenCarried DEF Verdicts
<1> QED  BY <1>3, <1>4

(* Judged at once, or after the ontology has been parsed.                  *)
LEMMA AskKeeps ==
  ASSUME QueryGateAssumption, GateInv, NEW c \in Calls, NEW r \in Requests,
         r.outcome = "none", AskForValidator(c, r),
         UNCHANGED <<client, standing, connects>>
  PROVE  GateInv'
<1>1. ASSUME JudgeNow(c, r)
      PROVE  GateInv'
  <2>1. JudgedCall(r) \in Requests /\ Carried(JudgedCall(r), client)
    BY JudgedCarried DEF GateInv, GateTypeOK
  <2>2. SessionTyped' /\ SessionHere'
    BY <1>1, ValidatorHere, NotEmpty DEF JudgeNow, GateInv, GateTypeOK, SessionTyped, SessionHere,
                                   standing
  <2> QED  BY <1>1, <2>1, <2>2 DEF JudgeNow, GateInv, GateTypeOK
<1>2. ASSUME call' = [call EXCEPT ![c] = [r EXCEPT !.pc = "parsing"]], UNCHANGED validator
      PROVE  GateInv'
  <2>1. /\ [r EXCEPT !.pc = "parsing"] \in Requests
        /\ Carried([r EXCEPT !.pc = "parsing"], client)
    BY DEF Requests, States, Carried
  <2> QED  BY <1>2, <2>1 DEF GateInv, GateTypeOK, SessionTyped, SessionHere, standing
<1> QED  BY <1>1, <1>2 DEF AskForValidator

(* A step that only moves one call.                                        *)
LEMMA CallKeeps ==
  ASSUME GateInv, NEW c \in Calls, NEW r \in Requests, Carried(r, client),
         call' = [call EXCEPT ![c] = r], UNCHANGED <<client, session, connects>>
  PROVE  GateInv'
BY DEF GateInv, GateTypeOK, SessionTyped, SessionHere, session, standing

LEMMA ExecuteKeeps ==
  ASSUME QueryGateAssumption, GateInv, NEW c \in Calls,
         NEW r \in Requests, r.outcome = "none", NEW allow \in BOOLEAN,
         NEW limit \in Nat, ExecuteBegins(c, r, allow, limit)
  PROVE  GateInv'
<1> DEFINE p == [Pinned(r) EXCEPT !.tool = "execute", !.allow = allow, !.limit = limit]
<1>1. UNCHANGED <<client, standing, connects>>
  BY DEF ExecuteBegins
<1>2. p \in Requests /\ p.outcome = "none"
  BY DEF GateInv, GateTypeOK, SessionTyped, Pinned, Requests
<1>3. CASE HasEngine /\ limit \in 1..HardRowCap
  BY <1>1, <1>2, <1>3, AskKeeps DEF ExecuteBegins
<1>4. CASE ~(HasEngine /\ limit \in 1..HardRowCap)
  BY <1>1, <1>4, ForgottenCarried, CallKeeps DEF ExecuteBegins, session
<1> QED  BY <1>3, <1>4

-----------------------------------------------------------------------------

LEMMA GateInit ==
  ASSUME QueryGateAssumption, Init
  PROVE  GateInv
<1>1. Blank \in Requests /\ Carried(Blank, client)
  BY BlankIsEmpty
<1>2. SessionTyped /\ SessionHere
  BY NotEmpty DEF Init, SessionTyped, SessionHere, Places, Unbound
<1> QED  BY <1>1, <1>2 DEF Init, GateInv, GateTypeOK

(* The session's own steps leave the calls alone, and whatever they leave  *)
(* of the session is of its connection.                                    *)
LEMMA SessionKeeps ==
  ASSUME QueryGateAssumption, GateInv,
         \/ \E db \in Databases : Connect(db)
         \/ Reconnect \/ \E n \in 1..MaxConnects : CloseManager(n)
         \/ \E o \in Ontologies : Activate(o) \/ BackgroundActivates(o)
         \/ LoseFile \/ ResetCache
  PROVE  GateInv'
<1>1. call' = call /\ client' = client
  BY DEF Connect, Reconnect, CloseManager, Activate, BackgroundActivates, LoseFile,
         ResetCache, session
<1>2. SessionTyped' /\ SessionHere'
  <2> USE DEF GateInv, GateTypeOK, SessionTyped, SessionHere
  <2>1. ASSUME NEW db \in Databases, Connect(db)
        PROVE  SessionTyped' /\ SessionHere'
    <3>1. /\ connection'.db = db /\ connection'.life \in Nat
          /\ connection' \in [db : Places, life : Nat]
          /\ manager' \in Nat /\ connects' \in Nat
      BY <2>1 DEF Connect, LifeOf, Places
    <3>2. /\ ontology' = NoOntology /\ validator' = NoOntology
          /\ lost' = FALSE /\ unread' = FALSE /\ client' = client
      BY <2>1 DEF Connect, Named
    <3> QED  BY <3>1, <3>2, NotEmpty
  <2>2. CASE Reconnect
    BY <2>2 DEF Reconnect
  <2>3. ASSUME NEW n \in 1..MaxConnects, CloseManager(n)
        PROVE  SessionTyped' /\ SessionHere'
    BY <2>3 DEF CloseManager, session, standing
  <2>4. ASSUME NEW o \in Ontologies, Activate(o)
        PROVE  SessionTyped' /\ SessionHere'
    BY <2>4, NotEmpty DEF Activate, Named
  <2>5. CASE ResetCache
    BY <2>5, NotEmpty DEF ResetCache, Named
  <2>6. ASSUME NEW o \in Ontologies, BackgroundActivates(o)
        PROVE  SessionTyped' /\ SessionHere'
    BY <2>6 DEF BackgroundActivates
  <2>7. CASE LoseFile
    BY <2>7 DEF LoseFile
  <2> QED  BY <2>1, <2>2, <2>3, <2>4, <2>5, <2>6, <2>7
<1> QED  BY <1>1, <1>2 DEF GateInv, GateTypeOK

LEMMA GateStep ==
  ASSUME QueryGateAssumption, GateInv, [Next]_vars
  PROVE  GateInv'
<1>0. ASSUME NEW c \in Calls
      PROVE  call[c] \in Requests /\ Carried(call[c], client)
  BY DEF GateInv, GateTypeOK
<1>1. ASSUME NEW c \in Calls, Execute(c)
      PROVE  GateInv'
  <2>1. PICK allow \in BOOLEAN, limit \in 0..(HardRowCap + 1) :
               ExecuteBegins(c, Blank, allow, limit)
    BY <1>1 DEF Execute
  <2>2. limit \in Nat
    BY DEF QueryGateAssumption
  <2> QED  BY <2>1, <2>2, BlankIsEmpty, ExecuteKeeps
<1>2. ASSUME NEW c \in Calls, Retry(c)
      PROVE  GateInv'
  <2>1. PICK answer \in {"yes", "no"} :
               ExecuteBegins(c, [Blank EXCEPT !.answer = answer, !.about = call[c].about],
                             call[c].allow, call[c].limit)
    BY <1>2 DEF Retry
  <2>2. /\ answer \in Answers /\ call[c].about \in Places
        /\ call[c].allow \in BOOLEAN /\ call[c].limit \in Nat
    BY <1>0 DEF Requests, Answers
  <2> DEFINE b == [Blank EXCEPT !.answer = answer, !.about = call[c].about]
  <2>3. b \in Requests /\ b.outcome = "none"
    BY <2>2, BlankIsEmpty DEF Requests
  <2> HIDE DEF b
  <2>4. ExecuteBegins(c, b, call[c].allow, call[c].limit)
    BY <2>1 DEF b
  <2> QED  BY <2>2, <2>3, <2>4, ExecuteKeeps
<1>3. ASSUME NEW c \in Calls, Validate(c)
      PROVE  GateInv'
  <2> DEFINE p == [Pinned(Blank) EXCEPT !.tool = "validate"]
             q == [p EXCEPT !.pc = "syntax"]
  <2>1. q \in Requests /\ Carried(q, client)
    BY DEF GateInv, GateTypeOK, SessionTyped, Pinned, Blank, Requests, States, Places,
           Answers, Unbound, NoOntology, Carried
  <2> QED  BY <1>3, <2>1, ForgottenCarried, CallKeeps DEF Validate
<1>4. ASSUME NEW c \in Calls, SyntaxChecked(c)
      PROVE  GateInv'
  <2>1. UNCHANGED <<client, standing, connects>>
    BY <1>4 DEF SyntaxChecked
  <2>2. CASE call[c].manager \in closed
    BY <1>4, <2>1, <2>2, ForgottenCarried, CallKeeps DEF SyntaxChecked, session
  <2>3. CASE call[c].manager \notin closed
    <3>1. call[c] \in Requests /\ call[c].outcome = "none"
      BY <1>0, <1>4 DEF SyntaxChecked, Carried
    <3>2. AskForValidator(c, call[c])
      BY <1>4, <2>3 DEF SyntaxChecked
    <3> QED  BY <2>1, <3>1, <3>2, AskKeeps
  <2> QED  BY <2>2, <2>3
<1>5. ASSUME NEW c \in Calls, Parsed(c)
      PROVE  GateInv'
  <2>1. call[c] \in Requests /\ call[c].outcome = "none"
    BY <1>0, <1>5 DEF Parsed, Carried
  <2>2. UNCHANGED <<client, standing, connects>>
    BY <1>5 DEF Parsed
  <2>3. ASSUME JudgeNow(c, call[c])
        PROVE  GateInv'
    BY <2>1, <2>2, <2>3, AskKeeps DEF AskForValidator
  <2>4. ASSUME NotParsed(c)
        PROVE  GateInv'
    <3>1. call' = [call EXCEPT ![c] = Forgotten("failed")]
      BY <2>4 DEF NotParsed
    <3>2. SessionTyped' /\ SessionHere'
      BY <2>2, <2>4, ValidatorHere, NotEmpty
      DEF NotParsed, GateInv, GateTypeOK, SessionTyped, SessionHere, standing
    <3> QED  BY <2>2, <3>1, <3>2, ForgottenCarried DEF GateInv, GateTypeOK
  <2> QED  BY <1>5, <2>3, <2>4 DEF Parsed
<1>6. ASSUME NEW c \in Calls, Answered(c)
      PROVE  GateInv'
  <2> DEFINE r == call[c]
             a == Queued([r EXCEPT !.accepted = r.about])
  <2>1. r \in Requests /\ Carried(r, client) /\ r.pc = "asking"
    BY <1>0, <1>6 DEF Answered
  <2>2. a \in Requests /\ Carried(a, client)
    BY <2>1 DEF Queued, Requests, States, Carried, MayRun, JudgedThere
  <2>3. \E yes \in BOOLEAN :
          call' = [call EXCEPT ![c] = IF connection.db = r.about /\ yes THEN a
                                      ELSE Forgotten("declined")]
    BY <1>6 DEF Answered
  <2>4. UNCHANGED <<client, session, connects>>
    BY <1>6 DEF Answered
  <2> QED  BY <2>2, <2>3, <2>4, ForgottenCarried, CallKeeps
<1>7. ASSUME NEW c \in Calls, Run(c)
      PROVE  GateInv'
  <2>1. \/ call' = [call EXCEPT ![c] = Forgotten("failed")]
        \/ call' = [call EXCEPT ![c] = Forgotten("ran")]
    BY <1>7 DEF Run
  <2>2. UNCHANGED <<client, session, connects>>
    BY <1>7 DEF Run
  <2> QED  BY <2>1, <2>2, ForgottenCarried, CallKeeps
<1>8. ASSUME UNCHANGED vars
      PROVE  GateInv'
  BY <1>8 DEF vars, session, standing, GateInv, GateTypeOK, SessionTyped, SessionHere
<1> QED  BY <1>1, <1>2, <1>3, <1>4, <1>5, <1>6, <1>7, <1>8, SessionKeeps DEF Next

(* GateInv is inductive: each step of QueryGate keeps it.                  *)
THEOREM GateInductive == Spec => []GateInv
<1>1. Init => GateInv
  BY GateInit, QueryGateAssumption
<1>2. GateInv /\ [Next]_vars => GateInv'
  BY GateStep, QueryGateAssumption
<1> QED  BY <1>1, <1>2, PTL DEF Spec

(* The requests of the two tools, whatever the session does meanwhile, are *)
(* well formed (handlers/query.py).                                        *)
THEOREM GateTypes == Spec => []GateTypeOK
<1>1. GateInv => GateTypeOK
  BY DEF GateInv
<1> QED  BY <1>1, GateInductive, PTL

(* For any number of calls and however often the session reconnects,       *)
(* changes its ontology or loses the file of it between two awaits of      *)
(* theirs, what is sent to a database, or said of it, was judged by an     *)
(* ontology of that database, or the session named none, or the file it    *)
(* named could not be read; and an overridden fan trap was accepted for    *)
(* that database (query.py's pin, still_connected and asked_about).        *)
THEOREM RunAsTheyWereJudged == Spec => []RunsAsJudged
<1>1. GateInv => RunsAsJudged
  BY DEF GateInv, Carried, JudgedThere, MayRun, RunsAsJudged
<1> QED  BY <1>1, GateInductive, PTL

-----------------------------------------------------------------------------

RanTypeOK ==
  ran \in [limit : Nat, answer : Nat, fetched : [rows : Nat, says : BOOLEAN]]

\* Rows do not depend on the session: a limit is all a call has to keep.
LimitsTyped == \A c \in Calls : call[c].limit \in Nat

(* However a limit, what the statement says of its own, and what there is  *)
(* in the database compare, narrowing it and fetching one row more than    *)
(* asked for loses no row silently (apply_row_limit, fetch_bounded).       *)
LEMMA FetchedBounded ==
  ASSUME NEW statement \in Statements, NEW own \in Nat, NEW rows \in Nat, NEW limit \in Nat
  PROVE  LET f == Fetched(statement, own, rows, limit)
             answer == OwnAnswer(statement, own, rows)
         IN /\ f \in [rows : Nat, says : BOOLEAN] /\ answer \in Nat
            /\ f.rows <= limit /\ f.rows <= answer /\ (f.rows < answer => f.says)
<1> DEFINE sent == Sent(statement, own, rows, limit)
           got == IF sent > limit THEN limit ELSE sent
           answer == OwnAnswer(statement, own, rows)
           applied == LimitApplied(statement, own, limit)
<1>1. Fetched(statement, own, rows, limit) =
        [rows |-> got, says |-> sent > limit \/ (applied /\ got = limit)]
  BY DEF Fetched
<1>2. sent \in Nat /\ answer \in Nat
  BY DEF Sent, OwnAnswer
<1>3. ~applied => sent = answer
  BY DEF Sent
<1>4. applied => sent <= limit /\ sent <= answer /\ (sent < answer => sent = limit)
  BY DEF Sent, OwnAnswer, LimitApplied, Statements
<1> DEFINE f == Fetched(statement, own, rows, limit)
<1>5. f.rows = got /\ f.says = (sent > limit \/ (applied /\ got = limit))
  BY <1>1
<1> HIDE DEF sent, answer, applied
<1>6. got \in Nat /\ got <= limit /\ got <= answer
  BY <1>2, <1>3, <1>4
<1>7. got < answer => sent > limit \/ (applied /\ got = limit)
  BY <1>2, <1>3, <1>4
<1>8. f \in [rows : Nat, says : BOOLEAN]
  BY <1>1, <1>6
<1> HIDE DEF f, got
<1>9. f.rows <= limit /\ f.rows <= answer /\ (f.rows < answer => f.says)
  BY <1>5, <1>6, <1>7
<1> QED  BY <1>2, <1>8, <1>9 DEF f, answer

(* With any limits, statements and tables, an answer has no more rows than *)
(* asked for, and admits it when it lacks any (result_limits.py).          *)
THEOREM AnswersAreBounded == Spec => []RowsAreBounded
<1> DEFINE RInv == GateTypeOK /\ RanTypeOK /\ RowsAreBounded
<1>1. ASSUME Init PROVE RanTypeOK /\ RowsAreBounded
  BY <1>1 DEF Init, Nothing, RanTypeOK, RowsAreBounded
<1>2. ASSUME GateTypeOK, RanTypeOK, RowsAreBounded, [Next]_vars
      PROVE  RanTypeOK' /\ RowsAreBounded'
  <2>1. ASSUME UNCHANGED ran PROVE RanTypeOK' /\ RowsAreBounded'
    BY <1>2, <2>1 DEF RanTypeOK, RowsAreBounded
  <2>2. ASSUME NEW c \in Calls, Run(c), ran' # ran
        PROVE  RanTypeOK' /\ RowsAreBounded'
    <3>1. PICK statement \in Statements, own \in 0..MaxRows, rows \in 0..MaxRows :
             ran' = [limit |-> call[c].limit, answer |-> OwnAnswer(statement, own, rows),
                     fetched |-> Fetched(statement, own, rows, call[c].limit)]
      BY <2>2 DEF Run
    <3>2. call[c].limit \in Nat /\ own \in Nat /\ rows \in Nat
      BY <1>2, QueryGateAssumption DEF GateTypeOK, Requests, QueryGateAssumption
    <3> QED  BY <3>1, <3>2, FetchedBounded DEF RanTypeOK, RowsAreBounded
  <2>3. \/ UNCHANGED ran \/ \E c \in Calls : Run(c)
    BY <1>2 DEF Next, vars, Execute, Retry, ExecuteBegins, Validate, SyntaxChecked, Parsed,
                Answered, Connect, Reconnect, CloseManager, Activate,
                BackgroundActivates, LoseFile, ResetCache
  <2> QED  BY <2>1, <2>2, <2>3
<1> QED  BY <1>1, <1>2, GateTypes, PTL DEF Spec
=============================================================================
