---------------------------- MODULE TableIdentity ----------------------------
(***************************************************************************)
(* graphrag/identity.py: how the index names a table so that two schemas   *)
(* can hold one of the same name, and which table a name given by a caller *)
(* means.                                                                  *)
(*                                                                         *)
(* A name is a sequence of characters.  Only the dot and the double quote  *)
(* are told apart from the others, so a handful of characters is enough.   *)
(* The absent schema and the empty one are the same to the code ("if not   *)
(* schema") and are written << >>.                                         *)
(***************************************************************************)
EXTENDS Integers, SequencesExt

Dot == "."
Quote == "\""
NoSchema == << >>
NoTable == << >>

(* Mutant: inner quotes are not doubled.                                   *)
QuotePartUndoubled(part) ==
    IF \E i \in DOMAIN part : part[i] \in {Dot, Quote}
    THEN <<Quote>> \o part \o <<Quote>>
    ELSE part

(* Each character, a quote doubled.                                        *)
Doubled(part) ==
    FlattenSeq([i \in DOMAIN part |->
                  IF part[i] = Quote THEN <<Quote, Quote>> ELSE <<part[i]>>])

(* quote_part: quoted, inner quotes doubled, when it could be misread.     *)
QuotePart(part) ==
    IF \E i \in DOMAIN part : part[i] \in {Dot, Quote}
    THEN <<Quote>> \o Doubled(part) \o <<Quote>>
    ELSE part

Qualified(schema, table) ==
    IF schema = NoSchema
    THEN QuotePart(table)
    ELSE QuotePart(schema) \o <<Dot>> \o QuotePart(table)

(* _components, one character further.  "done" holds the components that   *)
(* ended, "open" the one being read; a doubled quote inside quotes stands  *)
(* for one and is read together, its second character skipped.             *)
Unread == [done |-> << >>, open |-> << >>, quoted |-> FALSE, skip |-> FALSE]

ReadOn(r, c, doubled) ==
    IF r.skip
    THEN [r EXCEPT !.skip = FALSE]
    ELSE IF r.quoted /\ c = Quote /\ doubled
    THEN [r EXCEPT !.open = @ \o <<Quote>>, !.skip = TRUE]
    ELSE IF c = Quote
    THEN [r EXCEPT !.quoted = ~@]
    ELSE IF c = Dot /\ ~r.quoted
    THEN [r EXCEPT !.done = @ \o << r.open >>, !.open = << >>]
    ELSE [r EXCEPT !.open = @ \o <<c>>]

Components(identity) ==
    LET doubled(i) == i < Len(identity) /\ identity[i + 1] = Quote
        read[i \in 0..Len(identity)] ==
          IF i = 0 THEN Unread ELSE ReadOn(read[i - 1], identity[i], doubled(i))
        last == read[Len(identity)]
    IN last.done \o << last.open >>

(* split: the schema (or none) and the table, joined again with dots when  *)
(* the text had more than two components.                                  *)
Split(identity) ==
    LET parts == Components(identity)
        rest == Tail(parts)
    IN IF Len(parts) = 1
       THEN [schema |-> NoSchema, table |-> parts[1]]
       ELSE [schema |-> parts[1],
             table |-> FlattenSeq([i \in DOMAIN rest |->
                           IF i = 1 THEN rest[i] ELSE <<Dot>> \o rest[i]])]

DisplayName(identity) == Split(identity).table

-----------------------------------------------------------------------------
(* choose: an exact identity, then the only table of that name, then the   *)
(* one in the session's schema; anything else is reported, not guessed.    *)
Choose(name, isIdentity, candidates, currentSchema) ==
    LET preferred == Qualified(currentSchema, name)
    IN IF isIdentity
       THEN [identity |-> name, candidates |-> {name}]
       ELSE IF Cardinality(candidates) = 1
       THEN [identity |-> CHOOSE c \in candidates : TRUE, candidates |-> candidates]
       ELSE IF currentSchema # NoSchema /\ preferred \in candidates
       THEN [identity |-> preferred, candidates |-> candidates]
       ELSE [identity |-> NoTable, candidates |-> candidates]

Found(resolution) == resolution.identity # NoTable

Ambiguous(resolution) ==
    ~Found(resolution) /\ Cardinality(resolution.candidates) > 1

(* resolve: the same, by walking the identities that are known.            *)
Resolve(name, known, currentSchema) ==
    Choose(name, name \in known,
           {identity \in known : DisplayName(identity) = name}, currentSchema)
=============================================================================
