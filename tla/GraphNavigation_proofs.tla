----------------------- MODULE GraphNavigation_proofs -----------------------
(***************************************************************************)
(* Proofs about GraphNavigation: the graph, the search and a session's own *)
(* copy of the graph follow what was last reported, join paths are the     *)
(* shortest there are, and plans leave no fact out.                        *)
(*                                                                         *)
(* The first part is about identities: the name of a table is read back    *)
(* from its quoted identity (Split, Qualified).  The second is about the   *)
(* operations on the graph and ends in the inductive invariant IInv.  The  *)
(* third is about routes through the graph, and what the two searches that *)
(* read it (ShortestPaths, Closure) find.                                  *)
(***************************************************************************)
EXTENDS GraphNavigation, FiniteSetTheorems, SequenceTheorems, WellFoundedInduction, TLAPS

-----------------------------------------------------------------------------
(* Numbers, functions and identities.                                      *)

(* A set of numbers that is not empty has a least one.                     *)
LEMMA Least ==
    ASSUME NEW S, S \subseteq Nat, S # {}
    PROVE  \E n \in S : \A m \in S : n <= m
<1>1. PICK x \in S : \A y \in S : ~ (<< y, x >> \in OpToRel(<, Nat))
    BY NatLessThanWellFounded, WFMin
<1>2. \A y \in S : x <= y
    <2> SUFFICES ASSUME NEW y \in S, y < x PROVE FALSE
        OBVIOUS
    <2>1. << y, x >> \in OpToRel(<, Nat)
        BY DEF OpToRel
    <2> QED  BY <1>1, <2>1
<1> QED  BY <1>2

(* What holds of 0, and of the next number of any it holds of, up to n.    *)
LEMMA Upto ==
    ASSUME NEW n \in Nat, NEW P, 0 \in P,
           \A i \in 0..n : i < n /\ i \in P => i + 1 \in P
    PROVE  \A i \in 0..n : i \in P
<1> SUFFICES ASSUME NEW j \in 0..n, j \notin P PROVE FALSE
    OBVIOUS
<1> DEFINE Bad == {i \in 0..n : i \notin P}
<1>1. PICK k \in Bad : \A m \in Bad : k <= m
    <2>1. Bad \subseteq Nat /\ Bad # {}
        OBVIOUS
    <2> QED  BY <2>1, Least
<1>2. k # 0 /\ k - 1 \in 0..n /\ k - 1 < n
    OBVIOUS
<1>3. k - 1 \in P
    BY <1>1, <1>2
<1> QED  BY <1>2, <1>3

(* A function that takes each of its values from the one before.           *)
Iterates(f, n, D, base, next) ==
    /\ f \in [0..n -> D]
    /\ f[0] = base
    /\ \A i \in 1..n : f[i] = next[i][f[i - 1]]

LEMMA Iterated ==
    ASSUME NEW n \in Nat, NEW D, NEW base \in D, NEW next \in [1..n -> [D -> D]]
    PROVE  \E f : Iterates(f, n, D, base, next)
<1> DEFINE Good(f, k) == f[0] = base /\ \A i \in 1..k : f[i] = next[i][f[i - 1]]
           P == {k \in 0..n : \E f \in [0..k -> D] : Good(f, k)}
<1>1. 0 \in P
    <2> DEFINE g == [i \in 0..0 |-> base]
    <2>1. g \in [0..0 -> D] /\ Good(g, 0)
        OBVIOUS
    <2> HIDE DEF g, Good
    <2>2. \E f \in [0..0 -> D] : Good(f, 0)
        BY <2>1
    <2> QED  BY <2>2
<1>2. ASSUME NEW k \in 0..n, k < n, k \in P PROVE k + 1 \in P
    <2>1. PICK f \in [0..k -> D] : Good(f, k)
        BY <1>2
    <2> DEFINE g == [i \in 0..(k + 1) |-> IF i = k + 1 THEN next[k + 1][f[k]] ELSE f[i]]
    <2>2. k + 1 \in 1..n /\ next[k + 1] \in [D -> D] /\ f[k] \in D
        BY <1>2
    <2>3. g \in [0..(k + 1) -> D]
        BY <2>2
    <2>4. Good(g, k + 1)
        <3>1. g[0] = base
            BY <2>1
        <3>2. ASSUME NEW i \in 1..(k + 1) PROVE g[i] = next[i][g[i - 1]]
            <4>1. CASE i = k + 1
                BY <4>1
            <4>2. CASE i # k + 1
                <5>1. i \in 1..k /\ g[i] = f[i] /\ g[i - 1] = f[i - 1]
                    BY <4>2
                <5> QED  BY <2>1, <5>1
            <4> QED  BY <4>1, <4>2
        <3> QED  BY <3>1, <3>2
    <2> HIDE DEF g, Good
    <2>5. \E h \in [0..(k + 1) -> D] : Good(h, k + 1)
        BY <2>3, <2>4
    <2>6. k + 1 \in 0..n
        BY <1>2
    <2> QED  BY <2>5, <2>6
<1> HIDE DEF P, Good
<1>3. \A k \in 0..n : k < n /\ k \in P => k + 1 \in P
    BY <1>2
<1>4. \A k \in 0..n : k \in P
    BY <1>1, <1>3, Upto
<1>5. n \in P
    BY <1>4
<1>6. PICK f \in [0..n -> D] : Good(f, n)
    BY <1>5 DEF P
<1>7. Iterates(f, n, D, base, next)
    BY <1>6 DEF Good, Iterates
<1> QED  BY <1>7

-----------------------------------------------------------------------------
(* Names.                                                                  *)

(* That a literal is in STRING is beyond the provers: the letters are named *)
(* once more.                                                              *)
Letter == STRING \cup {Dot, Quote}
Text == Seq(Letter)

ReadState == [done : Seq(Text), open : Text, quoted : BOOLEAN, skip : BOOLEAN]

LEMMA OneMore ==
    ASSUME NEW S, NEW s \in Seq(S), NEW e \in S
    PROVE  s \o << e >> \in Seq(S)
BY ConcatProperties

LEMMA Regrouped ==
    ASSUME NEW u \in Text, NEW v \in Text, NEW w \in Text
    PROVE  (u \o v) \o w = u \o (v \o w)
BY ConcatAssociative, SMTT(40) DEF Text

LEMMA ReadOnType ==
    ASSUME NEW r \in ReadState, NEW c \in Letter, NEW d \in BOOLEAN
    PROVE  ReadOn(r, c, d) \in ReadState
<1>1. r.done \in Seq(Text) /\ r.open \in Seq(Letter) /\ Quote \in Letter
    BY DEF ReadState, Text, Letter
<1>2. r.open \o << Quote >> \in Text /\ r.open \o << c >> \in Text
    BY <1>1, OneMore DEF Text
<1>3. r.done \o << r.open >> \in Seq(Text) /\ << >> \in Text
    BY <1>1, OneMore DEF Text
<1> QED  BY <1>2, <1>3 DEF ReadOn, ReadState

(* The states Components goes through.                                     *)
Reads(R, w) ==
    /\ R \in [0..Len(w) -> ReadState]
    /\ R[0] = Unread
    /\ \A i \in 1..Len(w) : R[i] = ReadOn(R[i - 1], w[i], i < Len(w) /\ w[i + 1] = Quote)

LEMMA ReadsAt ==
    ASSUME NEW w \in Text, NEW R, Reads(R, w), NEW k \in 0..Len(w)
    PROVE  Len(w) \in Nat /\ k \in Nat /\ R[k] \in ReadState
<1>1. Len(w) \in Nat
    BY DEF Text
<1>2. R \in [0..Len(w) -> ReadState]
    BY DEF Reads
<1> HIDE DEF ReadState
<1> QED  BY <1>1, <1>2

LEMMA SameState ==
    ASSUME NEW r \in ReadState, NEW q \in ReadState,
           r.done = q.done, r.open = q.open, r.quoted = q.quoted, r.skip = q.skip
    PROVE  r = q
BY DEF ReadState

(* A letter is skipped once.                                               *)
LEMMA SkippedOnce ==
    ASSUME NEW r \in ReadState, r.skip = FALSE, NEW q, q = [r EXCEPT !.skip = TRUE]
    PROVE  [q EXCEPT !.skip = FALSE] = r
<1>1. q \in ReadState /\ q.done = r.done /\ q.open = r.open /\ q.quoted = r.quoted
    BY DEF ReadState
<1>2. LET u == [q EXCEPT !.skip = FALSE]
      IN /\ u \in ReadState /\ u.done = q.done /\ u.open = q.open /\ u.quoted = q.quoted
         /\ u.skip = FALSE
    BY <1>1 DEF ReadState
<1> QED  BY <1>1, <1>2, SameState

LEMMA ComponentsRead ==
    ASSUME NEW w \in Text
    PROVE  \E R : Reads(R, w) /\ Components(w) = R[Len(w)].done \o << R[Len(w)].open >>
<1> DEFINE d(i) == i < Len(w) /\ w[i + 1] = Quote
           Step(i, r) == ReadOn(r, w[i], d(i))
           next == [i \in 1..Len(w) |-> [r \in ReadState |-> Step(i, r)]]
           All(f) == f = [i \in 0..Len(w) |-> IF i = 0 THEN Unread ELSE Step(i, f[i - 1])]
<1>1. Len(w) \in Nat /\ \A i \in 1..Len(w) : w[i] \in Letter
    BY DEF Text
<1>2. Unread \in ReadState
    BY DEF Unread, ReadState, Text
<1>3. next \in [1..Len(w) -> [ReadState -> ReadState]]
    <2>1. \A i \in 1..Len(w), r \in ReadState : Step(i, r) \in ReadState
        BY <1>1, ReadOnType
    <2> HIDE DEF Step
    <2> QED  BY <2>1
<1>4. \A i \in 1..Len(w), r \in ReadState : next[i][r] = Step(i, r)
    OBVIOUS
<1> HIDE DEF next
<1>5. PICK f : Iterates(f, Len(w), ReadState, Unread, next)
    BY <1>1, <1>2, <1>3, Iterated
<1>5a. /\ f \in [0..Len(w) -> ReadState]
       /\ f[0] = Unread /\ \A i \in 1..Len(w) : f[i] = next[i][f[i - 1]]
    BY <1>5 DEF Iterates
<1>6. \A i \in 1..Len(w) : f[i] = Step(i, f[i - 1])
    <2> SUFFICES ASSUME NEW i \in 1..Len(w) PROVE f[i] = Step(i, f[i - 1])
        OBVIOUS
    <2>1. i - 1 \in 0..Len(w)
        BY <1>1
    <2> QED  BY <1>4, <1>5a, <2>1
<1> HIDE DEF Step
<1>7. All(f)
    <2>1. \A i \in 0..Len(w) : f[i] = IF i = 0 THEN Unread ELSE Step(i, f[i - 1])
        BY <1>1, <1>5a, <1>6
    <2> QED  BY <1>5a, <2>1
<1> DEFINE R == CHOOSE g : All(g)
<1>8. All(R)
    BY <1>7
<1>9. Components(w) = R[Len(w)].done \o << R[Len(w)].open >>
    BY DEF Components, Step
<1> HIDE DEF R
<1>10. \A i \in 0..Len(w) : R[i] = IF i = 0 THEN Unread ELSE Step(i, R[i - 1])
    BY <1>8
<1>11. R[0] = Unread /\ \A i \in 1..Len(w) : R[i] = Step(i, R[i - 1])
    BY <1>1, <1>10
<1> DEFINE P == {i \in 0..Len(w) : R[i] \in ReadState}
<1>12. \A i \in 0..Len(w) : i \in P
    <2>1. 0 \in P
        BY <1>1, <1>2, <1>11
    <2>2. ASSUME NEW i \in 0..Len(w), i < Len(w), i \in P PROVE i + 1 \in P
        <3>1. i + 1 \in 1..Len(w) /\ (i + 1) - 1 = i /\ R[i] \in ReadState /\ i + 1 \in 0..Len(w)
            BY <1>1, <2>2
        <3>2. R[i + 1] = ReadOn(R[i], w[i + 1], d(i + 1))
            BY <1>11, <3>1 DEF Step
        <3>3. d(i + 1) \in BOOLEAN
            OBVIOUS
        <3>4. R[i + 1] \in ReadState
            BY <1>1, <3>1, <3>2, <3>3, ReadOnType
        <3> QED  BY <3>1, <3>4
    <2> HIDE DEF P
    <2> QED  BY <1>1, <2>1, <2>2, Upto
<1>13. R \in [0..Len(w) -> ReadState]
    BY <1>8, <1>12
<1> QED  BY <1>9, <1>11, <1>13 DEF Reads, Step

(* The concatenations FlattenSeq goes through.                             *)
Joinings(F, S, seqs) ==
    /\ F \in [0..Len(seqs) -> Seq(S)]
    /\ F[0] = << >>
    /\ \A i \in 1..Len(seqs) : F[i] = F[i - 1] \o seqs[i]

LEMMA FlattenJoins ==
    ASSUME NEW S, NEW seqs \in Seq(Seq(S))
    PROVE  \E F : Joinings(F, S, seqs) /\ FlattenSeq(seqs) = F[Len(seqs)]
<1> DEFINE n == Len(seqs)
           next == [i \in 1..n |-> [u \in Seq(S) |-> u \o seqs[i]]]
           All(f) == f = [i \in 1..n |-> IF i = 1 THEN seqs[i] ELSE f[i - 1] \o seqs[i]]
<1>1. n \in Nat /\ \A i \in 1..n : seqs[i] \in Seq(S)
    OBVIOUS
<1>2. << >> \in Seq(S)
    OBVIOUS
<1>3. next \in [1..n -> [Seq(S) -> Seq(S)]]
    <2>1. \A i \in 1..n, u \in Seq(S) : u \o seqs[i] \in Seq(S)
        BY <1>1, ConcatProperties
    <2> QED  BY <2>1
<1>4. \A i \in 1..n, u \in Seq(S) : next[i][u] = u \o seqs[i]
    OBVIOUS
<1> HIDE DEF next
<1>5. PICK F : Iterates(F, n, Seq(S), << >>, next)
    BY <1>1, <1>2, <1>3, Iterated
<1>6. /\ F \in [0..n -> Seq(S)] /\ F[0] = << >>
      /\ \A i \in 1..n : F[i] = next[i][F[i - 1]]
    BY <1>5 DEF Iterates
<1>7. \A i \in 1..n : F[i] = F[i - 1] \o seqs[i]
    <2> SUFFICES ASSUME NEW i \in 1..n PROVE F[i] = F[i - 1] \o seqs[i]
        OBVIOUS
    <2>1. i - 1 \in 0..n
        BY <1>1
    <2>2. F[i - 1] \in Seq(S) /\ F[i] = next[i][F[i - 1]]
        BY <1>6, <2>1
    <2> QED  BY <1>4, <2>2
<1>8. Joinings(F, S, seqs)
    BY <1>6, <1>7 DEF Joinings
<1>9. FlattenSeq(seqs) = F[n]
    <2>1. CASE n = 0
        <3>1. seqs = << >>
            BY <2>1
        <3> QED  BY <1>6, <2>1, <3>1 DEF FlattenSeq
    <2>2. CASE n # 0
        <3> DEFINE G == [i \in 1..n |-> F[i]]
                   H == CHOOSE f : All(f)
        <3>1. F[1] = seqs[1]
            <4>1. 1 \in 1..n /\ 1 - 1 = 0
                BY <1>1, <2>2
            <4>2. F[1] = << >> \o seqs[1] /\ seqs[1] \in Seq(S)
                BY <1>1, <1>6, <1>7, <4>1
            <4> QED  BY <4>2, ConcatEmptySeq
        <3>2. All(G)
            <4>1. \A i \in 1..n : i # 1 => i - 1 \in 1..n
                BY <1>1
            <4>2. \A i \in 1..n : G[i] = IF i = 1 THEN seqs[i] ELSE G[i - 1] \o seqs[i]
                BY <1>7, <3>1, <4>1
            <4> QED  BY <4>2
        <3>3. All(H)
            BY <3>2
        <3>4. FlattenSeq(seqs) = H[n]
            BY <2>2, SMTT(30) DEF FlattenSeq
        <3> HIDE DEF H
        <3>5. \A i \in 1..n : H[i] = IF i = 1 THEN seqs[i] ELSE H[i - 1] \o seqs[i]
            BY <3>3
        <3> HIDE DEF All
        <3> HIDE DEF n
        <3>6. ASSUME NEW i \in 0..n, i < n, i = 0 \/ H[i] = F[i] PROVE H[i + 1] = F[i + 1]
            <4>1. i + 1 \in 1..n /\ (i + 1) - 1 = i
                BY <1>1, <3>6
            <4>2. F[i + 1] = F[i] \o seqs[i + 1]
                BY <1>7, <4>1
            <4>3. CASE i = 0
                BY <3>1, <3>5, <4>1, <4>3
            <4>4. CASE i # 0
                <5>1. i + 1 # 1 /\ H[i] = F[i]
                    BY <1>1, <3>6, <4>4
                <5>2. H[i + 1] = H[i] \o seqs[i + 1]
                    BY <3>5, <4>1, <5>1
                <5> QED  BY <4>2, <5>1, <5>2
            <4> QED  BY <4>3, <4>4
        <3> DEFINE P == {i \in 0..n : i = 0 \/ H[i] = F[i]}
        <3>7. 0 \in P
            BY <1>1
        <3>8. \A i \in 0..n : i < n /\ i \in P => i + 1 \in P
            <4>1. n \in Nat
                BY <1>1
            <4>2. \A i \in 0..n : i < n => i + 1 \in 0..n
                BY <4>1
            <4> QED  BY <3>6, <4>2
        <3> HIDE DEF P
        <3>9. n \in P
            <4>1. \A i \in 0..n : i \in P
                BY <1>1, <3>7, <3>8, Upto
            <4> QED  BY <1>1, <4>1
        <3> QED  BY <2>2, <3>4, <3>9 DEF P
    <2> QED  BY <2>1, <2>2
<1> QED  BY <1>8, <1>9

(* The text u stands in w after its first k letters.                       *)
Spells(w, k, u) == k + Len(u) <= Len(w) /\ \A j \in 1..Len(u) : w[k + j] = u[j]

LEMMA SpellsParts ==
    ASSUME NEW w \in Text, NEW k \in Nat, NEW u \in Text, NEW v \in Text,
           Spells(w, k, u \o v)
    PROVE  Spells(w, k, u) /\ Spells(w, k + Len(u), v) /\ Len(u \o v) = Len(u) + Len(v)
<1>1. /\ Len(u \o v) = Len(u) + Len(v) /\ Len(u) \in Nat /\ Len(v) \in Nat /\ Len(w) \in Nat
      /\ \A i \in 1..(Len(u) + Len(v)) :
            (u \o v)[i] = IF i <= Len(u) THEN u[i] ELSE v[i - Len(u)]
    BY ConcatProperties DEF Text
<1>2. k + Len(u) + Len(v) <= Len(w)
    BY <1>1 DEF Spells
<1>3. ASSUME NEW j \in 1..Len(u) PROVE w[k + j] = u[j]
    BY <1>1 DEF Spells
<1>4. ASSUME NEW j \in 1..Len(v) PROVE w[(k + Len(u)) + j] = v[j]
    <2>1. Len(u) + j \in 1..(Len(u) + Len(v)) /\ ~(Len(u) + j <= Len(u))
          /\ (Len(u) + j) - Len(u) = j /\ k + (Len(u) + j) = (k + Len(u)) + j
        BY <1>1
    <2>2. (u \o v)[Len(u) + j] = v[j]
        BY <1>1, <2>1
    <2>3. w[k + (Len(u) + j)] = (u \o v)[Len(u) + j]
        BY <1>1, <2>1 DEF Spells
    <2> QED  BY <2>1, <2>2, <2>3
<1> QED  BY <1>1, <1>2, <1>3, <1>4 DEF Spells

LEMMA Grown ==
    ASSUME NEW u \in Text, NEW i \in Nat, i < Len(u)
    PROVE  /\ SubSeq(u, 1, i) \in Text /\ SubSeq(u, 1, 0) = << >> /\ u[i + 1] \in Letter
           /\ SubSeq(u, 1, i + 1) = SubSeq(u, 1, i) \o << u[i + 1] >>
<1>1. 1 \in 1..Len(u) /\ i + 1 \in 1..Len(u) /\ (i + 1) - 1 = i
    BY DEF Text
<1>2. SubSeq(u, 1, i + 1) = SubSeq(u, 1, i) \o << u[i + 1] >>
    BY <1>1, SubSeqRecursiveSecond DEF Text
<1>3. SubSeq(u, 1, i) \in Text
    BY DEF Text
<1>4. SubSeq(u, 1, 0) = << >>
    BY SubSeqEmpty DEF Text
<1> QED  BY <1>1, <1>2, <1>3, <1>4 DEF Text

(* The reading of u, as part of the component that is open.                *)
More(r, u) == [r EXCEPT !.open = @ \o u]

LEMMA MoreIsRead ==
    ASSUME NEW r \in ReadState, NEW u \in Text
    PROVE  /\ More(r, u) \in ReadState /\ More(r, u).done = r.done
           /\ More(r, u).open = r.open \o u
           /\ More(r, u).skip = r.skip /\ More(r, u).quoted = r.quoted
           /\ More(r, << >>) = r
           /\ \A v \in Text : More(More(r, u), v) = More(r, u \o v)
<1>1. r.open \in Seq(Letter) /\ u \in Seq(Letter)
    BY DEF ReadState, Text
<1>2. r.open \o u \in Text /\ r.open \o << >> = r.open
    BY <1>1, ConcatProperties, ConcatEmptySeq DEF Text
<1>3. More(r, u) \in ReadState /\ More(r, u).open = r.open \o u /\ More(r, u).done = r.done
      /\ More(r, u).skip = r.skip /\ More(r, u).quoted = r.quoted
    BY <1>2 DEF ReadState, More
<1>4. More(r, << >>) = r
    BY <1>2 DEF ReadState, More
<1>5. ASSUME NEW v \in Text PROVE More(More(r, u), v) = More(r, u \o v)
    <2>1. (r.open \o u) \o v = r.open \o (u \o v)
        BY Regrouped DEF ReadState
    <2> QED  BY <2>1 DEF More, ReadState
<1> QED  BY <1>3, <1>4, <1>5

(* Letters that are neither a dot nor a quote are read as they are.        *)
LEMMA PlainRead ==
    ASSUME NEW w \in Text, NEW R, Reads(R, w), NEW part \in Text,
           NEW k \in 0..Len(w), Spells(w, k, part),
           \A i \in 1..Len(part) : part[i] \notin {Dot, Quote},
           R[k].quoted = FALSE, R[k].skip = FALSE
    PROVE  R[k + Len(part)] = More(R[k], part)
<1>1. /\ Len(w) \in Nat /\ Len(part) \in Nat /\ k \in Nat /\ k + Len(part) <= Len(w)
      /\ R[k] \in ReadState
    <2>1. Len(part) \in Nat
        BY DEF Text
    <2> QED  BY <2>1, ReadsAt DEF Spells
<1> DEFINE After(i) == More(R[k], SubSeq(part, 1, i))
           P == {i \in 0..Len(part) : R[k + i] = After(i)}
<1>2. R[k + 0] = After(0)
    <2>1. SubSeq(part, 1, 0) = << >> /\ More(R[k], << >>) = R[k] /\ k + 0 = k
        BY SubSeqEmpty, MoreIsRead, <1>1 DEF Text
    <2> QED  BY <2>1
<1>3. ASSUME NEW i \in 0..Len(part), i < Len(part), R[k + i] = After(i)
      PROVE  R[k + (i + 1)] = After(i + 1)
    <2>1. i \in Nat /\ i + 1 \in 1..Len(part) /\ k + (i + 1) \in 1..Len(w)
          /\ (k + (i + 1)) - 1 = k + i
        BY <1>1, <1>3
    <2>2. SubSeq(part, 1, i) \in Text /\ part[i + 1] \in Letter /\ << part[i + 1] >> \in Text
          /\ SubSeq(part, 1, i + 1) = SubSeq(part, 1, i) \o << part[i + 1] >>
        BY <2>1, <1>3, Grown DEF Text
    <2>3. w[k + (i + 1)] = part[i + 1] /\ part[i + 1] # Dot /\ part[i + 1] # Quote
        BY <2>1 DEF Spells
    <2>4. R[k + (i + 1)] = ReadOn(R[k + i], part[i + 1],
              k + (i + 1) < Len(w) /\ w[k + (i + 1) + 1] = Quote)
        BY <2>1, <2>3 DEF Reads
    <2>5. R[k + i].skip = FALSE /\ R[k + i].quoted = FALSE
        <3>1. R[k + i] = More(R[k], SubSeq(part, 1, i))
            BY <1>3
        <3>2. More(R[k], SubSeq(part, 1, i)).skip = R[k].skip
              /\ More(R[k], SubSeq(part, 1, i)).quoted = R[k].quoted
            BY <1>1, <2>2, MoreIsRead
        <3> QED  BY <3>1, <3>2
    <2>6. R[k + (i + 1)] = More(R[k + i], << part[i + 1] >>)
        BY <2>3, <2>4, <2>5 DEF ReadOn, More
    <2>7. More(More(R[k], SubSeq(part, 1, i)), << part[i + 1] >>)
            = More(R[k], SubSeq(part, 1, i) \o << part[i + 1] >>)
        BY <1>1, <2>2, MoreIsRead
    <2> QED  BY <1>3, <2>2, <2>6, <2>7
<1> HIDE DEF After
<1>4. 0 \in P
    BY <1>1, <1>2
<1>5. \A i \in 0..Len(part) : i < Len(part) /\ i \in P => i + 1 \in P
    <2>1. \A i \in 0..Len(part) : i < Len(part) => i + 1 \in 0..Len(part)
        BY <1>1
    <2> QED  BY <1>3, <2>1
<1> HIDE DEF P
<1>6. Len(part) \in P
    <2>1. \A i \in 0..Len(part) : i \in P
        BY <1>1, <1>4, <1>5, Upto
    <2> QED  BY <1>1, <2>1
<1>7. SubSeq(part, 1, Len(part)) = part
    BY SubSeqFull DEF Text
<1> QED  BY <1>6, <1>7 DEF P, After

(* How quote_part writes a letter inside quotes.                           *)
Written(c) == IF c = Quote THEN << Quote, Quote >> ELSE << c >>

LEMMA LetterRead ==
    ASSUME NEW w \in Text, NEW R, Reads(R, w), NEW m \in Nat, NEW c \in Letter,
           Spells(w, m, Written(c)), R[m].quoted = TRUE, R[m].skip = FALSE
    PROVE  R[m + Len(Written(c))] = More(R[m], << c >>)
<1>1. Len(w) \in Nat
    BY DEF Text
<1>2. CASE c # Quote
    <2>1. Written(c) = << c >> /\ Len(Written(c)) = 1
        BY <1>2 DEF Written
    <2>2. m + 1 <= Len(w) /\ w[m + 1] = c
        BY <2>1 DEF Spells
    <2>3. m + 1 \in 1..Len(w) /\ (m + 1) - 1 = m
        BY <1>1, <2>2
    <2>4. R[m + 1] = ReadOn(R[m], c, m + 1 < Len(w) /\ w[m + 1 + 1] = Quote)
        BY <2>2, <2>3 DEF Reads
    <2> QED  BY <1>2, <2>1, <2>4 DEF ReadOn, More
<1>3. CASE c = Quote
    <2>1. Written(c) = << Quote, Quote >> /\ Len(Written(c)) = 2
        BY <1>3 DEF Written
    <2>2. m + 2 <= Len(w) /\ w[m + 1] = Quote /\ w[m + 2] = Quote
        BY <2>1 DEF Spells
    <2>3. m + 1 \in 1..Len(w) /\ (m + 1) - 1 = m /\ m + 2 \in 1..Len(w)
          /\ (m + 2) - 1 = m + 1 /\ m + 1 < Len(w) /\ (m + 1) + 1 = m + 2 /\ m \in 0..Len(w)
        BY <1>1, <2>2
    <2>4. R[m + 1] = ReadOn(R[m], Quote, TRUE) /\ R[m] \in ReadState
        BY <2>2, <2>3 DEF Reads
    <2>5. R[m + 1] = [More(R[m], << Quote >>) EXCEPT !.skip = TRUE]
        BY <2>4 DEF ReadOn, More
    <2>6. R[m + 2] = ReadOn(R[m + 1], Quote, m + 2 < Len(w) /\ w[m + 2 + 1] = Quote)
        BY <2>2, <2>3 DEF Reads
    <2>7. More(R[m], << Quote >>) \in ReadState /\ More(R[m], << Quote >>).skip = FALSE
        <3>1. << Quote >> \in Text
            BY <1>3 DEF Text
        <3> QED  BY <2>4, <3>1, MoreIsRead
    <2>8. R[m + 2] = [R[m + 1] EXCEPT !.skip = FALSE]
        BY <2>5, <2>6, <2>7 DEF ReadOn, ReadState
    <2>9. R[m + 2] = More(R[m], << Quote >>)
        BY <2>5, <2>7, <2>8, SkippedOnce
    <2> QED  BY <1>3, <2>1, <2>9
<1> QED  BY <1>2, <1>3

(* Inside quotes every letter is read as it is, a doubled quote as one.    *)
LEMMA DoubledRead ==
    ASSUME NEW w \in Text, NEW R, Reads(R, w), NEW part \in Text,
           NEW k \in 0..Len(w), Spells(w, k, Doubled(part)),
           R[k].quoted = TRUE, R[k].skip = FALSE
    PROVE  /\ Doubled(part) \in Text
           /\ R[k + Len(Doubled(part))] = More(R[k], part)
<1> DEFINE one(i) == Written(part[i])
           seqs == [i \in DOMAIN part |-> one(i)]
           n == Len(part)
<1>1. /\ Len(w) \in Nat /\ n \in Nat /\ k \in Nat /\ R[k] \in ReadState
      /\ \A i \in 1..n : part[i] \in Letter
    <2>1. n \in Nat /\ \A i \in 1..n : part[i] \in Letter
        BY DEF Text
    <2> QED  BY <2>1, ReadsAt
<1>2. \A i \in 1..n : one(i) \in Text
    <2> SUFFICES ASSUME NEW i \in 1..n PROVE one(i) \in Text
        OBVIOUS
    <2>1. part[i] \in Letter /\ Quote \in Letter
        BY <1>1 DEF Letter
    <2>2. << part[i] >> \in Seq(Letter) /\ << Quote, Quote >> \in Seq(Letter)
        BY <2>1
    <2> QED  BY <2>2 DEF Text, Written
<1>3. seqs \in Seq(Text) /\ Len(seqs) = n /\ \A i \in 1..n : seqs[i] = one(i)
    <2>1. DOMAIN part = 1..n
        BY DEF Text
    <2> HIDE DEF one
    <2>2. seqs = [i \in 1..n |-> one(i)]
        BY <2>1
    <2> HIDE DEF seqs
    <2>3. seqs \in Seq(Text)
        BY <1>1, <1>2, <2>2, IsASeq
    <2>4. Len(seqs) = n
        BY <1>1, <2>2
    <2> QED  BY <2>2, <2>3, <2>4
<1>4. Doubled(part) = FlattenSeq(seqs)
    BY DEF Doubled, Written
<1> HIDE DEF one, seqs
<1>5. PICK F : Joinings(F, Letter, seqs) /\ FlattenSeq(seqs) = F[n]
    BY <1>3, FlattenJoins DEF Text
<1>6. /\ F \in [0..n -> Text] /\ F[0] = << >> /\ Doubled(part) = F[n]
      /\ \A i \in 1..n : F[i] = F[i - 1] \o one(i)
    BY <1>3, <1>4, <1>5 DEF Joinings, Text
<1> DEFINE After(i) == More(R[k], SubSeq(part, 1, i))
<1>7. R[k + Len(F[0])] = After(0)
    <2>1. SubSeq(part, 1, 0) = << >> /\ More(R[k], << >>) = R[k] /\ k + 0 = k
        BY SubSeqEmpty, MoreIsRead, <1>1 DEF Text
    <2>2. Len(F[0]) = 0
        BY <1>6
    <2> QED  BY <2>1, <2>2
<1>8. ASSUME NEW i \in 0..n, i < n, Spells(w, k, F[i]) => R[k + Len(F[i])] = After(i),
             Spells(w, k, F[i + 1])
      PROVE  R[k + Len(F[i + 1])] = After(i + 1)
    <2>1. i \in Nat /\ i + 1 \in 1..n /\ (i + 1) - 1 = i
        BY <1>1, <1>8
    <2>2. SubSeq(part, 1, i) \in Text /\ part[i + 1] \in Letter /\ << part[i + 1] >> \in Text
          /\ SubSeq(part, 1, i + 1) = SubSeq(part, 1, i) \o << part[i + 1] >>
        BY <2>1, <1>8, Grown DEF Text
    <2>3. F[i + 1] = F[i] \o one(i + 1) /\ F[i] \in Text /\ one(i + 1) \in Text
        BY <1>2, <1>6, <2>1
    <2>4. Spells(w, k, F[i] \o one(i + 1))
        BY <1>8, <2>3
    <2>5. Spells(w, k, F[i]) /\ Spells(w, k + Len(F[i]), one(i + 1))
          /\ Len(F[i] \o one(i + 1)) = Len(F[i]) + Len(one(i + 1))
        BY <1>1, <2>3, <2>4, SpellsParts
    <2>6. R[k + Len(F[i])] = More(R[k], SubSeq(part, 1, i))
        BY <1>8, <2>5
    <2> DEFINE a == Len(F[i])
               b == Len(one(i + 1))
               d == Len(F[i + 1])
               c == part[i + 1]
               u == SubSeq(part, 1, i)
    <2>7. k \in Nat /\ a \in Nat /\ b \in Nat /\ d = a + b
        BY <2>3, <2>5 DEF Text
    <2>8. R[k + a] = More(R[k], u) /\ Spells(w, k + a, Written(c)) /\ b = Len(Written(c))
          /\ R[k] \in ReadState /\ c \in Letter /\ u \in Text
        BY <1>1, <2>2, <2>5, <2>6 DEF one
    <2> HIDE DEF a, b, c, d, u
    <2>9. k + a \in Nat /\ k + d = (k + a) + b
        BY <2>7
    <2> DEFINE m == k + a
               r == R[k]
    <2>10. R[m + b] = More(r, u \o << c >>)
        <3>1. m \in Nat /\ r \in ReadState /\ R[m] = More(r, u) /\ Spells(w, m, Written(c))
              /\ r.quoted = TRUE /\ r.skip = FALSE
            BY <2>8, <2>9
        <3> HIDE DEF m, r
        <3>2. R[m + Len(Written(c))] = More(r, u \o << c >>)
            <4>1. << c >> \in Text
                BY <2>8 DEF Text
            <4>2. /\ More(r, u).quoted = r.quoted /\ More(r, u).skip = r.skip
                  /\ More(More(r, u), << c >>) = More(r, u \o << c >>)
                BY <2>8, <3>1, <4>1, MoreIsRead
            <4>3. /\ m \in Nat /\ c \in Letter /\ Spells(w, m, Written(c))
                  /\ R[m].quoted = TRUE /\ R[m].skip = FALSE
                BY <2>8, <3>1, <4>2
            <4>4. R[m + Len(Written(c))] = More(R[m], << c >>)
                BY <4>3, LetterRead, ZenonT(60)
            <4> QED  BY <3>1, <4>2, <4>4
        <3> QED  BY <2>8, <3>2
    <2> QED  BY <2>2, <2>9, <2>10 DEF c, d, u
<1> DEFINE P == {i \in 0..n : Spells(w, k, F[i]) => R[k + Len(F[i])] = After(i)}
<1> HIDE DEF After
<1>9. 0 \in P
    BY <1>1, <1>7
<1>10. \A i \in 0..n : i < n /\ i \in P => i + 1 \in P
    <2>1. \A i \in 0..n : i < n => i + 1 \in 0..n
        BY <1>1
    <2> QED  BY <1>8, <2>1
<1> HIDE DEF P
<1>11. n \in P
    <2>1. \A i \in 0..n : i \in P
        BY <1>1, <1>9, <1>10, Upto
    <2> QED  BY <1>1, <2>1
<1>12. SubSeq(part, 1, n) = part
    BY SubSeqFull DEF Text
<1>13. Doubled(part) \in Text
    BY <1>1, <1>6
<1> QED  BY <1>6, <1>11, <1>12, <1>13 DEF P, After

LEMMA QuotePartType ==
    ASSUME NEW part \in Text
    PROVE  /\ Doubled(part) \in Text /\ QuotePart(part) \in Text
           /\ part # << >> => QuotePart(part) # << >>
<1> DEFINE one(i) == Written(part[i])
           seqs == [i \in DOMAIN part |-> one(i)]
<1>1. Len(part) \in Nat /\ DOMAIN part = 1..Len(part)
    BY DEF Text
<1>2. \A i \in 1..Len(part) : one(i) \in Text
    <2> SUFFICES ASSUME NEW i \in 1..Len(part) PROVE one(i) \in Text
        OBVIOUS
    <2>1. part[i] \in Letter /\ Quote \in Letter
        BY DEF Letter, Text
    <2>2. << part[i] >> \in Seq(Letter) /\ << Quote, Quote >> \in Seq(Letter)
        BY <2>1
    <2> QED  BY <2>2 DEF Text, Written
<1>3. seqs \in Seq(Text) /\ Doubled(part) = FlattenSeq(seqs)
    <2>1. Doubled(part) = FlattenSeq(seqs)
        BY DEF Doubled, Written
    <2> HIDE DEF one
    <2>2. seqs \in Seq(Text)
        BY <1>1, <1>2, IsASeq
    <2> QED  BY <2>1, <2>2
<1> HIDE DEF seqs
<1>4. PICK F : Joinings(F, Letter, seqs) /\ FlattenSeq(seqs) = F[Len(seqs)]
    BY <1>3, FlattenJoins DEF Text
<1>5. F \in [0..Len(seqs) -> Text] /\ Len(seqs) \in Nat
    BY <1>3, <1>4 DEF Joinings, Text
<1>6. Doubled(part) \in Text
    BY <1>3, <1>4, <1>5
<1>7. << Quote >> \in Text
    BY DEF Text, Letter
<1>8. /\ << Quote >> \o Doubled(part) \in Text
      /\ (<< Quote >> \o Doubled(part)) \o << Quote >> \in Text
      /\ Len((<< Quote >> \o Doubled(part)) \o << Quote >>) > 0
    BY <1>6, <1>7, ConcatProperties DEF Text
<1>9. (<< Quote >> \o Doubled(part)) \o << Quote >> # << >>
    BY <1>8
<1> QED  BY <1>6, <1>8, <1>9 DEF QuotePart

(* A quoted part, with a dot after it or nothing, is read as the part.     *)
LEMMA PartRead ==
    ASSUME NEW w \in Text, NEW R, Reads(R, w), NEW part \in Text,
           NEW k \in 0..Len(w), Spells(w, k, QuotePart(part)),
           \/ k + Len(QuotePart(part)) = Len(w)
           \/ w[k + Len(QuotePart(part)) + 1] = Dot,
           R[k].quoted = FALSE, R[k].skip = FALSE
    PROVE  R[k + Len(QuotePart(part))] = More(R[k], part)
<1>1. Len(w) \in Nat /\ k \in Nat /\ R[k] \in ReadState
    BY ReadsAt
<1>0. \A i \in Nat, u \in Text, v \in Text : Spells(w, i, u \o v) =>
         Spells(w, i, u) /\ Spells(w, i + Len(u), v) /\ Len(u \o v) = Len(u) + Len(v)
    BY SpellsParts
<1>00. \A i \in 0..Len(w) : Spells(w, i, Doubled(part)) /\ R[i].quoted = TRUE /\ R[i].skip = FALSE
         => R[i + Len(Doubled(part))] = More(R[i], part)
    <2> SUFFICES ASSUME NEW i \in 0..Len(w), Spells(w, i, Doubled(part)),
                        R[i].quoted = TRUE, R[i].skip = FALSE
                 PROVE  R[i + Len(Doubled(part))] = More(R[i], part)
        OBVIOUS
    <2> QED  BY DoubledRead, ZenonT(90)
<1> Dot # Quote
    BY DEF Dot, Quote
<1>2. CASE ~ \E i \in DOMAIN part : part[i] \in {Dot, Quote}
    <2>1. QuotePart(part) = part
        BY <1>2 DEF QuotePart
    <2>2. \A i \in 1..Len(part) : part[i] \notin {Dot, Quote}
        BY <1>2 DEF Text
    <2>3. Spells(w, k, part)
        BY <2>1
    <2>4. R[k + Len(part)] = More(R[k], part)
        BY <2>2, <2>3, PlainRead
    <2> QED  BY <2>1, <2>4
<1>3. CASE \E i \in DOMAIN part : part[i] \in {Dot, Quote}
    <2> DEFINE q == << Quote >>
               d == Doubled(part)
               h == q \o d
               e == Len(d)
    <2>1. QuotePart(part) = h \o q
        BY <1>3 DEF QuotePart
    <2>2. q \in Text /\ Len(q) = 1 /\ q[1] = Quote
        BY DEF Text, Letter
    <2>3. d \in Text
        BY QuotePartType
    <2> HIDE DEF q, d
    <2>4. h \in Text
        BY <2>2, <2>3, ConcatProperties DEF Text
    <2>5. Spells(w, k, q) /\ Spells(w, k + Len(q), d) /\ Len(h) = Len(q) + Len(d)
          /\ Spells(w, k + Len(h), q) /\ Len(QuotePart(part)) = Len(h) + Len(q)
        <3> HIDE DEF h
        <3>1. Spells(w, k, h \o q)
            BY <2>1
        <3>2. Spells(w, k, h) /\ Spells(w, k + Len(h), q) /\ Len(h \o q) = Len(h) + Len(q)
            BY <1>0, <1>1, <2>2, <2>4, <3>1
        <3>3. Spells(w, k, q \o d)
            BY <3>2 DEF h
        <3>4. Spells(w, k, q) /\ Spells(w, k + Len(q), d) /\ Len(q \o d) = Len(q) + Len(d)
            BY <1>0, <1>1, <2>2, <2>3, <3>3
        <3> QED  BY <2>1, <3>2, <3>4 DEF h
    <2> HIDE DEF h
    <2>6. e \in Nat
        BY <2>3 DEF Text
    <2>7. /\ k + 1 \in 1..Len(w) /\ (k + 1) - 1 = k /\ w[k + 1] = Quote
          /\ k + 1 \in 0..Len(w) /\ Spells(w, k + 1, d)
        BY <1>1, <2>2, <2>5 DEF Spells
    <2>8. R[k + 1] = [R[k] EXCEPT !.quoted = TRUE]
        <3>1. R[k + 1] = ReadOn(R[k], Quote, k + 1 < Len(w) /\ w[k + 1 + 1] = Quote)
            BY <2>7 DEF Reads
        <3> QED  BY <1>1, <3>1 DEF ReadOn, ReadState
    <2>9. R[k + 1] \in ReadState /\ R[k + 1].quoted = TRUE /\ R[k + 1].skip = FALSE
        BY <1>1, <2>8 DEF ReadState
    <2>10. R[(k + 1) + e] = More(R[k + 1], part)
        <3> DEFINE j == k + 1
        <3>1. j \in 0..Len(w) /\ Spells(w, j, Doubled(part)) /\ R[j].quoted = TRUE
              /\ R[j].skip = FALSE
            BY <2>7, <2>9 DEF d
        <3> HIDE DEF j
        <3>2. R[j + Len(Doubled(part))] = More(R[j], part)
            BY <1>00, <3>1
        <3> QED  BY <3>2 DEF j, d
    <2> HIDE DEF e
    <2> DEFINE m == (k + 1) + e
    <2>11. /\ m \in Nat /\ k + Len(QuotePart(part)) = m + 1
           /\ k + Len(h) = m
        BY <1>1, <2>2, <2>5, <2>6 DEF e
    <2>12. m + 1 <= Len(w) /\ w[m + 1] = Quote
        BY <2>2, <2>5, <2>11 DEF Spells
    <2> HIDE DEF m
    <2>13. m + 1 \in 1..Len(w) /\ (m + 1) - 1 = m
        BY <1>1, <2>11, <2>12
    <2>14. ~(m + 1 < Len(w) /\ w[m + 1 + 1] = Quote)
        <3>1. m + 1 = Len(w) \/ w[m + 1 + 1] = Dot
            BY <2>11
        <3> QED  BY <1>1, <3>1
    <2>15. R[m + 1] = ReadOn(R[m], Quote, FALSE)
        BY <2>12, <2>13, <2>14 DEF Reads
    <2>16. R[m] = More(R[k + 1], part)
        BY <2>10 DEF m
    <2>17. R[m].quoted = TRUE /\ R[m].skip = FALSE
        BY <2>9, <2>16, MoreIsRead
    <2>18. R[m + 1] = [R[m] EXCEPT !.quoted = FALSE]
        BY <1>1, <2>15, <2>17 DEF ReadOn
    <2>19. [More(R[k + 1], part) EXCEPT !.quoted = FALSE] = More(R[k], part)
        BY <1>1, <2>8 DEF More, ReadState
    <2> QED  BY <2>11, <2>16, <2>18, <2>19
<1> QED  BY <1>2, <1>3

LEMMA UnreadType ==
    /\ Unread \in ReadState /\ Unread.quoted = FALSE /\ Unread.skip = FALSE
    /\ Unread.done = << >> /\ Unread.open = << >>
BY DEF Unread, ReadState, Text

LEMMA SpellsItself == ASSUME NEW w \in Text PROVE Spells(w, 0, w)
BY DEF Spells, Text

LEMMA FlattenOne == ASSUME NEW n \in Text PROVE FlattenSeq(<< n >>) = n
<1> DEFINE q == << n >>
<1>1. q \in Seq(Seq(Letter)) /\ Len(q) = 1 /\ q[1] = n
    BY DEF Text
<1> HIDE DEF q
<1>2. PICK F : Joinings(F, Letter, q) /\ FlattenSeq(q) = F[Len(q)]
    BY <1>1, FlattenJoins
<1>3. F[0] = << >> /\ F[1] = F[1 - 1] \o q[1] /\ FlattenSeq(q) = F[1]
    BY <1>1, <1>2 DEF Joinings
<1>4. F[1] = << >> \o n
    <2>1. F[1 - 1] = F[0]
        OBVIOUS
    <2> QED  BY <1>1, <1>3, <2>1
<1>5. << >> \o n = n
    BY ConcatEmptySeq DEF Text
<1> QED  BY <1>3, <1>4, <1>5 DEF q

(* What stands for a schema and a table is read as both.                   *)
LEMMA SplitTable ==
    ASSUME NEW n \in Text
    PROVE  Split(QuotePart(n)) = [schema |-> NoSchema, table |-> n]
<1> DEFINE w == QuotePart(n)
<1>1. w \in Text /\ Len(w) \in Nat
    BY QuotePartType DEF Text
<1>2. PICK R : Reads(R, w) /\ Components(w) = R[Len(w)].done \o << R[Len(w)].open >>
    BY <1>1, ComponentsRead
<1>3. R[0] = Unread /\ 0 \in 0..Len(w)
    BY <1>1, <1>2 DEF Reads
<1>4. R[0 + Len(QuotePart(n))] = More(R[0], n)
    <2>1. /\ Spells(w, 0, QuotePart(n)) /\ 0 + Len(QuotePart(n)) = Len(w)
          /\ R[0].quoted = FALSE /\ R[0].skip = FALSE
        BY <1>1, <1>3, SpellsItself, UnreadType
    <2> HIDE DEF w
    <2> QED  BY <1>1, <1>2, <1>3, <2>1, PartRead, ZenonT(30)
<1>5. R[Len(w)] = More(Unread, n)
    BY <1>1, <1>3, <1>4
<1>6. R[Len(w)].done = << >> /\ R[Len(w)].open = n
    <2>1. << >> \o n = n
        BY ConcatEmptySeq DEF Text
    <2>2. More(Unread, n).done = << >> /\ More(Unread, n).open = << >> \o n
        BY UnreadType, MoreIsRead
    <2> QED  BY <1>5, <2>1, <2>2
<1>7. Components(w) = << n >>
    <2>1. Components(w) = << >> \o << n >>
        BY <1>2, <1>6
    <2>2. << n >> \in Seq(Text)
        OBVIOUS
    <2> QED  BY <2>1, <2>2, ConcatEmptySeq
<1> QED  BY <1>7 DEF Split

LEMMA SplitBoth ==
    ASSUME NEW s \in Text, NEW n \in Text
    PROVE  /\ (QuotePart(s) \o << Dot >>) \o QuotePart(n) \in Text
           /\ Split((QuotePart(s) \o << Dot >>) \o QuotePart(n)) = [schema |-> s, table |-> n]
<1> DEFINE q == QuotePart(s)
           d == << Dot >>
           p == QuotePart(n)
           h == q \o d
           w == h \o p
<1>1. q \in Text /\ p \in Text /\ d \in Text /\ Len(d) = 1 /\ d[1] = Dot
    <2>1. d \in Text
        BY DEF Text, Letter
    <2> QED  BY <2>1, QuotePartType
<1> HIDE DEF d
<1>2. h \in Text /\ w \in Text
    BY <1>1, ConcatProperties DEF Text
<1>3. /\ Len(q) \in Nat /\ Len(p) \in Nat /\ Len(w) \in Nat
    BY <1>1, <1>2 DEF Text
<1> HIDE DEF q, p
<1>4. /\ Spells(w, 0, q) /\ Spells(w, 0 + Len(q), d) /\ Spells(w, 0 + Len(h), p)
      /\ Len(h) = Len(q) + Len(d) /\ Len(w) = Len(h) + Len(p)
    <2>0. \A u \in Text, v \in Text : Spells(w, 0, u \o v) =>
             Spells(w, 0, u) /\ Spells(w, 0 + Len(u), v) /\ Len(u \o v) = Len(u) + Len(v)
        <3> HIDE DEF w
        <3> QED  BY <1>2, SpellsParts
    <2> HIDE DEF h
    <2>1. Spells(w, 0, h \o p)
        BY <1>2, SpellsItself
    <2>2. Spells(w, 0, h) /\ Spells(w, 0 + Len(h), p) /\ Len(h \o p) = Len(h) + Len(p)
        <3> HIDE DEF w
        <3> QED  BY <1>1, <1>2, <2>0, <2>1
    <2>3. Spells(w, 0, q \o d)
        BY <2>2 DEF h
    <2>4. Spells(w, 0, q) /\ Spells(w, 0 + Len(q), d) /\ Len(q \o d) = Len(q) + Len(d)
        <3> HIDE DEF w
        <3> QED  BY <1>1, <2>0, <2>3
    <2> QED  BY <2>2, <2>4 DEF h
<1> HIDE DEF h
<1> DEFINE k == Len(q)
           m == k + 1
<1>5. PICK R : Reads(R, w) /\ Components(w) = R[Len(w)].done \o << R[Len(w)].open >>
    BY <1>2, ComponentsRead
<1> HIDE DEF w
<1>6. /\ R[0] = Unread /\ 0 \in 0..Len(w) /\ k \in 0..Len(w) /\ m \in 1..Len(w)
      /\ m - 1 = k /\ m \in 0..Len(w) /\ Len(w) = m + Len(p)
    BY <1>1, <1>3, <1>4, <1>5 DEF Reads
<1>7. w[m] = Dot
    BY <1>1, <1>3, <1>4 DEF Spells
<1>8. R[0 + Len(q)] = More(R[0], s)
    <2>1. /\ Spells(w, 0, QuotePart(s)) /\ w[0 + Len(QuotePart(s)) + 1] = Dot
          /\ R[0].quoted = FALSE /\ R[0].skip = FALSE
        BY <1>3, <1>4, <1>6, <1>7, UnreadType DEF q
    <2>2. R[0 + Len(QuotePart(s))] = More(R[0], s)
        BY <1>2, <1>5, <1>6, <2>1, PartRead, ZenonT(90)
    <2> QED  BY <2>2 DEF q
<1>9. R[k] = More(Unread, s) /\ R[k] \in ReadState /\ R[k].quoted = FALSE /\ R[k].skip = FALSE
      /\ R[k].done = << >> /\ R[k].open = s
    <2>1. << >> \o s = s
        BY ConcatEmptySeq DEF Text
    <2>2. R[k] = More(Unread, s)
        BY <1>3, <1>6, <1>8
    <2>3. /\ More(Unread, s) \in ReadState /\ More(Unread, s).done = Unread.done
          /\ More(Unread, s).open = Unread.open \o s
          /\ More(Unread, s).skip = Unread.skip /\ More(Unread, s).quoted = Unread.quoted
        BY UnreadType, MoreIsRead
    <2> QED  BY <2>1, <2>2, <2>3, UnreadType
<1>10. R[m] = ReadOn(R[k], Dot, m < Len(w) /\ w[m + 1] = Quote)
    BY <1>5, <1>6, <1>7 DEF Reads
<1>11. R[m] = [R[k] EXCEPT !.done = @ \o << s >>, !.open = << >>]
    <2>1. Dot # Quote
        BY DEF Dot, Quote
    <2> QED  BY <1>9, <1>10, <2>1 DEF ReadOn
<1>12. /\ R[m] \in ReadState /\ R[m].quoted = FALSE /\ R[m].skip = FALSE
       /\ R[m].done = << s >> /\ R[m].open = << >>
    <2>1. << s >> \in Seq(Text) /\ << >> \o << s >> = << s >>
        BY ConcatEmptySeq
    <2>2. << >> \in Text
        BY DEF Text
    <2>3. R[m] = [R[k] EXCEPT !.done = << s >>, !.open = << >>]
        BY <1>9, <1>11, <2>1
    <2>4. R[k] \in ReadState /\ << s >> \in Seq(Text) /\ << >> \in Text
        BY <1>9, <2>1, <2>2
    <2> DEFINE r == R[k]
               u == R[m]
               b == << s >>
               o == << >>
    <2>5. r \in ReadState /\ b \in Seq(Text) /\ o \in Text /\ u = [r EXCEPT !.done = b, !.open = o]
        BY <2>3, <2>4
    <2> HIDE DEF r, u, b, o
    <2>6. /\ u \in ReadState /\ u.quoted = r.quoted /\ u.skip = r.skip
          /\ u.done = b /\ u.open = o
        BY <2>5 DEF ReadState
    <2> QED  BY <1>9, <2>6 DEF r, u, b, o
<1>13. R[m + Len(p)] = More(R[m], n)
    <2>0. 0 + Len(h) = m
        BY <1>1, <1>3, <1>4
    <2>1. /\ Spells(w, m, QuotePart(n)) /\ m + Len(QuotePart(n)) = Len(w)
        BY <1>4, <1>6, <2>0 DEF p
    <2>3. /\ w \in Text /\ Reads(R, w) /\ m \in 0..Len(w)
          /\ R[m].quoted = FALSE /\ R[m].skip = FALSE
        BY <1>2, <1>5, <1>6, <1>12
    <2> HIDE DEF m
    <2>2. R[m + Len(QuotePart(n))] = More(R[m], n)
        BY <2>1, <2>3, PartRead, ZenonT(60)
    <2> QED  BY <2>2 DEF p
<1>14. R[Len(w)].done = << s >> /\ R[Len(w)].open = n
    <2>1. << >> \o n = n
        BY ConcatEmptySeq DEF Text
    <2> HIDE DEF m
    <2>2. More(R[m], n).done = R[m].done /\ More(R[m], n).open = R[m].open \o n
        BY <1>12, MoreIsRead
    <2> QED  BY <1>6, <1>12, <1>13, <2>1, <2>2
<1>15. Components(w) = << s, n >>
    <2>1. << s >> \o << n >> = << s, n >>
        <3> DEFINE a == << s >>
                   b == << n >>
                   c == << s, n >>
        <3>1. /\ a \in Seq(Text) /\ b \in Seq(Text) /\ c \in Seq(Text) /\ Len(c) = 2
              /\ Len(a) = 1 /\ Len(b) = 1 /\ a[1] = s /\ b[1] = n /\ c[1] = s /\ c[2] = n
            OBVIOUS
        <3> HIDE DEF a, b, c
        <3>2. /\ a \o b \in Seq(Text) /\ Len(a \o b) = 2 /\ (a \o b)[1] = s /\ (a \o b)[2] = n
            <4>1. /\ a \o b \in Seq(Text) /\ Len(a \o b) = Len(a) + Len(b)
                  /\ \A i \in 1..Len(a) + Len(b) :
                        (a \o b)[i] = IF i <= Len(a) THEN a[i] ELSE b[i - Len(a)]
                BY <3>1, ConcatProperties
            <4>2. 1 \in 1..Len(a) + Len(b) /\ 2 \in 1..Len(a) + Len(b) /\ 2 - Len(a) = 1
                  /\ 1 <= Len(a) /\ ~(2 <= Len(a)) /\ Len(a) + Len(b) = 2
                BY <3>1
            <4> QED  BY <3>1, <4>1, <4>2
        <3>3. \A i \in 1..Len(c) : (a \o b)[i] = c[i]
            BY <3>1, <3>2
        <3>4. a \o b = c
            BY <3>1, <3>2, <3>3, SeqEqual
        <3> QED  BY <3>4 DEF a, b, c
    <2> QED  BY <1>5, <1>14, <2>1
<1>16. Split(w) = [schema |-> s, table |-> n]
    <2> DEFINE parts == Components(w)
               rest == Tail(parts)
               shown == [i \in DOMAIN rest |-> IF i = 1 THEN rest[i] ELSE <<Dot>> \o rest[i]]
    <2>1. parts[1] = s /\ Len(parts) = 2 /\ rest = << n >>
        BY <1>15
    <2>2. shown = << n >>
        <3>0. DOMAIN << n >> = 1..1 /\ << n >>[1] = n
            OBVIOUS
        <3>1. DOMAIN rest = 1..1 /\ rest[1] = n
            <4> HIDE DEF rest
            <4> QED  BY <2>1, <3>0
        <3>2. shown = [i \in 1..1 |-> n]
            BY <3>1
        <3> HIDE DEF shown
        <3>3. shown \in Seq(Text) /\ Len(shown) = 1 /\ shown[1] = n
            BY <3>2, IsASeq
        <3> QED  BY <3>3
    <2>3. Split(w) = [schema |-> parts[1], table |-> FlattenSeq(shown)]
        BY <2>1 DEF Split
    <2> HIDE DEF shown, parts
    <2> QED  BY <2>1, <2>2, <2>3, FlattenOne
<1> QED  BY <1>2, <1>16 DEF w, h, q, d, p

LEMMA SplitQualified ==
    ASSUME NEW s \in Text, NEW n \in Text
    PROVE  /\ Qualified(s, n) \in Text
           /\ Split(Qualified(s, n)) = [schema |-> s, table |-> n]
<1>1. (QuotePart(s) \o << Dot >>) \o QuotePart(n) = QuotePart(s) \o << Dot >> \o QuotePart(n)
    OBVIOUS
<1> QED  BY <1>1, QuotePartType, SplitTable, SplitBoth DEF Qualified

-----------------------------------------------------------------------------
(* Identities.                                                             *)

Ids(ts) == {Identity(t) : t \in ts}

LEMMA NamesAreText == ASSUME NEW n \in Name PROVE n \in Text
BY SeqMonotonic DEF Name, Text, Letter

LEMMA IdentityIsRead ==
    ASSUME NEW t \in Table
    PROVE  /\ DisplayName(Identity(t)) = t.name
           /\ Split(Identity(t)).schema = t.schema
<1>1. t.schema \in Text /\ t.name \in Text
    BY NamesAreText DEF Table
<1>2. Split(Identity(t)) = [schema |-> t.schema, table |-> t.name]
    BY <1>1, SplitQualified DEF Identity
<1> QED  BY <1>2 DEF DisplayName

LEMMA QualifiedIsRead ==
    ASSUME NEW s \in Name, NEW n \in Name
    PROVE  DisplayName(Qualified(s, n)) = n /\ Split(Qualified(s, n)).schema = s
BY NamesAreText, SplitQualified DEF DisplayName

LEMMA IdentityIsNamed ==
    ASSUME NEW t \in Table, t.name # NoTable
    PROVE  Identity(t) # NoTable
<1>1. << >> \in Name
    BY DEF Name
<1>2. Qualified(<< >>, << >>) = << >>
    BY DEF Qualified, QuotePart, NoSchema
<1>3. DisplayName(<< >>) = << >>
    BY <1>1, <1>2, QualifiedIsRead
<1> QED  BY <1>3, IdentityIsRead DEF NoTable

(* Tables as discovery may report them together, each with its identity.   *)
Catalog(ts) ==
    /\ IsFiniteSet(ts) /\ ts \subseteq Table
    /\ \A t \in ts : t.name # NoTable
    /\ \A t, u \in ts : Identity(t) = Identity(u) => t = u

(* A set of identities is finite as that of the tables is.                 *)
LEMMA IdsFinite ==
    ASSUME NEW ts, IsFiniteSet(ts)
    PROVE  IsFiniteSet(Ids(ts)) /\ Cardinality(Ids(ts)) <= Cardinality(ts)
<1> DEFINE f == [t \in ts |-> Identity(t)]
<1>1. f \in Surjection(ts, Ids(ts))
    BY DEF Surjection, Ids
<1> QED  BY <1>1, FS_Surjection

LEMMA IdsType ==
    ASSUME NEW ts, Catalog(ts)
    PROVE  NoTable \notin Ids(ts) /\ IsFiniteSet(Ids(ts))
BY IdsFinite, IdentityIsNamed DEF Catalog, Ids

(* The graph's indexes all say that its tables are ts.                     *)
Lists(g, ts) ==
    /\ Nodes(g) = Ids(ts)
    /\ \A t \in ts : g.tables[Identity(t)] = t
    /\ DOMAIN g.byName = {t.name : t \in ts}
    /\ \A n \in DOMAIN g.byName : g.byName[n] = Ids({t \in ts : t.name = n})

Claims(g, ts) ==
    /\ {t.schema : t \in ts} \subseteq DOMAIN g.members
    /\ \A s \in DOMAIN g.members : g.members[s] = Ids({t \in ts : t.schema = s})

Describes(g, ts) == Lists(g, ts) /\ Claims(g, ts)

(* What choose finds is a candidate, or the name as an identity.           *)
LEMMA ChooseFound ==
    ASSUME NEW name, NEW isIdentity \in BOOLEAN, NEW candidates, IsFiniteSet(candidates),
           NEW current
    PROVE  LET id == Choose(name, isIdentity, candidates, current).identity
           IN id # NoTable => (isIdentity /\ id = name) \/ id \in candidates
<1>1. ASSUME Cardinality(candidates) = 1 PROVE (CHOOSE c \in candidates : TRUE) \in candidates
    BY <1>1, FS_EmptySet
<1> QED  BY <1>1 DEF Choose

LEMMA NamedTables ==
    ASSUME NEW g, NEW ts, Catalog(ts), Describes(g, ts), NEW name
    PROVE  /\ IsFiniteSet(At(g.byName, name, {}))
           /\ \A id \in At(g.byName, name, {}) : id \in Ids(ts) /\ DisplayName(id) = name
<1>1. CASE name \in DOMAIN g.byName
    <2>1. At(g.byName, name, {}) = Ids({t \in ts : t.name = name})
        BY <1>1 DEF At, Describes, Lists
    <2>2. IsFiniteSet({t \in ts : t.name = name})
        BY FS_Subset DEF Catalog
    <2>3. IsFiniteSet(Ids({t \in ts : t.name = name}))
        BY <2>2, IdsFinite
    <2>4. \A t \in {x \in ts : x.name = name} : Identity(t) \in Ids(ts) /\ DisplayName(Identity(t)) = name
        BY IdentityIsRead DEF Catalog, Ids
    <2> QED  BY <2>1, <2>3, <2>4 DEF Ids
<1>2. CASE name \notin DOMAIN g.byName
    BY <1>2, FS_EmptySet DEF At
<1> QED  BY <1>1, <1>2

LEMMA ResolveFinds ==
    ASSUME NEW g, NEW ts, Catalog(ts), Describes(g, ts), NEW name, NEW current
    PROVE  LET id == ResolveName(g, name, current).identity
           IN id # NoTable => id \in Ids(ts) /\ name \in {DisplayName(id), id}
<1>1. /\ IsFiniteSet(At(g.byName, name, {})) /\ (name \in Nodes(g)) \in BOOLEAN
      /\ \A id \in At(g.byName, name, {}) : id \in Ids(ts) /\ DisplayName(id) = name
    BY NamedTables
<1> DEFINE named == At(g.byName, name, {})
           id == ResolveName(g, name, current).identity
<1>2. id = Choose(name, name \in Nodes(g), named, current).identity
    BY DEF ResolveName
<1> HIDE DEF named
<1>3. id # NoTable => (name \in Nodes(g) /\ id = name) \/ id \in named
    BY <1>1, <1>2, ChooseFound DEF named
<1> QED  BY <1>1, <1>3 DEF named, Describes, Lists

LEMMA TargetsAreTables ==
    ASSUME NEW g, NEW ts, Catalog(ts), Describes(g, ts), NEW fk \in ForeignKey, NEW s \in Name
    PROVE  /\ LET target == FkTarget(g, fk, s)
              IN target # NoTable => target \in Ids(ts) /\ fk.table \in {DisplayName(target), target}
           /\ Qualified(s, fk.table) \in Ids(ts) => FkTarget(g, fk, s) = Qualified(s, fk.table)
<1>1. fk.table \in Name
    BY DEF ForeignKey
<1>2. Qualified(s, fk.table) \in Ids(ts) <=> Qualified(s, fk.table) \in Nodes(g)
    BY DEF Describes, Lists
<1>3. DisplayName(Qualified(s, fk.table)) = fk.table
    BY <1>1, QualifiedIsRead
<1> QED  BY <1>2, <1>3, ResolveFinds DEF FkTarget

-----------------------------------------------------------------------------
(* Edges.                                                                  *)

(* A graph has these fields.                                               *)
IsGraph(g) ==
    g = [x \in {"tables", "members", "byName", "edges", "generation", "snapshot"} |-> g[x]]

LEMMA Changed ==
    ASSUME NEW g, IsGraph(g), g.generation \in Nat
    PROVE  LET h == GraphChanged(g)
           IN /\ IsGraph(h) /\ h.tables = g.tables /\ h.members = g.members
              /\ h.byName = g.byName /\ h.edges = g.edges
              /\ h.generation = g.generation + 1 /\ h.snapshot = NoSnapshot
BY DEF IsGraph, GraphChanged

(* The edge is one of the keys, and inferred only where the name it has is *)
(* in no declared one.                                                     *)
KeyOf(keys, target, edge) ==
    \E fk \in keys :
       /\ fk.table \in {DisplayName(target), target}
       /\ fk.column = edge.column /\ fk.referenced = edge.referenced
       /\ fk.inferred = edge.inferred
       /\ fk.inferred => \A k \in keys : k.table = fk.table => k.inferred

KeyEdge(g, ts, e) ==
    \E t \in ts : /\ e = << Identity(t), e[2] >> /\ e[2] \in Ids(ts)
                  /\ g.edges[e].ontology = FALSE
                  /\ KeyOf(Range(t.fks), e[2], g.edges[e])

Keyed(g, ts) == \A e \in DOMAIN g.edges : KeyEdge(g, ts, e)

Local(g, ts) ==
    \A t \in ts : \A fk \in Range(t.fks) :
       Qualified(t.schema, fk.table) \in Ids(ts) =>
          << Identity(t), Qualified(t.schema, fk.table) >> \in DOMAIN g.edges

LEMMA Greatest ==
    ASSUME NEW n \in Nat, NEW S, S \subseteq 1..n, S # {}
    PROVE  Max(S) \in S
<1> DEFINE T == {n - x : x \in S}
<1>1. T \subseteq Nat /\ T # {}
    <2>1. \A x \in 1..n : n - x \in Nat
        OBVIOUS
    <2>2. \A x \in S : n - x \in Nat
        BY <2>1
    <2> QED  BY <2>2
<1>2. PICK m \in T : \A k \in T : m <= k
    BY <1>1, Least
<1>3. PICK x \in S : m = n - x
    BY <1>2
<1>4. \A y \in S : x >= y
    <2> SUFFICES ASSUME NEW y \in S PROVE x >= y
        OBVIOUS
    <2>1. n - y \in T /\ y \in Nat /\ x \in Nat
        OBVIOUS
    <2>2. n - x <= n - y
        BY <1>2, <1>3, <2>1
    <2> QED  BY <2>1, <2>2
<1> QED  BY <1>4 DEF Max

LEMMA KeysOfTables ==
    ASSUME NEW ts, Catalog(ts), NEW t \in ts
    PROVE  /\ t.schema \in Name /\ t.name \in Name /\ t.fks \in Seq(ForeignKey)
           /\ Range(t.fks) \subseteq ForeignKey
           /\ \A fk \in Range(t.fks) : \E i \in DOMAIN t.fks : fk = t.fks[i]
<1>1. t.schema \in Name /\ t.name \in Name /\ t.fks \in Seq(ForeignKey)
    BY DEF Catalog, Table
<1> QED  BY <1>1 DEF Range

LEMMA EdgeToIsKey ==
    ASSUME NEW g, NEW ts, Catalog(ts), Describes(g, ts), NEW t \in ts,
           NEW fk \in Range(t.fks), NEW target, target = FkTarget(g, fk, t.schema),
           target # NoTable
    PROVE  /\ target \in Ids(ts) /\ EdgeTo(g, t, target).ontology = FALSE
           /\ KeyOf(Range(t.fks), target, EdgeTo(g, t, target))
<1> DEFINE keys == {i \in DOMAIN t.fks : FkTarget(g, t.fks[i], t.schema) = target}
           declared == {i \in keys : ~t.fks[i].inferred}
           some == IF declared = {} THEN keys ELSE declared
           j == Max(some)
           k == t.fks[j]
<1>1. /\ t.schema \in Name /\ t.fks \in Seq(ForeignKey) /\ Range(t.fks) \subseteq ForeignKey
      /\ \E i \in DOMAIN t.fks : fk = t.fks[i]
    BY KeysOfTables
<1>2. EdgeTo(g, t, target) = [column |-> k.column, referenced |-> k.referenced,
                              inferred |-> k.inferred, ontology |-> FALSE]
    BY DEF EdgeTo
<1>3. j \in some
    <2>1. Len(t.fks) \in Nat /\ DOMAIN t.fks = 1..Len(t.fks)
        BY <1>1
    <2>2. keys # {}
        BY <1>1
    <2>3. some # {} /\ some \subseteq 1..Len(t.fks)
        BY <2>1, <2>2
    <2> HIDE DEF some
    <2> QED  BY <2>1, <2>3, Greatest
<1>4. j \in keys /\ (declared = {} \/ j \in declared)
    BY <1>3
<1> HIDE DEF j
<1>5. k \in Range(t.fks) /\ k \in ForeignKey /\ FkTarget(g, k, t.schema) = target
    BY <1>1, <1>4 DEF Range
<1>6. target \in Ids(ts) /\ k.table \in {DisplayName(target), target}
    BY <1>1, <1>5, TargetsAreTables
<1>7. ASSUME k.inferred, NEW other \in Range(t.fks), other.table = k.table
      PROVE  other.inferred
    <2>1. PICK i \in DOMAIN t.fks : other = t.fks[i]
        BY DEF Range
    <2>2. FkTarget(g, other, t.schema) = target
        BY <1>5, <1>7 DEF FkTarget
    <2>3. i \in keys
        BY <2>1, <2>2
    <2>4. declared = {}
        BY <1>4, <1>7
    <2> QED  BY <2>1, <2>3, <2>4
<1> HIDE DEF k
<1>8. KeyOf(Range(t.fks), target, EdgeTo(g, t, target))
    BY <1>2, <1>5, <1>6, <1>7 DEF KeyOf
<1> QED  BY <1>2, <1>6, <1>8

(* What a report's keys add: an edge for each that leads to a table.       *)
LEMMA WithKeysKeyed ==
    ASSUME NEW g, IsGraph(g), NEW ts, Catalog(ts), Describes(g, ts), Keyed(g, ts),
           NEW rs \in SUBSET ts
    PROVE  LET h == WithKeys(g, rs)
           IN /\ h = [g EXCEPT !.edges = h.edges]
              /\ Keyed(h, ts)
              /\ DOMAIN g.edges \subseteq DOMAIN h.edges
              /\ \A t \in rs : \A fk \in Range(t.fks) :
                    LET target == FkTarget(g, fk, t.schema)
                    IN target # NoTable => << Identity(t), target >> \in DOMAIN h.edges
<1> DEFINE h == WithKeys(g, rs)
           target(t, fk) == FkTarget(g, fk, t.schema)
           pairs == UNION {{<< Identity(t), target(t, fk) >> : fk \in Range(t.fks)} : t \in rs}
           new == {p \in pairs : p[2] # NoTable}
           added == [e \in new |-> EdgeTo(g, g.tables[e[1]], e[2])]
<1>1. h = [g EXCEPT !.edges = Over(added, g.edges)]
    BY DEF WithKeys
<1>2. /\ \A e \in new : \E t \in rs : \E fk \in Range(t.fks) :
            e = << Identity(t), target(t, fk) >> /\ target(t, fk) # NoTable
      /\ \A t \in rs : \A fk \in Range(t.fks) : target(t, fk) # NoTable =>
            << Identity(t), target(t, fk) >> \in new
    OBVIOUS
<1> HIDE DEF new
<1>3. /\ DOMAIN Over(added, g.edges) = new \cup DOMAIN g.edges
      /\ \A e \in new : Over(added, g.edges)[e] = EdgeTo(g, g.tables[e[1]], e[2])
      /\ \A e \in DOMAIN g.edges \ new : Over(added, g.edges)[e] = g.edges[e]
    BY DEF Over
<1> DEFINE ed == Over(added, g.edges)
<1> HIDE DEF ed, added
<1>4. h.edges = ed /\ h = [g EXCEPT !.edges = ed] /\ DOMAIN ed = new \cup DOMAIN g.edges
    BY <1>1, <1>3 DEF IsGraph, ed
<1> HIDE DEF h
<1>5. ASSUME NEW e \in DOMAIN h.edges PROVE KeyEdge(h, ts, e)
    <2>1. CASE e \in new
        <3>1. PICK t \in rs : \E fk \in Range(t.fks) :
                  e = << Identity(t), target(t, fk) >> /\ target(t, fk) # NoTable
            BY <1>2, <2>1
        <3>2. PICK fk \in Range(t.fks) :
                  e = << Identity(t), target(t, fk) >> /\ target(t, fk) # NoTable
            BY <3>1
        <3>3. t \in ts /\ e[1] = Identity(t) /\ e[2] = target(t, fk) /\ g.tables[Identity(t)] = t
            BY <3>2 DEF Describes, Lists
        <3>4. h.edges[e] = EdgeTo(g, t, e[2])
            BY <1>3, <1>4, <2>1, <3>3 DEF ed
        <3>5. e[2] \in Ids(ts) /\ EdgeTo(g, t, e[2]).ontology = FALSE
              /\ KeyOf(Range(t.fks), e[2], EdgeTo(g, t, e[2]))
            BY <3>2, <3>3, EdgeToIsKey
        <3> QED  BY <3>2, <3>3, <3>4, <3>5 DEF KeyEdge
    <2>2. CASE e \notin new
        <3>1. e \in DOMAIN g.edges /\ h.edges[e] = g.edges[e]
            BY <1>3, <1>4, <2>2 DEF ed
        <3> QED  BY <3>1 DEF Keyed, KeyEdge
    <2> QED  BY <2>1, <2>2
<1>6. h = [g EXCEPT !.edges = h.edges]
    BY <1>4
<1> QED  BY <1>2, <1>4, <1>5, <1>6 DEF Keyed, h

-----------------------------------------------------------------------------
(* Tables that come and go.                                                *)

SchemasOf(ts) == {t.schema : t \in ts}

(* ts with the tables rs, in place of those they are reported for.         *)
Merged(ts, rs) == {t \in ts : Identity(t) \notin Ids(rs)} \cup rs

LEMMA SameTable ==
    ASSUME NEW t \in Table, NEW u \in Table, Identity(t) = Identity(u)
    PROVE  t.schema = u.schema /\ t.name = u.name
BY IdentityIsRead

LEMMA MergedCatalog ==
    ASSUME NEW ts, NEW rs, Catalog(ts), Catalog(rs)
    PROVE  /\ Catalog(Merged(ts, rs)) /\ rs \subseteq Merged(ts, rs)
           /\ Ids(Merged(ts, rs)) = Ids(ts) \cup Ids(rs)
<1>1. IsFiniteSet({t \in ts : Identity(t) \notin Ids(rs)})
    BY FS_Subset DEF Catalog
<1>2. IsFiniteSet(Merged(ts, rs))
    BY <1>1, FS_Union DEF Catalog, Merged
<1>3. \A t, u \in Merged(ts, rs) : Identity(t) = Identity(u) => t = u
    BY DEF Catalog, Merged, Ids
<1> QED  BY <1>2, <1>3 DEF Catalog, Merged, Ids

LEMMA WithNodesLists ==
    ASSUME NEW g, IsGraph(g), NEW ts, NEW rs, Catalog(ts), Catalog(rs), Lists(g, ts)
    PROVE  LET h == WithNodes(g, rs)
           IN Lists(h, Merged(ts, rs)) /\ h = [g EXCEPT !.tables = h.tables, !.byName = h.byName,
                                                        !.members = h.members]
<1> DEFINE h == WithNodes(g, rs)
           all == Merged(ts, rs)
           placed == [id \in Ids(rs) |-> CHOOSE t \in rs : Identity(t) = id]
           named == [n \in {t.name : t \in rs} |-> At(g.byName, n, {}) \cup Ids({t \in rs : t.name = n})]
           claimed == [s \in SchemasOf(rs) |->
                         At(g.members, s, {}) \cup Ids({t \in rs : t.schema = s})]
<1>1. h = [g EXCEPT !.tables = Over(placed, @), !.byName = Over(named, @),
                    !.members = Over(claimed, @)]
    BY DEF WithNodes, Ids, SchemasOf
<1>2. /\ h.tables = Over(placed, g.tables) /\ h.byName = Over(named, g.byName)
      /\ h = [g EXCEPT !.tables = h.tables, !.byName = h.byName, !.members = h.members]
    BY <1>1 DEF IsGraph
<1> HIDE DEF h
<1>3. Nodes(h) = Ids(all)
    <2>1. DOMAIN h.tables = Ids(rs) \cup Ids(ts)
        BY <1>2 DEF Over, Lists, Nodes
    <2> QED  BY <2>1, MergedCatalog DEF Nodes
<1>4. ASSUME NEW t \in all PROVE h.tables[Identity(t)] = t
    <2>1. CASE t \in rs
        <3>1. Identity(t) \in Ids(rs) /\ placed[Identity(t)] = t
            BY <2>1 DEF Ids, Catalog
        <3> HIDE DEF placed
        <3>2. DOMAIN placed = Ids(rs)
            BY DEF placed
        <3> QED  BY <1>2, <3>1, <3>2 DEF Over
    <2>2. CASE t \notin rs
        <3>1. t \in ts /\ Identity(t) \notin Ids(rs) /\ Identity(t) \in Ids(ts)
            BY <2>2 DEF Merged, Ids
        <3>2. Identity(t) \in DOMAIN g.tables /\ g.tables[Identity(t)] = t
            BY <3>1 DEF Lists, Nodes
        <3> QED  BY <1>2, <3>1, <3>2 DEF Over
    <2> QED  BY <2>1, <2>2
<1>5. DOMAIN h.byName = {t.name : t \in all}
    <2>1. DOMAIN h.byName = {t.name : t \in rs} \cup {t.name : t \in ts}
        BY <1>2 DEF Over, Lists
    <2>2. \A t \in ts : t \notin all => \E u \in rs : u.name = t.name
        <3> SUFFICES ASSUME NEW t \in ts, t \notin all PROVE \E u \in rs : u.name = t.name
            OBVIOUS
        <3>1. PICK u \in rs : Identity(u) = Identity(t)
            BY DEF Merged, Ids
        <3> QED  BY <3>1, SameTable DEF Catalog
    <2> QED  BY <2>1, <2>2 DEF Merged
<1>6. ASSUME NEW n \in DOMAIN h.byName PROVE h.byName[n] = Ids({t \in all : t.name = n})
    <2>1. Ids({t \in all : t.name = n}) = Ids({t \in ts : t.name = n}) \cup Ids({t \in rs : t.name = n})
        <3>1. ASSUME NEW t \in ts, t.name = n PROVE Identity(t) \in Ids({u \in all : u.name = n})
            <4>1. CASE Identity(t) \in Ids(rs)
                <5>1. PICK u \in rs : Identity(u) = Identity(t)
                    BY <4>1 DEF Ids
                <5>2. u.name = n /\ u \in all
                    BY <3>1, <5>1, SameTable DEF Catalog, Merged
                <5> QED  BY <5>1, <5>2 DEF Ids
            <4>2. CASE Identity(t) \notin Ids(rs)
                BY <3>1, <4>2 DEF Merged, Ids
            <4> QED  BY <4>1, <4>2
        <3> QED  BY <3>1 DEF Merged, Ids
    <2>2. CASE n \in {t.name : t \in rs}
        <3>1. h.byName[n] = At(g.byName, n, {}) \cup Ids({t \in rs : t.name = n})
            BY <1>2, <2>2 DEF Over
        <3>2. At(g.byName, n, {}) = Ids({t \in ts : t.name = n})
            <4>1. CASE n \in DOMAIN g.byName
                BY <4>1 DEF At, Lists
            <4>2. CASE n \notin DOMAIN g.byName
                BY <4>2 DEF At, Lists, Ids
            <4> QED  BY <4>1, <4>2
        <3> QED  BY <2>1, <3>1, <3>2
    <2>3. CASE n \notin {t.name : t \in rs}
        <3>1. n \in DOMAIN g.byName /\ h.byName[n] = g.byName[n]
            BY <1>2, <2>3 DEF Over
        <3>2. Ids({t \in rs : t.name = n}) = {}
            BY <2>3 DEF Ids
        <3> QED  BY <2>1, <3>1, <3>2 DEF Lists
    <2> QED  BY <2>2, <2>3
<1> QED  BY <1>2, <1>3, <1>4, <1>5, <1>6 DEF Lists, h

(* Each schema of the report claims what it reports, the others what they  *)
(* did.                                                                    *)
LEMMA WithNodesClaims ==
    ASSUME NEW g, IsGraph(g), NEW ts, NEW rs, Catalog(ts), Catalog(rs),
           \A t \in ts : t.schema \in SchemasOf(rs) => Identity(t) \in Ids(rs),
           \A s \in SchemasOf(ts) \ SchemasOf(rs) : s \in DOMAIN g.members,
           \A s \in DOMAIN g.members \ SchemasOf(rs) : g.members[s] = Ids({t \in ts : t.schema = s}),
           \A s \in SchemasOf(rs) : At(g.members, s, {}) = {}
    PROVE  Claims(WithNodes(g, rs), Merged(ts, rs))
<1> DEFINE h == WithNodes(g, rs)
           all == Merged(ts, rs)
           claimed == [s \in SchemasOf(rs) |->
                         At(g.members, s, {}) \cup Ids({t \in rs : t.schema = s})]
<1>1. h.members = Over(claimed, g.members)
    BY DEF WithNodes, Ids, SchemasOf, IsGraph
<1>2. DOMAIN h.members = SchemasOf(rs) \cup DOMAIN g.members
    BY <1>1 DEF Over
<1>3. \A s \in SchemasOf(rs) : h.members[s] = Ids({t \in rs : t.schema = s})
    BY <1>1 DEF Over
<1>4. \A s \in DOMAIN g.members \ SchemasOf(rs) : h.members[s] = Ids({t \in ts : t.schema = s})
    BY <1>1 DEF Over
<1> HIDE DEF h
<1>5. ASSUME NEW s \in SchemasOf(rs)
      PROVE  {t \in all : t.schema = s} = {t \in rs : t.schema = s}
    BY DEF Merged
<1>6. ASSUME NEW s, s \notin SchemasOf(rs)
      PROVE  {t \in all : t.schema = s} = {t \in ts : t.schema = s}
    <2>1. ASSUME NEW t \in ts, t.schema = s PROVE Identity(t) \notin Ids(rs)
        BY <1>6, <2>1, SameTable DEF Ids, Catalog, SchemasOf
    <2> QED  BY <1>6, <2>1 DEF Merged, SchemasOf
<1>7. SchemasOf(all) \subseteq DOMAIN h.members
    BY <1>2 DEF Merged, SchemasOf
<1>8. ASSUME NEW s \in DOMAIN h.members PROVE h.members[s] = Ids({t \in all : t.schema = s})
    BY <1>2, <1>3, <1>4, <1>5, <1>6
<1> QED  BY <1>7, <1>8 DEF Claims, SchemasOf, h

(* ts without those tables.                                                *)
Without(ts, ids) == {t \in ts : Identity(t) \notin ids}

LEMMA WithoutCatalog ==
    ASSUME NEW ts, Catalog(ts), NEW ids
    PROVE  Catalog(Without(ts, ids)) /\ Ids(Without(ts, ids)) = Ids(ts) \ ids
<1>1. IsFiniteSet(Without(ts, ids))
    BY FS_Subset DEF Catalog, Without
<1> QED  BY <1>1 DEF Catalog, Without, Ids

(* Removing tables removes them from every index, their edges too.  The    *)
(* generation says so whenever there was something to remove.              *)
LEMMA RemoveTablesDescribes ==
    ASSUME NEW g, IsGraph(g), NEW ts, Catalog(ts), Describes(g, ts), NEW ids \in SUBSET Ids(ts),
           g.generation \in Nat
    PROVE  LET h == RemoveTables(g, ids)
           IN /\ IsGraph(h) /\ Describes(h, Without(ts, ids))
              /\ h.generation \in Nat /\ h.generation >= g.generation
              /\ DOMAIN h.edges = {e \in DOMAIN g.edges : e[1] \notin ids /\ e[2] \notin ids}
              /\ \A e \in DOMAIN h.edges : h.edges[e] = g.edges[e]
              /\ DOMAIN h.members = DOMAIN g.members
<1> DEFINE h == RemoveTables(g, ids)
           kept == Without(ts, ids)
           names == [n \in DOMAIN g.byName |->
                       g.byName[n] \ {id \in ids : DisplayName(id) = n}]
           tables == Restrict(g.tables, DOMAIN g.tables \ ids)
           members == [s \in DOMAIN g.members |-> g.members[s] \ ids]
           byName == RestrictValues(names, LAMBDA x : x # {})
           edges == Restrict(g.edges, {e \in DOMAIN g.edges : e[1] \notin ids /\ e[2] \notin ids})
           left == [g EXCEPT !.tables = tables, !.members = members, !.byName = byName,
                             !.edges = edges]
<1>1. h = left \/ h = GraphChanged(left)
    BY DEF RemoveTables
<1> HIDE DEF tables, members, byName, edges
<1>2. /\ IsGraph(h) /\ h.tables = tables /\ h.members = members /\ h.byName = byName
      /\ h.edges = edges /\ h.generation \in Nat /\ h.generation >= g.generation
    <2>1. /\ IsGraph(left) /\ left.tables = tables /\ left.members = members
          /\ left.byName = byName /\ left.edges = edges /\ left.generation = g.generation
        BY DEF IsGraph
    <2> HIDE DEF left, h
    <2>2. CASE h = left
        BY <2>1, <2>2
    <2>3. CASE h = GraphChanged(left)
        BY <2>1, <2>3, Changed
    <2> QED  BY <1>1, <2>2, <2>3 DEF left
<1> HIDE DEF h
<1>3. Nodes(h) = Ids(kept) /\ \A t \in kept : h.tables[Identity(t)] = t
    <2>1. DOMAIN h.tables = Ids(ts) \ ids /\ \A id \in Ids(ts) \ ids : h.tables[id] = g.tables[id]
        BY <1>2 DEF tables, Restrict, Describes, Lists, Nodes
    <2>2. \A t \in kept : t \in ts /\ Identity(t) \in Ids(ts) \ ids
        BY DEF Without, Ids
    <2>3. \A t \in kept : h.tables[Identity(t)] = t
        BY <2>1, <2>2 DEF Describes, Lists
    <2> QED  BY <2>1, <2>3, WithoutCatalog DEF Nodes
<1>4. \A n : Ids({t \in kept : t.name = n}) = Ids({t \in ts : t.name = n}) \ ids
    BY DEF Without, Ids
<1>5. ASSUME NEW n \in DOMAIN g.byName
      PROVE  names[n] = Ids({t \in kept : t.name = n})
    <2>1. g.byName[n] = Ids({t \in ts : t.name = n})
        BY DEF Describes, Lists
    <2>2. \A id \in Ids({t \in ts : t.name = n}) : DisplayName(id) = n
        BY IdentityIsRead DEF Ids, Catalog
    <2>3. names[n] = g.byName[n] \ {id \in ids : DisplayName(id) = n}
        OBVIOUS
    <2> HIDE DEF names
    <2>4. \A id \in g.byName[n] : id \in ids <=> id \in {x \in ids : DisplayName(x) = n}
        BY <2>1, <2>2
    <2>5. names[n] = g.byName[n] \ ids
        BY <2>3, <2>4
    <2> QED  BY <1>4, <2>1, <2>5
<1>6. /\ DOMAIN h.byName = {n \in DOMAIN g.byName : names[n] # {}}
      /\ \A n \in DOMAIN h.byName : h.byName[n] = names[n]
    BY <1>2 DEF byName, RestrictValues, Restrict
<1> HIDE DEF names
<1>7. DOMAIN h.byName = {t.name : t \in kept}
    <2>1. ASSUME NEW t \in kept PROVE t.name \in DOMAIN h.byName
        <3>1. t \in ts /\ t.name \in DOMAIN g.byName
            BY DEF Without, Describes, Lists
        <3>2. Identity(t) \in Ids({u \in kept : u.name = t.name})
            BY DEF Ids
        <3> QED  BY <1>5, <1>6, <3>1, <3>2
    <2>2. ASSUME NEW n \in DOMAIN h.byName PROVE n \in {t.name : t \in kept}
        <3>1. Ids({t \in kept : t.name = n}) # {}
            BY <1>5, <1>6
        <3> QED  BY <3>1 DEF Ids
    <2> QED  BY <2>1, <2>2
<1>8. \A n \in DOMAIN h.byName : h.byName[n] = Ids({t \in kept : t.name = n})
    BY <1>5, <1>6
<1>9. Claims(h, kept)
    <2>1. DOMAIN h.members = DOMAIN g.members /\ \A s \in DOMAIN g.members : h.members[s] = g.members[s] \ ids
        BY <1>2 DEF members
    <2>2. \A s : Ids({t \in kept : t.schema = s}) = Ids({t \in ts : t.schema = s}) \ ids
        BY DEF Without, Ids
    <2>3. \A s \in DOMAIN h.members : h.members[s] = Ids({t \in kept : t.schema = s})
        <3> SUFFICES ASSUME NEW s \in DOMAIN h.members
                     PROVE  h.members[s] = Ids({t \in kept : t.schema = s})
            OBVIOUS
        <3>1. h.members[s] = g.members[s] \ ids /\ g.members[s] = Ids({t \in ts : t.schema = s})
            BY <2>1 DEF Claims, Describes
        <3> QED  BY <2>2, <3>1
    <2>4. {t.schema : t \in kept} \subseteq DOMAIN h.members
        BY <2>1 DEF Claims, Describes, Without
    <2> QED  BY <2>3, <2>4 DEF Claims
<1>10. /\ DOMAIN h.edges = {e \in DOMAIN g.edges : e[1] \notin ids /\ e[2] \notin ids}
       /\ \A e \in DOMAIN h.edges : h.edges[e] = g.edges[e]
    BY <1>2 DEF edges, Restrict
<1>11. DOMAIN h.members = DOMAIN g.members
    BY <1>2 DEF members
<1> QED  BY <1>2, <1>3, <1>7, <1>8, <1>9, <1>10, <1>11 DEF Describes, Lists, h

LEMMA IdentityInIds ==
    ASSUME NEW ts, ts \subseteq Table, NEW t \in Table, Identity(t) \in Ids(ts)
    PROVE  \E u \in ts : u.schema = t.schema /\ u.name = t.name
BY SameTable DEF Ids

(* What the graph drops for a report: the schema's tables the report does  *)
(* not have.  No other schema can claim those.                             *)
LEMMA DroppedTables ==
    ASSUME NEW m, NEW ts, Catalog(ts), Describes(m.graph, ts), NEW r
    PROVE  Dropped(m, r) = Ids({t \in ts : t.schema = r.schema}) \ Ids(r.tables)
<1> DEFINE g == m.graph
           own == Ids({t \in ts : t.schema = r.schema})
           missing == own \ Ids(r.tables)
<1>1. TablesOfSchema(g, r.schema) = own
    <2>1. CASE r.schema \in DOMAIN g.members
        BY <2>1 DEF TablesOfSchema, At, Describes, Claims
    <2>2. CASE r.schema \notin DOMAIN g.members
        <3>1. {t \in ts : t.schema = r.schema} = {}
            BY <2>2 DEF Describes, Claims
        <3> QED  BY <2>2, <3>1 DEF TablesOfSchema, At, Ids
    <2> QED  BY <2>1, <2>2
<1>2. TablesClaimedElsewhere(g, r.schema, missing) = {}
    <2> SUFFICES ASSUME NEW other \in DOMAIN g.members \ {r.schema}, NEW id \in missing,
                        id \in g.members[other]
                 PROVE  FALSE
        BY DEF TablesClaimedElsewhere
    <2>1. id \in Ids({t \in ts : t.schema = other}) /\ id \in Ids({t \in ts : t.schema = r.schema})
        BY DEF Describes, Claims
    <2>2. PICK t \in ts : t.schema = other /\ id = Identity(t)
        BY <2>1 DEF Ids
    <2>3. PICK u \in ts : u.schema = r.schema /\ id = Identity(u)
        BY <2>1 DEF Ids
    <2> QED  BY <2>2, <2>3, SameTable DEF Catalog
<1>3. Dropped(m, r) = missing \ TablesClaimedElsewhere(g, r.schema, missing)
    BY <1>1 DEF Dropped, Ids
<1> QED  BY <1>2, <1>3

(* The tables after a report: its own and the other schemas'.              *)
After(ts, r) == {t \in ts : t.schema # r.schema} \cup r.tables

LEMMA AfterIsMerged ==
    ASSUME NEW ts, Catalog(ts), NEW r, Catalog(r.tables), \A t \in r.tables : t.schema = r.schema
    PROVE  LET gone == Ids({t \in ts : t.schema = r.schema}) \ Ids(r.tables)
           IN After(ts, r) = Merged(Without(ts, gone), r.tables)
<1> DEFINE gone == Ids({t \in ts : t.schema = r.schema}) \ Ids(r.tables)
<1>1. ASSUME NEW t \in ts
      PROVE  t.schema # r.schema <=> Identity(t) \notin gone /\ Identity(t) \notin Ids(r.tables)
    <2>1. CASE t.schema = r.schema
        BY <2>1 DEF Ids
    <2>2. CASE t.schema # r.schema
        <3>1. Identity(t) \notin Ids(r.tables)
            BY <2>2, IdentityInIds DEF Catalog
        <3>2. Identity(t) \notin Ids({u \in ts : u.schema = r.schema})
            <4>1. {u \in ts : u.schema = r.schema} \subseteq Table
                BY DEF Catalog
            <4> QED  BY <2>2, <4>1, IdentityInIds DEF Catalog
        <3> QED  BY <2>2, <3>1, <3>2
    <2> QED  BY <2>1, <2>2
<1> HIDE DEF gone
<1> SUFFICES After(ts, r) = Merged(Without(ts, gone), r.tables)
    BY DEF gone
<1> QED  BY <1>1 DEF After, Merged, Without

(* What every graph the index publishes is.                                *)
WellBuilt(g, ts) ==
    /\ IsGraph(g) /\ g.generation \in Nat /\ Catalog(ts)
    /\ Describes(g, ts) /\ Keyed(g, ts) /\ Local(g, ts)

LEMMA BuildGraphWellBuilt ==
    ASSUME NEW g, IsGraph(g), g.generation \in Nat, NEW rs, Catalog(rs)
    PROVE  LET h == BuildGraph(g, rs)
           IN WellBuilt(h, rs) /\ h.generation > g.generation /\ h.snapshot = NoSnapshot
<1> DEFINE cleared == [GraphChanged(g) EXCEPT !.tables = Nothing, !.members = Nothing,
                                              !.byName = Nothing, !.edges = Nothing]
           placed == WithNodes(cleared, rs)
           keyed == WithKeys(placed, rs)
           h == BuildGraph(g, rs)
<1>1. /\ IsGraph(cleared) /\ cleared.tables = Nothing /\ cleared.members = Nothing
      /\ cleared.byName = Nothing /\ cleared.edges = Nothing
      /\ cleared.generation = g.generation + 1
    <2>1. IsGraph(GraphChanged(g)) /\ GraphChanged(g).generation = g.generation + 1
        BY Changed
    <2> QED  BY <2>1 DEF IsGraph
<1>2. DOMAIN Nothing = {} /\ Catalog({}) /\ Merged({}, rs) = rs /\ Ids({}) = {}
    BY FS_EmptySet DEF Nothing, Catalog, Merged, Ids
<1>3. Lists(cleared, {})
    BY <1>1, <1>2 DEF Lists, Nodes
<1> HIDE DEF cleared
<1>4. Lists(placed, rs) /\ placed = [cleared EXCEPT !.tables = placed.tables,
                                       !.byName = placed.byName, !.members = placed.members]
    <2>1. Lists(placed, Merged({}, rs))
          /\ placed = [cleared EXCEPT !.tables = placed.tables, !.byName = placed.byName,
                                      !.members = placed.members]
        <3>1. LET q == WithNodes(cleared, rs)
              IN Lists(q, Merged({}, rs)) /\ q = [cleared EXCEPT !.tables = q.tables, !.byName = q.byName,
                                                        !.members = q.members]
            <4>1. IsGraph(cleared) /\ Catalog({}) /\ Catalog(rs) /\ Lists(cleared, {})
                BY <1>1, <1>2, <1>3
            <4> QED  BY <4>1, WithNodesLists
        <3> QED  BY <3>1
    <2> HIDE DEF placed
    <2> QED  BY <1>2, <2>1
<1>5. Claims(placed, rs)
    <2>1. \A s \in SchemasOf(rs) : At(cleared.members, s, {}) = {}
        BY <1>1, <1>2 DEF At
    <2>2. Claims(placed, Merged({}, rs))
        BY <1>1, <1>2, <2>1, WithNodesClaims DEF SchemasOf
    <2> QED  BY <1>2, <2>2
<1> HIDE DEF placed
<1>6. IsGraph(placed) /\ placed.edges = Nothing /\ placed.generation = g.generation + 1
    BY <1>1, <1>4 DEF IsGraph
<1>7. Describes(placed, rs) /\ Keyed(placed, rs)
    BY <1>2, <1>4, <1>5, <1>6 DEF Describes, Keyed
<1>8. /\ keyed = [placed EXCEPT !.edges = keyed.edges] /\ Keyed(keyed, rs)
      /\ \A t \in rs : \A fk \in Range(t.fks) :
            FkTarget(placed, fk, t.schema) # NoTable =>
               << Identity(t), FkTarget(placed, fk, t.schema) >> \in DOMAIN keyed.edges
    BY <1>6, <1>7, WithKeysKeyed
<1> HIDE DEF keyed
<1>9. /\ IsGraph(keyed) /\ keyed.generation = g.generation + 1 /\ keyed.tables = placed.tables
      /\ keyed.members = placed.members /\ keyed.byName = placed.byName
    BY <1>6, <1>8 DEF IsGraph
<1>10. h = GraphChanged(keyed)
    BY DEF BuildGraph, keyed, placed, cleared
<1>11. /\ IsGraph(h) /\ h.generation = g.generation + 2 /\ h.tables = placed.tables
       /\ h.members = placed.members /\ h.byName = placed.byName /\ h.edges = keyed.edges
       /\ h.snapshot = NoSnapshot
    BY <1>9, <1>10, Changed
<1> HIDE DEF h
<1>12. Describes(h, rs)
    BY <1>7, <1>11 DEF Describes, Lists, Claims, Nodes
<1>13. Keyed(h, rs)
    BY <1>8, <1>11 DEF Keyed, KeyEdge
<1>14. Local(h, rs)
    <2> SUFFICES ASSUME NEW t \in rs, NEW fk \in Range(t.fks),
                        Qualified(t.schema, fk.table) \in Ids(rs)
                 PROVE  << Identity(t), Qualified(t.schema, fk.table) >> \in DOMAIN h.edges
        BY DEF Local
    <2>1. FkTarget(placed, fk, t.schema) = Qualified(t.schema, fk.table)
        BY <1>7, KeysOfTables, TargetsAreTables
    <2> QED  BY <1>8, <1>11, <2>1, IdsType
<1> QED  BY <1>11, <1>12, <1>13, <1>14 DEF WellBuilt, h

LEMMA RemoveTablesWellBuilt ==
    ASSUME NEW g, NEW ts, WellBuilt(g, ts), NEW ids \in SUBSET Ids(ts)
    PROVE  LET h == RemoveTables(g, ids)
           IN WellBuilt(h, Without(ts, ids)) /\ h.generation >= g.generation
<1> DEFINE h == RemoveTables(g, ids)
           left == Without(ts, ids)
<1>1. /\ IsGraph(g) /\ g.generation \in Nat /\ Catalog(ts) /\ Describes(g, ts)
      /\ Keyed(g, ts) /\ Local(g, ts)
    BY DEF WellBuilt
<1>2. /\ IsGraph(h) /\ Describes(h, left) /\ h.generation \in Nat
      /\ h.generation >= g.generation
      /\ DOMAIN h.edges = {e \in DOMAIN g.edges : e[1] \notin ids /\ e[2] \notin ids}
      /\ \A e \in DOMAIN h.edges : h.edges[e] = g.edges[e]
    BY <1>1, RemoveTablesDescribes
<1>3. Catalog(left) /\ Ids(left) = Ids(ts) \ ids
    BY <1>1, WithoutCatalog
<1>4. \A t \in ts : Identity(t) \in Ids(ts) /\ (t \in left <=> Identity(t) \notin ids)
    BY DEF Ids, Without
<1>5. left \subseteq ts
    BY DEF Without
<1> HIDE DEF h, left
<1>6. Keyed(h, left)
    <2> SUFFICES ASSUME NEW e \in DOMAIN h.edges PROVE KeyEdge(h, left, e)
        BY DEF Keyed
    <2>1. /\ e \in DOMAIN g.edges /\ e[1] \notin ids /\ e[2] \notin ids
          /\ h.edges[e] = g.edges[e]
        BY <1>2
    <2>2. PICK t \in ts : /\ e = << Identity(t), e[2] >> /\ e[2] \in Ids(ts)
                          /\ g.edges[e].ontology = FALSE
                          /\ KeyOf(Range(t.fks), e[2], g.edges[e])
        BY <1>1, <2>1 DEF Keyed, KeyEdge
    <2>3. e[1] = Identity(t)
        BY <2>2
    <2> QED  BY <1>3, <1>4, <2>1, <2>2, <2>3 DEF KeyEdge
<1>7. Local(h, left)
    <2> SUFFICES ASSUME NEW t \in left, NEW fk \in Range(t.fks),
                        Qualified(t.schema, fk.table) \in Ids(left)
                 PROVE  << Identity(t), Qualified(t.schema, fk.table) >> \in DOMAIN h.edges
        BY DEF Local
    <2> DEFINE e == << Identity(t), Qualified(t.schema, fk.table) >>
    <2>1. e \in DOMAIN g.edges
        BY <1>1, <1>3, <1>5 DEF Local
    <2>2. e[1] \notin ids /\ e[2] \notin ids
        BY <1>3, <1>4, <1>5
    <2> HIDE DEF e
    <2>3. e \in DOMAIN h.edges
        BY <1>2, <2>1, <2>2
    <2> QED  BY <2>3 DEF e
<1> QED  BY <1>2, <1>3, <1>6, <1>7 DEF WellBuilt, h, left

(* A schema that is reported has all its tables reported.                  *)
LEMMA AddToGraphWellBuilt ==
    ASSUME NEW g, NEW ts, WellBuilt(g, ts), NEW rs, Catalog(rs),
           \A t \in ts : t.schema \in SchemasOf(rs) => Identity(t) \in Ids(rs)
    PROVE  LET h == AddToGraph(g, rs)
           IN /\ WellBuilt(h, Merged(ts, rs)) /\ h.generation > g.generation
              /\ h.snapshot = NoSnapshot
<1> DEFINE all == Merged(ts, rs)
           zero == [s \in {t.schema : t \in rs} |-> {}]
           asked == [GraphChanged(g) EXCEPT !.members = Over(zero, @)]
           placed == WithNodes(asked, rs)
           rest == {e \in DOMAIN placed.edges : e[1] \notin Ids(rs)}
           bare == [placed EXCEPT !.edges = Restrict(@, rest)]
           keyed == WithKeys(bare, rs)
           h == AddToGraph(g, rs)
<1>1. /\ IsGraph(g) /\ g.generation \in Nat /\ Catalog(ts) /\ Describes(g, ts)
      /\ Keyed(g, ts) /\ Local(g, ts)
    BY DEF WellBuilt
<1>2. h = GraphChanged(keyed)
    BY DEF AddToGraph, Ids
<1>3. Catalog(all) /\ rs \subseteq all /\ Ids(all) = Ids(ts) \cup Ids(rs)
    BY <1>1, MergedCatalog
<1>4. /\ IsGraph(asked) /\ asked.tables = g.tables /\ asked.byName = g.byName
      /\ asked.edges = g.edges /\ asked.generation = g.generation + 1
      /\ asked.members = Over(zero, g.members)
    <2>1. LET q == GraphChanged(g)
          IN /\ IsGraph(q) /\ q.tables = g.tables /\ q.members = g.members
             /\ q.byName = g.byName /\ q.edges = g.edges
             /\ q.generation = g.generation + 1
        BY <1>1, Changed
    <2> HIDE DEF zero
    <2> QED  BY <2>1 DEF IsGraph
<1>5. Lists(asked, ts)
    BY <1>1, <1>4 DEF Describes, Lists, Nodes
<1>6. /\ DOMAIN asked.members = SchemasOf(rs) \cup DOMAIN g.members
      /\ \A s \in SchemasOf(rs) : At(asked.members, s, {}) = {}
      /\ \A s \in DOMAIN g.members \ SchemasOf(rs) : asked.members[s] = g.members[s]
    <2>1. asked.members = Over(zero, g.members)
        BY <1>4
    <2> HIDE DEF asked
    <2> QED  BY <2>1 DEF Over, At, SchemasOf
<1> HIDE DEF asked
<1>7. LET q == WithNodes(asked, rs)
      IN Lists(q, Merged(ts, rs)) /\ q = [asked EXCEPT !.tables = q.tables, !.byName = q.byName,
                                                       !.members = q.members]
    <2>1. IsGraph(asked) /\ Catalog(ts) /\ Catalog(rs)
        BY <1>1, <1>4
    <2> QED  BY <1>5, <2>1, WithNodesLists
<1>8. Claims(WithNodes(asked, rs), Merged(ts, rs))
    <2>1. \A s \in SchemasOf(ts) \ SchemasOf(rs) : s \in DOMAIN asked.members
        BY <1>1, <1>6 DEF Describes, Claims, SchemasOf
    <2>2. \A s \in DOMAIN asked.members \ SchemasOf(rs) :
              asked.members[s] = Ids({t \in ts : t.schema = s})
        BY <1>1, <1>6 DEF Describes, Claims
    <2> QED  BY <1>1, <1>4, <1>6, <2>1, <2>2, WithNodesClaims
<1>9. /\ Describes(placed, all)
      /\ placed = [asked EXCEPT !.tables = placed.tables, !.byName = placed.byName,
                                !.members = placed.members]
    BY <1>7, <1>8 DEF Describes
<1> HIDE DEF placed, all
<1>10. IsGraph(placed) /\ placed.edges = g.edges /\ placed.generation = g.generation + 1
    BY <1>4, <1>9 DEF IsGraph
<1>11. /\ IsGraph(bare) /\ bare.tables = placed.tables /\ bare.members = placed.members
       /\ bare.byName = placed.byName /\ bare.generation = g.generation + 1
       /\ bare.edges = Restrict(g.edges, rest)
    <2> HIDE DEF rest
    <2> QED  BY <1>10 DEF IsGraph
<1>12. /\ DOMAIN bare.edges = {e \in DOMAIN g.edges : e[1] \notin Ids(rs)}
       /\ \A e \in DOMAIN bare.edges : bare.edges[e] = g.edges[e]
    <2>1. bare.edges = Restrict(g.edges, {e \in DOMAIN g.edges : e[1] \notin Ids(rs)})
        BY <1>10, <1>11
    <2> HIDE DEF bare
    <2> QED  BY <2>1 DEF Restrict
<1> HIDE DEF bare
<1>13. Describes(bare, all)
    BY <1>9, <1>11 DEF Describes, Lists, Claims, Nodes
<1>14. /\ \A t \in ts : Identity(t) \in Ids(ts) /\ (Identity(t) \notin Ids(rs) => t \in all)
       /\ \A t \in all \ rs : t \in ts /\ Identity(t) \notin Ids(rs)
    BY DEF all, Merged, Ids
<1>15. Keyed(bare, all)
    <2> SUFFICES ASSUME NEW e \in DOMAIN bare.edges PROVE KeyEdge(bare, all, e)
        BY DEF Keyed
    <2>1. e \in DOMAIN g.edges /\ e[1] \notin Ids(rs) /\ bare.edges[e] = g.edges[e]
        BY <1>12
    <2>2. PICK t \in ts : /\ e = << Identity(t), e[2] >> /\ e[2] \in Ids(ts)
                          /\ g.edges[e].ontology = FALSE
                          /\ KeyOf(Range(t.fks), e[2], g.edges[e])
        BY <1>1, <2>1 DEF Keyed, KeyEdge
    <2>3. e[1] = Identity(t)
        BY <2>2
    <2> QED  BY <1>3, <1>14, <2>1, <2>2, <2>3 DEF KeyEdge
<1>16. /\ keyed = [bare EXCEPT !.edges = keyed.edges] /\ Keyed(keyed, all)
       /\ DOMAIN bare.edges \subseteq DOMAIN keyed.edges
       /\ \A t \in rs : \A fk \in Range(t.fks) :
            FkTarget(bare, fk, t.schema) # NoTable =>
               << Identity(t), FkTarget(bare, fk, t.schema) >> \in DOMAIN keyed.edges
    <2>1. rs \in SUBSET all
        BY <1>3
    <2>2. IsGraph(bare) /\ Catalog(all)
        BY <1>3, <1>11
    <2>3. LET q == WithKeys(bare, rs)
          IN /\ q = [bare EXCEPT !.edges = q.edges] /\ Keyed(q, all)
             /\ DOMAIN bare.edges \subseteq DOMAIN q.edges
             /\ \A t \in rs : \A fk \in Range(t.fks) :
                  LET target == FkTarget(bare, fk, t.schema)
                  IN target # NoTable => << Identity(t), target >> \in DOMAIN q.edges
        BY <1>13, <1>15, <2>1, <2>2, WithKeysKeyed
    <2> QED  BY <2>3
<1> HIDE DEF keyed
<1>17. /\ IsGraph(keyed) /\ keyed.generation = g.generation + 1 /\ keyed.tables = bare.tables
       /\ keyed.members = bare.members /\ keyed.byName = bare.byName
    BY <1>11, <1>16 DEF IsGraph
<1>18. /\ IsGraph(h) /\ h.generation = g.generation + 2 /\ h.tables = bare.tables
       /\ h.members = bare.members /\ h.byName = bare.byName /\ h.edges = keyed.edges
       /\ h.snapshot = NoSnapshot
    <2>1. keyed.generation \in Nat
        BY <1>1, <1>17
    <2> HIDE DEF h
    <2> QED  BY <1>1, <1>2, <1>17, <2>1, Changed
<1> HIDE DEF h
<1>19. Describes(h, all)
    BY <1>13, <1>18 DEF Describes, Lists, Claims, Nodes
<1>20. Keyed(h, all)
    BY <1>16, <1>18 DEF Keyed, KeyEdge
<1>21. Local(h, all)
    <2> SUFFICES ASSUME NEW t \in all, NEW fk \in Range(t.fks),
                        Qualified(t.schema, fk.table) \in Ids(all)
                 PROVE  << Identity(t), Qualified(t.schema, fk.table) >> \in DOMAIN h.edges
        BY DEF Local
    <2> DEFINE within == Qualified(t.schema, fk.table)
    <2>1. t.schema \in Name /\ fk \in ForeignKey /\ fk.table \in Name
        BY <1>3, KeysOfTables DEF ForeignKey
    <2>2. CASE t \in rs
        <3>1. FkTarget(bare, fk, t.schema) = within
            BY <1>3, <1>13, <2>1, TargetsAreTables
        <3> QED  BY <1>3, <1>16, <1>18, <2>2, <3>1, IdsType
    <2>3. CASE t \notin rs
        <3>1. t \in ts /\ Identity(t) \notin Ids(rs)
            BY <1>14, <2>3
        <3>2. PICK u \in all : Identity(u) = within
            BY DEF Ids
        <3>3. u.schema = t.schema
            <4>1. u \in Table
                BY <1>3 DEF Catalog
            <4> QED  BY <2>1, <3>2, <4>1, QualifiedIsRead, IdentityIsRead
        <3>4. u \notin rs
            BY <3>1, <3>3 DEF SchemasOf
        <3>5. within \in Ids(ts)
            BY <1>14, <3>2, <3>4
        <3>6. << Identity(t), within >> \in DOMAIN g.edges
            BY <1>1, <3>1, <3>5 DEF Local
        <3> HIDE DEF within
        <3>7. << Identity(t), within >> \in DOMAIN bare.edges
            BY <1>12, <3>1, <3>6
        <3> QED  BY <1>16, <1>18, <3>7 DEF within
    <2> QED  BY <2>2, <2>3
<1>22. h.generation > g.generation
    BY <1>1, <1>18
<1>23. WellBuilt(h, Merged(ts, rs))
    BY <1>1, <1>3, <1>18, <1>19, <1>20, <1>21 DEF WellBuilt, all
<1> QED  BY <1>18, <1>22, <1>23 DEF h

(* A report is added: the tables are its own and the other schemas'.       *)
LEMMA Accumulated ==
    ASSUME NEW m, NEW ts, WellBuilt(m.graph, ts), NEW r, Catalog(r.tables),
           \A t \in r.tables : t.schema = r.schema
    PROVE  LET h == AddToGraph(RemoveTables(m.graph, Dropped(m, r)), r.tables)
           IN /\ WellBuilt(h, After(ts, r)) /\ h.generation > m.graph.generation
              /\ h.snapshot = NoSnapshot
<1> DEFINE gone == Dropped(m, r)
           kept == RemoveTables(m.graph, gone)
           left == Without(ts, gone)
<1>1. Catalog(ts) /\ Describes(m.graph, ts) /\ m.graph.generation \in Nat
    BY DEF WellBuilt
<1>2. gone = Ids({t \in ts : t.schema = r.schema}) \ Ids(r.tables)
    BY <1>1, DroppedTables
<1>3. gone \in SUBSET Ids(ts)
    BY <1>2 DEF Ids
<1>4. After(ts, r) = Merged(left, r.tables)
    <2>1. LET ids == Ids({t \in ts : t.schema = r.schema}) \ Ids(r.tables)
          IN After(ts, r) = Merged(Without(ts, ids), r.tables)
        BY <1>1, AfterIsMerged
    <2> QED  BY <1>2, <2>1
<1> HIDE DEF gone
<1>5. WellBuilt(kept, left) /\ kept.generation >= m.graph.generation
    BY <1>3, RemoveTablesWellBuilt
<1>6. \A t \in left : t.schema \in SchemasOf(r.tables) => Identity(t) \in Ids(r.tables)
    BY <1>2 DEF Without, SchemasOf, Ids
<1>7. kept.generation \in Nat
    BY <1>5 DEF WellBuilt
<1>8. LET h == AddToGraph(kept, r.tables)
      IN /\ WellBuilt(h, Merged(left, r.tables)) /\ h.generation > kept.generation
         /\ h.snapshot = NoSnapshot
    <2> HIDE DEF kept, left
    <2> QED  BY <1>5, <1>6, AddToGraphWellBuilt
<1> DEFINE h == AddToGraph(kept, r.tables)
<1> HIDE DEF h
<1>9. WellBuilt(h, After(ts, r)) /\ h.generation > kept.generation /\ h.snapshot = NoSnapshot
    BY <1>4, <1>8 DEF h
<1>10. h.generation \in Nat
    BY <1>9 DEF WellBuilt
<1> HIDE DEF kept
<1>11. h.generation > m.graph.generation
    BY <1>1, <1>5, <1>7, <1>9, <1>10
<1> QED  BY <1>9, <1>11 DEF h, kept, gone

LEMMA EmptyIsWellBuilt ==
    WellBuilt(EmptyGraph, {}) /\ EmptyGraph.snapshot = NoSnapshot /\ EmptyGraph.generation = 0
<1>1. DOMAIN Nothing = {} /\ Catalog({}) /\ Ids({}) = {}
    BY FS_EmptySet DEF Nothing, Catalog, Ids
<1>2. /\ IsGraph(EmptyGraph) /\ EmptyGraph.generation = 0 /\ EmptyGraph.tables = Nothing
      /\ EmptyGraph.members = Nothing /\ EmptyGraph.byName = Nothing
      /\ EmptyGraph.edges = Nothing /\ EmptyGraph.snapshot = NoSnapshot
    BY DEF EmptyGraph, IsGraph
<1>3. Lists(EmptyGraph, {}) /\ Claims(EmptyGraph, {})
    BY <1>1, <1>2 DEF Lists, Claims, Nodes
<1>4. Keyed(EmptyGraph, {}) /\ Local(EmptyGraph, {})
    BY <1>1, <1>2 DEF Keyed, Local
<1> QED  BY <1>1, <1>2, <1>3, <1>4 DEF WellBuilt, Describes

(* _publish_schema leaves a graph of the schemas' last reports.            *)
LEMMA Published ==
    ASSUME NEW m, NEW ts, WellBuilt(m.graph, ts), NEW r, Catalog(r.tables),
           \A t \in r.tables : t.schema = r.schema,
           NEW accumulate \in BOOLEAN, ~accumulate => ts = {}
    PROVE  LET kept == RemoveTables(m.graph, Dropped(m, r))
               h == IF accumulate THEN AddToGraph(kept, r.tables) ELSE BuildGraph(kept, r.tables)
           IN /\ WellBuilt(h, After(ts, r)) /\ h.generation > m.graph.generation
              /\ h.snapshot = NoSnapshot
<1> DEFINE kept == RemoveTables(m.graph, Dropped(m, r))
<1>1. CASE accumulate
    BY <1>1, Accumulated
<1>2. CASE ~accumulate
    <2> DEFINE h == BuildGraph(kept, r.tables)
    <2>1. ts = {} /\ After(ts, r) = r.tables
        BY <1>2 DEF After
    <2>2. Dropped(m, r) \in SUBSET Ids(ts)
        <3>1. Catalog(ts) /\ Describes(m.graph, ts)
            BY DEF WellBuilt
        <3>2. Dropped(m, r) = Ids({t \in ts : t.schema = r.schema}) \ Ids(r.tables)
            BY <3>1, DroppedTables
        <3> QED  BY <3>2 DEF Ids
    <2>3. LET q == RemoveTables(m.graph, Dropped(m, r))
          IN WellBuilt(q, Without(ts, Dropped(m, r))) /\ q.generation >= m.graph.generation
        BY <2>2, RemoveTablesWellBuilt
    <2>4. IsGraph(kept) /\ kept.generation \in Nat /\ m.graph.generation \in Nat
        BY <2>3 DEF WellBuilt
    <2> HIDE DEF kept
    <2>5. WellBuilt(h, r.tables) /\ h.generation > kept.generation /\ h.snapshot = NoSnapshot
        BY <2>4, BuildGraphWellBuilt
    <2> HIDE DEF h
    <2>6. h.generation \in Nat
        BY <2>5 DEF WellBuilt
    <2>7. h.generation > m.graph.generation
        BY <2>3, <2>4, <2>5, <2>6 DEF kept
    <2> QED  BY <1>2, <2>1, <2>5, <2>7 DEF kept, h
<1> QED  BY <1>1, <1>2

(* A lookup changes the snapshot only.                                     *)
LEMMA LookedWellBuilt ==
    ASSUME NEW g, NEW ts, WellBuilt(g, ts)
    PROVE  LET h == Looked(g)
           IN /\ WellBuilt(h, ts) /\ h.tables = g.tables /\ h.byName = g.byName
              /\ h.edges = g.edges /\ h.generation = g.generation
              /\ h.snapshot = [generation |-> g.generation, edges |-> UndirectedSnapshot(g)]
<1> DEFINE h == Looked(g)
           snapshot == [generation |-> g.generation, edges |-> UndirectedSnapshot(g)]
<1>1. IsGraph(g)
    BY DEF WellBuilt
<1>2. h = [g EXCEPT !.snapshot = snapshot]
    BY DEF Looked
<1> HIDE DEF h, snapshot
<1>3. /\ IsGraph(h) /\ h.tables = g.tables /\ h.byName = g.byName /\ h.edges = g.edges
      /\ h.generation = g.generation /\ h.members = g.members /\ h.snapshot = snapshot
    BY <1>1, <1>2 DEF IsGraph
<1>4. Describes(h, ts) /\ Keyed(h, ts) /\ Local(h, ts)
    BY <1>3 DEF WellBuilt, Describes, Lists, Claims, Nodes, Keyed, KeyEdge, Local
<1>5. WellBuilt(h, ts)
    BY <1>3, <1>4 DEF WellBuilt
<1> QED  BY <1>3, <1>5 DEF h, snapshot

-----------------------------------------------------------------------------
(* What an ontology adds.                                                  *)

LEMMA Smallest ==
    ASSUME NEW S, S \subseteq Nat, S # {}
    PROVE  Min(S) \in S
<1>1. PICK m \in S : \A k \in S : m <= k
    BY Least
<1> QED  BY <1>1 DEF Min

LEMMA OntologyTableFound ==
    ASSUME NEW g, NEW ts, WellBuilt(g, ts), NEW name, NEW schema, NEW current,
           OntologyTable(g, name, schema, current) # NoTable
    PROVE  OntologyTable(g, name, schema, current) \in Nodes(g)
<1> DEFINE indexed == IndexedName(g, name)
<1>1. Catalog(ts) /\ Describes(g, ts) /\ Nodes(g) = Ids(ts)
    BY DEF WellBuilt, Describes, Lists
<1>2. LET id == ResolveName(g, indexed, current).identity
      IN id # NoTable => id \in Ids(ts)
    BY <1>1, ResolveFinds
<1> HIDE DEF indexed
<1>3. \/ OntologyTable(g, name, schema, current) \in Nodes(g)
      \/ OntologyTable(g, name, schema, current) = NoTable
      \/ OntologyTable(g, name, schema, current) = ResolveName(g, indexed, current).identity
    BY DEF OntologyTable, indexed
<1> QED  BY <1>1, <1>2, <1>3

(* What an ontology asserts is of tables the graph has.                    *)
LEMMA AssertedOfTables ==
    ASSUME NEW g, NEW ts, WellBuilt(g, ts), NEW current
    PROVE  LET asserted == Asserted(g, Assertions, current)
           IN /\ DOMAIN asserted \subseteq Nat
              /\ \A i \in DOMAIN asserted :
                    {asserted[i].source, asserted[i].target} \subseteq Nodes(g)
<1> DEFINE asserted == Asserted(g, Assertions, current)
           source(i) == OntologyTable(g, Assertions[i].source, Assertions[i].placed, current)
           target(i) == OntologyTable(g, Assertions[i].target, Assertions[i].placed, current)
<1>1. DOMAIN Assertions \subseteq Nat
    BY NavigationAssumption
<1>2. /\ DOMAIN asserted = {j \in DOMAIN Assertions : source(j) # NoTable /\ target(j) # NoTable}
      /\ \A i \in DOMAIN asserted : asserted[i].source = source(i) /\ asserted[i].target = target(i)
    BY DEF Asserted
<1> HIDE DEF asserted
<1>3. \A i \in DOMAIN asserted : source(i) \in Nodes(g) /\ target(i) \in Nodes(g)
    BY <1>2, OntologyTableFound
<1> QED  BY <1>1, <1>2, <1>3 DEF asserted

(* The extension of a graph with relationships.                            *)
Extends(h, g, relationships) ==
    /\ Nodes(h) = Nodes(g)
    /\ DOMAIN g.edges \subseteq DOMAIN h.edges
    /\ \A e \in DOMAIN h.edges :
         IF h.edges[e].ontology
         THEN /\ \E r \in Range(relationships) : << r.source, r.target >> = e
              /\ e \in DOMAIN g.edges => g.edges[e].inferred
         ELSE e \in DOMAIN g.edges /\ h.edges[e] = g.edges[e]
    /\ \A r \in Range(relationships) : r.source # r.target =>
         << r.source, r.target >> \in DOMAIN h.edges

LEMMA WithRelationshipsExtends ==
    ASSUME NEW g, NEW ts, WellBuilt(g, ts), NEW rel, DOMAIN rel \subseteq Nat,
           \A i \in DOMAIN rel : {rel[i].source, rel[i].target} \subseteq Nodes(g)
    PROVE  Extends(WithRelationships(g, rel), g, rel)
<1> DEFINE pair(i) == << rel[i].source, rel[i].target >>
           declared(e) == e \in DOMAIN g.edges /\ ~g.edges[e].inferred
           new == {i \in DOMAIN rel :
                     /\ {rel[i].source, rel[i].target} \subseteq Nodes(g)
                     /\ rel[i].source # rel[i].target
                     /\ ~declared(pair(i))}
           first(e) == rel[Min({i \in new : pair(i) = e})]
           asserted(e) == [column |-> first(e).column, referenced |-> first(e).referenced,
                           inferred |-> FALSE, ontology |-> TRUE]
           added == [e \in {pair(i) : i \in new} |-> asserted(e)]
           h == WithRelationships(g, rel)
<1>1. IsGraph(g) /\ Keyed(g, ts) /\ g.generation \in Nat
    BY DEF WellBuilt
<1>2. \A e \in DOMAIN g.edges : g.edges[e].ontology = FALSE
    BY <1>1 DEF Keyed, KeyEdge
<1>3. DOMAIN added = {pair(i) : i \in new} /\ \A e \in DOMAIN added : added[e].ontology = TRUE
    <2> HIDE DEF new, first
    <2> QED  OBVIOUS
<1>4. /\ h.tables = g.tables
      /\ DOMAIN h.edges = DOMAIN added \cup DOMAIN g.edges
      /\ \A e \in DOMAIN added : h.edges[e].ontology = TRUE
      /\ \A e \in DOMAIN g.edges : e \notin DOMAIN added => h.edges[e] = g.edges[e]
    <2>1. CASE new = {}
        <3>1. h = g
            BY <2>1 DEF WithRelationships
        <3>2. DOMAIN added = {}
            BY <1>3, <2>1
        <3> HIDE DEF h, added
        <3> QED  BY <3>1, <3>2
    <2>2. CASE new # {}
        <3> DEFINE k == [g EXCEPT !.edges = Over(added, @)]
        <3>1. h = GraphChanged(k)
            BY <2>2 DEF WithRelationships
        <3> HIDE DEF added, h
        <3>2. IsGraph(k) /\ k.tables = g.tables /\ k.edges = Over(added, g.edges) /\ k.generation \in Nat
            BY <1>1 DEF IsGraph
        <3> HIDE DEF k
        <3>3. h.tables = g.tables /\ h.edges = Over(added, g.edges)
            BY <3>1, <3>2, Changed
        <3> QED  BY <1>3, <3>3 DEF Over
    <2> QED  BY <2>1, <2>2
<1> HIDE DEF h, added
<1>5. \A i \in new : ~declared(pair(i)) /\ rel[i] \in Range(rel)
    BY DEF Range
<1>6. \A i \in DOMAIN rel : rel[i].source # rel[i].target => i \in new \/ pair(i) \in DOMAIN g.edges
    OBVIOUS
<1> HIDE DEF new
<1>7. ASSUME NEW e \in DOMAIN h.edges
      PROVE  IF h.edges[e].ontology
             THEN /\ \E r \in Range(rel) : << r.source, r.target >> = e
                  /\ e \in DOMAIN g.edges => g.edges[e].inferred
             ELSE e \in DOMAIN g.edges /\ h.edges[e] = g.edges[e]
    <2>1. CASE e \in DOMAIN added
        BY <1>3, <1>4, <1>5, <2>1
    <2>2. CASE e \notin DOMAIN added
        BY <1>2, <1>4, <2>2
    <2> QED  BY <2>1, <2>2
<1>8. ASSUME NEW r \in Range(rel), r.source # r.target
      PROVE  << r.source, r.target >> \in DOMAIN h.edges
    <2>1. PICK i \in DOMAIN rel : r = rel[i]
        BY DEF Range
    <2> QED  BY <1>3, <1>4, <1>6, <1>8, <2>1
<1> QED  BY <1>4, <1>7, <1>8 DEF Extends, Nodes, h

(* The extension reads the tables, the names and the edges only.           *)
LEMMA ExtensionOfAlike ==
    ASSUME NEW g, NEW h, IsGraph(g), IsGraph(h), g.generation \in Nat, h.generation \in Nat,
           h.tables = g.tables, h.byName = g.byName, h.edges = g.edges, NEW current
    PROVE  /\ Asserted(h, Assertions, current) = Asserted(g, Assertions, current)
           /\ \A rel : /\ WithRelationships(h, rel).tables = WithRelationships(g, rel).tables
                       /\ WithRelationships(h, rel).edges = WithRelationships(g, rel).edges
<1>1. \A name, schema : OntologyTable(h, name, schema, current) = OntologyTable(g, name, schema, current)
    BY DEF OntologyTable, IndexedName, ResolveName, Nodes
<1>2. Asserted(h, Assertions, current) = Asserted(g, Assertions, current)
    BY <1>1 DEF Asserted
<1>3. ASSUME NEW rel
      PROVE  /\ WithRelationships(h, rel).tables = WithRelationships(g, rel).tables
             /\ WithRelationships(h, rel).edges = WithRelationships(g, rel).edges
    <2> DEFINE pair(i) == << rel[i].source, rel[i].target >>
               declared(e) == e \in DOMAIN g.edges /\ ~g.edges[e].inferred
               new == {i \in DOMAIN rel :
                         /\ {rel[i].source, rel[i].target} \subseteq Nodes(g)
                         /\ rel[i].source # rel[i].target
                         /\ ~declared(pair(i))}
               first(e) == rel[Min({i \in new : pair(i) = e})]
               asserted(e) == [column |-> first(e).column, referenced |-> first(e).referenced,
                               inferred |-> FALSE, ontology |-> TRUE]
               ed == Over([e \in {pair(i) : i \in new} |-> asserted(e)], g.edges)
               longer(k) == [k EXCEPT !.edges = ed]
    <2>1. WithRelationships(g, rel) = IF new = {} THEN g ELSE GraphChanged(longer(g))
        BY DEF WithRelationships
    <2>2. WithRelationships(h, rel) = IF new = {} THEN h ELSE GraphChanged(longer(h))
        BY DEF WithRelationships, Nodes
    <2> HIDE DEF new, ed
    <2>3. /\ IsGraph(longer(g)) /\ longer(g).generation \in Nat /\ longer(g).tables = g.tables
          /\ longer(g).edges = ed
          /\ IsGraph(longer(h)) /\ longer(h).generation \in Nat /\ longer(h).tables = g.tables
          /\ longer(h).edges = ed
        BY DEF IsGraph
    <2> HIDE DEF longer
    <2>4. /\ GraphChanged(longer(g)).tables = g.tables /\ GraphChanged(longer(g)).edges = ed
          /\ GraphChanged(longer(h)).tables = g.tables /\ GraphChanged(longer(h)).edges = ed
        BY <2>3, Changed
    <2> QED  BY <2>1, <2>2, <2>4
<1> QED  BY <1>2, <1>3

-----------------------------------------------------------------------------
(* The inductive invariant.                                                *)

Reported == UNION {latest[s].tables : s \in DOMAIN latest}

(* Each schema's last report is of its own tables.                         *)
ReportsAreLocal ==
    \A s \in DOMAIN latest :
       "tables" \in DOMAIN latest[s] /\ \A t \in latest[s].tables : t.schema = s

IsManager(m) ==
    m = [x \in {"graph", "names", "last", "ready", "home", "communities"} |-> m[x]]

(* The manager is what the last reports make of it.                        *)
ManagerIsAsReported ==
    /\ IsManager(mgr) /\ mgr.names \in Seq(Name) /\ mgr.ready \in BOOLEAN
    /\ WellBuilt(mgr.graph, Reported)
    /\ mgr.communities = Ids(Reported)
    /\ mgr.ready => mgr.names # << >>
    /\ ~mgr.ready => Reported = {}

(* A snapshot is of the edges there are, or a stale one that says so.      *)
SnapshotIsCurrent ==
    mgr.graph.snapshot.generation = mgr.graph.generation =>
       mgr.graph.snapshot.edges = BothWays(DOMAIN mgr.graph.edges)

(* What was saved was the tables of schemas that were reported.            *)
FilesAreTables ==
    files # NoFiles =>
       /\ files.combined.names \in Seq(Name) /\ files.combined.names # << >>
       /\ Catalog(files.combined.tables)
       /\ files.combined.communities = Ids(files.combined.tables)
       /\ SchemasOf(files.combined.tables) \subseteq DOMAIN latest

Extension(s) == WithRelationships(mgr.graph, Asserted(mgr.graph, Assertions, s))

(* A copy made from the graph as it is now is still its extension.         *)
OverlayIsCurrent ==
    /\ working \in Schemas /\ DOMAIN overlay = Schemas
    /\ \A s \in Schemas : overlay[s].made =>
          /\ overlay[s].generation \in Nat
          /\ overlay[s].generation <= mgr.graph.generation
          /\ overlay[s].generation = mgr.graph.generation =>
               /\ overlay[s].graph.tables = Extension(s).tables
               /\ overlay[s].graph.edges = Extension(s).edges

VectorsArePresent ==
    \A e \in vectors :
       /\ e.kind \in {"table", "column", "relationship"} => e.id \in Ids(Reported) \cup stranded
       /\ e.kind = "relationship" => e.detail \in Ids(Reported) \cup stranded \/ e \in outside

IInv ==
    /\ ReportsAreLocal
    /\ ManagerIsAsReported
    /\ SnapshotIsCurrent
    /\ FilesAreTables
    /\ OverlayIsCurrent
    /\ VectorsArePresent

LEMMA InitIInv == Init => IInv
<1> SUFFICES ASSUME Init PROVE IInv
    OBVIOUS
<1>1. Reported = {} /\ DOMAIN latest = {}
    BY DEF Init, Reported, Nothing
<1>2. Ids({}) = {}
    BY DEF Ids
<1>3. mgr = [graph |-> EmptyGraph, names |-> << >>, last |-> <<"s">>, ready |-> FALSE,
             home |-> <<"s">>, communities |-> {}]
    BY DEF Init, NewManager
<1>4. /\ IsManager(mgr) /\ mgr.graph = EmptyGraph /\ mgr.names = << >> /\ mgr.ready = FALSE
      /\ mgr.communities = {}
    BY <1>3 DEF IsManager
<1>5. WellBuilt(mgr.graph, Reported)
    BY <1>1, <1>4, EmptyIsWellBuilt
<1>6. ManagerIsAsReported
    <2>1. mgr.names \in Seq(Name) /\ mgr.ready = FALSE
        BY <1>4
    <2>2. mgr.communities = Ids(Reported)
        BY <1>1, <1>2, <1>4
    <2> QED  BY <1>1, <1>4, <1>5, <2>1, <2>2 DEF ManagerIsAsReported
<1>7. SnapshotIsCurrent
    BY <1>4, EmptyIsWellBuilt DEF SnapshotIsCurrent, NoSnapshot
<1>8. working \in Schemas
    BY NavigationAssumption DEF Init
<1>9. OverlayIsCurrent
    BY <1>8 DEF Init, OverlayIsCurrent, NoOverlay
<1> QED  BY <1>1, <1>6, <1>7, <1>9 DEF Init, IInv, ReportsAreLocal, FilesAreTables, VectorsArePresent

(* A report as discovery makes it.                                         *)
LEMMA ReportsAreCatalogs ==
    ASSUME NEW report \in Reports
    PROVE  /\ Catalog(report.tables) /\ \A t \in report.tables : t.schema = report.schema
           /\ report.schema \in Name /\ "tables" \in DOMAIN report
<1>1. Discovered(report) /\ report.tables \subseteq Table /\ report.schema \in Name
      /\ "tables" \in DOMAIN report
    BY NavigationAssumption
<1>2. \A t, u \in report.tables : Identity(t) = Identity(u) => t = u
    BY <1>1, SameTable DEF Discovered
<1> QED  BY <1>1, <1>2 DEF Discovered, Catalog

(* The elements a report is embedded as.                                   *)
LEMMA EmbeddedOf ==
    ASSUME NEW report, NEW e
    PROVE  e \in Embedded(report) <=>
              \/ \E t \in report.tables :
                    e = TableElement(t) \/ e \in ColumnElements(t) \/ e \in KeyElements(t)
              \/ \E v \in report.views : e = ViewElement(v)
BY DEF Embedded

LEMMA IndexSchemaIInv ==
    ASSUME IInv, NEW report \in Reports, NEW deleteFails \in BOOLEAN,
           IndexSchema(report, deleteFails)
    PROVE  IInv'
<1> DEFINE rs == report.tables
           dropped == Dropped(mgr, report)
           kept == RemoveTables(mgr.graph, dropped)
           h == IF mgr.ready THEN AddToGraph(kept, rs) ELSE BuildGraph(kept, rs)
           names == IF report.schema \in Range(mgr.names) THEN mgr.names
                    ELSE Append(mgr.names, report.schema)
<1>1. Catalog(rs) /\ (\A t \in rs : t.schema = report.schema) /\ report.schema \in Name
      /\ "tables" \in DOMAIN report
    BY ReportsAreCatalogs
<1>2. /\ IsManager(mgr) /\ mgr.names \in Seq(Name) /\ mgr.ready \in BOOLEAN
      /\ WellBuilt(mgr.graph, Reported)
      /\ ~mgr.ready => Reported = {}
    BY DEF IInv, ManagerIsAsReported
<1>3. latest' = Over([s \in {report.schema} |-> report], latest)
    BY DEF IndexSchema
<1>4. /\ DOMAIN latest' = DOMAIN latest \cup {report.schema}
      /\ latest'[report.schema] = report
      /\ \A s \in DOMAIN latest \ {report.schema} : latest'[s] = latest[s]
    BY <1>3 DEF Over
<1>5. ReportsAreLocal'
    BY <1>1, <1>4 DEF IInv, ReportsAreLocal
<1>6. Reported' = After(Reported, report)
    <2>1. ASSUME NEW t, t \in Reported, t.schema # report.schema PROVE t \in Reported'
        <3>1. PICK s \in DOMAIN latest : t \in latest[s].tables
            BY <2>1 DEF Reported
        <3>2. s # report.schema
            BY <2>1, <3>1 DEF IInv, ReportsAreLocal
        <3> QED  BY <1>4, <3>1, <3>2 DEF Reported
    <2>2. ASSUME NEW t, t \in Reported', t \notin rs PROVE t \in Reported /\ t.schema # report.schema
        <3>1. PICK s \in DOMAIN latest' : t \in latest'[s].tables
            BY <2>2 DEF Reported
        <3>2. s \in DOMAIN latest /\ s # report.schema /\ t \in latest[s].tables
            BY <1>4, <2>2, <3>1
        <3>3. t.schema = s
            BY <3>2 DEF IInv, ReportsAreLocal
        <3> QED  BY <3>2, <3>3 DEF Reported
    <2>3. rs \subseteq Reported'
        BY <1>4 DEF Reported
    <2> QED  BY <2>1, <2>2, <2>3 DEF After
<1>7. WellBuilt(h, Reported') /\ h.generation > mgr.graph.generation /\ h.snapshot = NoSnapshot
    <2>1. LET q == RemoveTables(mgr.graph, Dropped(mgr, report))
              r == IF mgr.ready THEN AddToGraph(q, report.tables) ELSE BuildGraph(q, report.tables)
          IN /\ WellBuilt(r, After(Reported, report)) /\ r.generation > mgr.graph.generation
             /\ r.snapshot = NoSnapshot
        BY <1>1, <1>2, Published
    <2> QED  BY <1>6, <2>1
<1>8. mgr' = [mgr EXCEPT !.graph = h, !.communities = Nodes(h), !.last = report.schema,
                         !.names = names, !.ready = TRUE]
    BY DEF IndexSchema, PublishSchema
<1>9. names \in Seq(Name) /\ names # << >>
    <2>1. CASE report.schema \in Range(mgr.names)
        BY <1>2, <2>1 DEF Range
    <2>2. CASE report.schema \notin Range(mgr.names)
        BY <1>1, <1>2, <2>2
    <2> QED  BY <2>1, <2>2
<1> HIDE DEF h, names
<1>10. /\ IsManager(mgr') /\ mgr'.graph = h /\ mgr'.communities = Nodes(h) /\ mgr'.names = names
       /\ mgr'.ready = TRUE
    BY <1>2, <1>8 DEF IsManager
<1>11. Nodes(h) = Ids(Reported')
    BY <1>7 DEF WellBuilt, Describes, Lists
<1>12. ManagerIsAsReported'
    <2>1. WellBuilt(mgr.graph, Reported)'
        BY <1>7, <1>10
    <2>2. IsManager(mgr)'
        BY <1>10
    <2>3. (mgr.communities = Ids(Reported))'
        BY <1>10, <1>11
    <2>4. mgr'.names \in Seq(Name) /\ mgr'.names # << >> /\ mgr'.ready = TRUE
        BY <1>9, <1>10
    <2> QED  BY <2>1, <2>2, <2>3, <2>4 DEF ManagerIsAsReported
<1>13. SnapshotIsCurrent'
    <2>1. h.generation \in Nat /\ h.snapshot.generation = -1
        BY <1>7 DEF WellBuilt, NoSnapshot
    <2>2. h.snapshot.generation # h.generation
        BY <2>1
    <2> QED  BY <1>10, <2>2 DEF SnapshotIsCurrent
<1>14. FilesAreTables'
    <2>1. files' = files
        BY DEF IndexSchema
    <2> QED  BY <1>4, <2>1 DEF IInv, FilesAreTables
<1>15. OverlayIsCurrent'
    <2>1. overlay' = overlay /\ working' = working
        BY DEF IndexSchema
    <2>2. mgr.graph.generation \in Nat /\ h.generation \in Nat
        BY <1>2, <1>7 DEF WellBuilt
    <2>3. \A s \in Schemas : overlay[s].made =>
             overlay[s].generation \in Nat /\ overlay[s].generation <= mgr.graph.generation
        BY DEF IInv, OverlayIsCurrent
    <2>4. \A s \in Schemas : overlay[s].made => overlay[s].generation < h.generation
        BY <1>7, <2>2, <2>3
    <2>5. \A s \in Schemas : overlay[s].made => overlay[s].generation <= h.generation
                                /\ overlay[s].generation # h.generation
        BY <2>2, <2>3, <2>4
    <2> QED  BY <1>10, <2>1, <2>3, <2>5 DEF IInv, OverlayIsCurrent
<1>16. VectorsArePresent'
    <2>1. dropped = Ids({t \in Reported : t.schema = report.schema}) \ Ids(rs)
        BY <1>2, DroppedTables DEF WellBuilt
    <2>2. /\ vectors' = (IF deleteFails THEN vectors ELSE DeleteTables(vectors, dropped))
                        \cup Embedded(report)
          /\ stranded' = (IF deleteFails THEN stranded \cup dropped ELSE stranded) \ Ids(rs)
        BY DEF IndexSchema, PublishVectors, Ids
    <2>3. Nodes(mgr'.graph) = Ids(Reported')
        BY <1>12 DEF ManagerIsAsReported, WellBuilt, Describes, Lists
    <2>4. outside' = {e \in outside \cup UNION {KeyElements(t) : t \in rs} : e.detail \notin Ids(Reported')}
        BY <2>3 DEF IndexSchema, Unplaced
    <2>5. Ids(rs) \subseteq Ids(Reported')
        BY <1>6 DEF After, Ids
    <2>6. \A id \in Ids(Reported) : id \in Ids(Reported') \/ id \in dropped
        BY <1>6, <2>1 DEF After, Ids
    <2> HIDE DEF dropped
    <2>7. \A id \in Ids(Reported) \cup stranded :
            id \in Ids(Reported') \cup stranded' \/ (id \in dropped /\ ~deleteFails)
        BY <2>2, <2>5, <2>6
    <2> SUFFICES ASSUME NEW e \in vectors'
                 PROVE  /\ e.kind \in {"table", "column", "relationship"} =>
                             e.id \in Ids(Reported') \cup stranded'
                        /\ e.kind = "relationship" =>
                             e.detail \in Ids(Reported') \cup stranded' \/ e \in outside'
        BY DEF VectorsArePresent
    <2>8. CASE e \in Embedded(report)
        <3>1. CASE \E v \in report.views : e = ViewElement(v)
            BY <3>1 DEF ViewElement, Element
        <3>2. CASE \E t \in rs : e = TableElement(t) \/ e \in ColumnElements(t)
            BY <2>5, <3>2 DEF TableElement, ColumnElements, Element, Ids
        <3>3. CASE \E t \in rs : e \in KeyElements(t)
            <4>1. PICK t \in rs : e \in KeyElements(t)
                BY <3>3
            <4>2. e.id = Identity(t)
                BY <4>1 DEF KeyElements, Element
            <4>3. e \in UNION {KeyElements(u) : u \in rs}
                BY <4>1
            <4> QED  BY <2>4, <2>5, <4>1, <4>2, <4>3 DEF Ids
        <3> QED  BY <2>8, <3>1, <3>2, <3>3, EmbeddedOf
    <2>9. CASE e \notin Embedded(report)
        <3>1. e \in vectors /\ (~deleteFails => e \in DeleteTables(vectors, dropped))
            <4>1. CASE deleteFails
                <5>1. vectors' = vectors \cup Embedded(report)
                    BY <2>2, <4>1
                <5> QED  BY <2>9, <4>1, <5>1
            <4>2. CASE ~deleteFails
                <5>1. vectors' = DeleteTables(vectors, dropped) \cup Embedded(report)
                    BY <2>2, <4>2
                <5> QED  BY <2>9, <5>1 DEF DeleteTables
            <4> QED  BY <4>1, <4>2
        <3>2. ~deleteFails => /\ e.kind \in {"table", "column", "relationship"} => e.id \notin dropped
                              /\ e.kind = "relationship" => e.detail \notin dropped
            BY <3>1 DEF DeleteTables
        <3>3. /\ e.kind \in {"table", "column", "relationship"} => e.id \in Ids(Reported) \cup stranded
              /\ e.kind = "relationship" => e.detail \in Ids(Reported) \cup stranded \/ e \in outside
            BY <3>1 DEF IInv, VectorsArePresent
        <3> QED  BY <2>4, <2>7, <3>2, <3>3
    <2> QED  BY <2>8, <2>9
<1> QED  BY <1>5, <1>12, <1>13, <1>14, <1>15, <1>16 DEF IInv

LEMMA LookUpIInv == ASSUME IInv, LookUp PROVE IInv'
<1> DEFINE g == mgr.graph
           h == Looked(g)
<1>1. mgr' = [mgr EXCEPT !.graph = h] /\ latest' = latest /\ vectors' = vectors
      /\ stranded' = stranded /\ outside' = outside /\ working' = working /\ overlay' = overlay /\ files' = files
    BY DEF LookUp
<1>2. /\ IsManager(mgr) /\ WellBuilt(g, Reported) /\ Reported' = Reported
      /\ IsGraph(g) /\ g.generation \in Nat
    BY <1>1 DEF IInv, ManagerIsAsReported, Reported, WellBuilt
<1>3. /\ WellBuilt(h, Reported) /\ h.tables = g.tables /\ h.byName = g.byName
      /\ h.edges = g.edges /\ h.generation = g.generation
      /\ h.snapshot = [generation |-> g.generation, edges |-> UndirectedSnapshot(g)]
    BY <1>2, LookedWellBuilt
<1> HIDE DEF h
<1>4. /\ IsManager(mgr') /\ mgr'.graph = h /\ mgr'.communities = mgr.communities
      /\ mgr'.names = mgr.names /\ mgr'.ready = mgr.ready
    BY <1>1, <1>2 DEF IsManager
<1>5. ManagerIsAsReported'
    <2>1. WellBuilt(mgr.graph, Reported)'
        BY <1>2, <1>3, <1>4
    <2>2. IsManager(mgr)'
        BY <1>4
    <2>3. (mgr.communities = Ids(Reported))'
        BY <1>2, <1>4 DEF IInv, ManagerIsAsReported
    <2> QED  BY <1>2, <1>4, <2>1, <2>2, <2>3 DEF IInv, ManagerIsAsReported
<1>6. SnapshotIsCurrent'
    <2>1. h.snapshot.edges = BothWays(DOMAIN g.edges)
        BY <1>3 DEF UndirectedSnapshot, IInv, SnapshotIsCurrent
    <2> QED  BY <1>3, <1>4, <2>1 DEF SnapshotIsCurrent
<1>7. OverlayIsCurrent'
    <2>1. ASSUME NEW s \in Schemas
          PROVE  Extension(s)'.tables = Extension(s).tables /\ Extension(s)'.edges = Extension(s).edges
        <3>1. h.generation \in Nat /\ IsGraph(h)
            BY <1>3 DEF WellBuilt
        <3>2. /\ Asserted(h, Assertions, s) = Asserted(g, Assertions, s)
              /\ \A rel : /\ WithRelationships(h, rel).tables = WithRelationships(g, rel).tables
                          /\ WithRelationships(h, rel).edges = WithRelationships(g, rel).edges
            BY <1>2, <1>3, <3>1, ExtensionOfAlike
        <3>3. Extension(s)' = WithRelationships(h, Asserted(h, Assertions, s))
            BY <1>4 DEF Extension
        <3> QED  BY <3>2, <3>3 DEF Extension
    <2> QED  BY <1>1, <1>3, <1>4, <2>1 DEF IInv, OverlayIsCurrent
<1>8. ReportsAreLocal' /\ FilesAreTables' /\ VectorsArePresent'
    BY <1>1, <1>2 DEF IInv, ReportsAreLocal, FilesAreTables, VectorsArePresent
<1> QED  BY <1>5, <1>6, <1>7, <1>8 DEF IInv

(* What the session reads is the extension of the graph as it is.          *)
LEMMA ExtendedIsExtension ==
    ASSUME IInv
    PROVE  Extended.tables = Extension(working).tables /\ Extended.edges = Extension(working).edges
BY DEF IInv, OverlayIsCurrent, Extended, Extension

LEMMA ReadExtendedIInv == ASSUME IInv, ReadExtended PROVE IInv'
<1> DEFINE copy == [made |-> TRUE, generation |-> mgr.graph.generation, graph |-> Extended]
<1>1. mgr' = mgr /\ latest' = latest /\ vectors' = vectors /\ stranded' = stranded
      /\ outside' = outside
      /\ working' = working /\ files' = files /\ overlay' = [overlay EXCEPT ![working] = copy]
    BY DEF ReadExtended
<1>2. Reported' = Reported /\ \A s : Extension(s)' = Extension(s)
    BY <1>1 DEF Reported, Extension
<1>3. OverlayIsCurrent'
    <2>1. working \in Schemas /\ DOMAIN overlay = Schemas
        BY DEF IInv, OverlayIsCurrent
    <2>2. mgr.graph.generation \in Nat
        BY DEF IInv, ManagerIsAsReported, WellBuilt
    <2>3. /\ copy.made = TRUE /\ copy.generation = mgr.graph.generation
          /\ copy.graph.tables = Extension(working).tables
          /\ copy.graph.edges = Extension(working).edges
        BY ExtendedIsExtension
    <2> HIDE DEF copy
    <2>4. /\ DOMAIN overlay' = Schemas /\ overlay'[working] = copy
          /\ \A s \in Schemas : s # working => overlay'[s] = overlay[s]
        BY <1>1, <2>1
    <2>5. mgr.graph.generation <= mgr.graph.generation
        BY <2>2
    <2> QED  BY <1>1, <1>2, <2>1, <2>2, <2>3, <2>4, <2>5 DEF IInv, OverlayIsCurrent
<1>4. ManagerIsAsReported'
    BY <1>1, <1>2 DEF IInv, ManagerIsAsReported
<1>5. ReportsAreLocal' /\ SnapshotIsCurrent' /\ FilesAreTables' /\ VectorsArePresent'
    BY <1>1, <1>2 DEF IInv, ReportsAreLocal, SnapshotIsCurrent, FilesAreTables, VectorsArePresent
<1> QED  BY <1>3, <1>4, <1>5 DEF IInv

LEMMA WorkInIInv == ASSUME IInv, NEW schema \in Schemas, WorkIn(schema) PROVE IInv'
<1>1. mgr' = mgr /\ latest' = latest /\ vectors' = vectors /\ stranded' = stranded
      /\ outside' = outside
      /\ working' = schema /\ files' = files /\ overlay' = overlay
    BY DEF WorkIn
<1>2. Reported' = Reported /\ \A s : Extension(s)' = Extension(s)
    BY <1>1 DEF Reported, Extension
<1>3. OverlayIsCurrent'
    BY <1>1, <1>2 DEF IInv, OverlayIsCurrent
<1>4. ManagerIsAsReported'
    BY <1>1, <1>2 DEF IInv, ManagerIsAsReported
<1>5. ReportsAreLocal' /\ SnapshotIsCurrent' /\ FilesAreTables' /\ VectorsArePresent'
    BY <1>1, <1>2 DEF IInv, ReportsAreLocal, SnapshotIsCurrent, FilesAreTables, VectorsArePresent
<1> QED  BY <1>3, <1>4, <1>5 DEF IInv

(* The tables in the graph are those reported.                             *)
LEMMA GraphTables ==
    ASSUME NEW g, NEW ts, WellBuilt(g, ts)
    PROVE  Range(g.tables) = ts
<1>1. DOMAIN g.tables = Ids(ts) /\ \A t \in ts : g.tables[Identity(t)] = t
    BY DEF WellBuilt, Describes, Lists, Nodes
<1> QED  BY <1>1 DEF Range, Ids

LEMMA SaveIInv == ASSUME IInv, Save PROVE IInv'
<1> DEFINE captured == Captured(mgr)
<1>1. mgr' = mgr /\ latest' = latest /\ vectors' = vectors /\ stranded' = stranded
      /\ outside' = outside
      /\ working' = working /\ overlay' = overlay /\ files'.combined = captured /\ mgr.ready
    BY DEF Save
<1>2. Reported' = Reported /\ \A s : Extension(s)' = Extension(s)
    BY <1>1 DEF Reported, Extension
<1>3. /\ mgr.names \in Seq(Name) /\ mgr.names # << >> /\ WellBuilt(mgr.graph, Reported)
      /\ mgr.communities = Ids(Reported) /\ Catalog(Reported)
    BY <1>1 DEF IInv, ManagerIsAsReported, WellBuilt
<1>4. captured.names = mgr.names /\ captured.tables = Reported /\ captured.communities = Ids(Reported)
    BY <1>3, GraphTables DEF Captured
<1>5. SchemasOf(Reported) \subseteq DOMAIN latest
    BY DEF IInv, ReportsAreLocal, SchemasOf, Reported
<1> HIDE DEF captured
<1>6. FilesAreTables'
    BY <1>1, <1>3, <1>4, <1>5 DEF FilesAreTables
<1>7. ManagerIsAsReported'
    BY <1>1, <1>2 DEF IInv, ManagerIsAsReported
<1>8. ReportsAreLocal' /\ SnapshotIsCurrent' /\ OverlayIsCurrent' /\ VectorsArePresent'
    BY <1>1, <1>2 DEF IInv, ReportsAreLocal, SnapshotIsCurrent, OverlayIsCurrent, VectorsArePresent
<1> QED  BY <1>6, <1>7, <1>8 DEF IInv

LEMMA RestartIInv == ASSUME IInv, Restart PROVE IInv'
<1> DEFINE saved == files.combined
           ts == saved.tables
           m == NewManager(mgr.home)
           h == LoadGraph(EmptyGraph, ts)
<1>1. /\ files # NoFiles /\ mgr' = LoadState(m, files) /\ files' = files /\ vectors' = vectors
      /\ working' = working /\ overlay' = [s \in Schemas |-> NoOverlay]
      /\ latest' = [s \in DOMAIN latest |-> [latest[s] EXCEPT !.tables = {t \in ts : t.schema = s}]]
      /\ stranded' = (stranded \cup Nodes(mgr.graph)) \ Nodes(mgr'.graph)
      /\ outside' = Unplaced(outside, mgr'.graph)
    BY DEF Restart
<1>2. /\ saved.names \in Seq(Name) /\ saved.names # << >> /\ Catalog(ts)
      /\ saved.communities = Ids(ts) /\ SchemasOf(ts) \subseteq DOMAIN latest
    BY <1>1 DEF IInv, FilesAreTables
<1>3. saved # NoFile
    BY <1>2 DEF NoFile
<1>4. m = [graph |-> EmptyGraph, names |-> << >>, last |-> mgr.home, ready |-> FALSE,
           home |-> mgr.home, communities |-> {}]
    BY DEF NewManager
<1>5. m.graph = EmptyGraph /\ m.names = << >> /\ m.ready = FALSE /\ IsManager(m)
    <2> HIDE DEF m
    <2> QED  BY <1>4 DEF IsManager
<1>6. mgr' = [m EXCEPT !.graph = h, !.names = IF ts = {} THEN << >> ELSE saved.names,
                       !.communities = saved.communities, !.ready = m.ready \/ Nodes(h) # {}]
    BY <1>1, <1>3, <1>5 DEF LoadState
<1> HIDE DEF m
<1>7. WellBuilt(h, ts) /\ h.snapshot = NoSnapshot
    <2>1. CASE ts = {}
        BY <2>1, EmptyIsWellBuilt DEF LoadGraph
    <2>2. CASE ts # {}
        <3>1. IsGraph(EmptyGraph) /\ EmptyGraph.generation \in Nat
            BY EmptyIsWellBuilt DEF WellBuilt
        <3>2. h = BuildGraph(EmptyGraph, ts)
            BY <2>2 DEF LoadGraph
        <3> HIDE DEF h, ts
        <3>3. WellBuilt(BuildGraph(EmptyGraph, ts), ts)
              /\ BuildGraph(EmptyGraph, ts).snapshot = NoSnapshot
            BY <1>2, <3>1, BuildGraphWellBuilt DEF ts
        <3> QED  BY <3>2, <3>3
    <2> QED  BY <2>1, <2>2
<1> HIDE DEF h
<1>8. /\ IsManager(mgr') /\ mgr'.graph = h /\ mgr'.communities = Ids(ts)
      /\ mgr'.names = (IF ts = {} THEN << >> ELSE saved.names)
      /\ mgr'.ready = (Nodes(h) # {})
    BY <1>2, <1>5, <1>6 DEF IsManager
<1>9. Nodes(h) = Ids(ts)
    BY <1>7 DEF WellBuilt, Describes, Lists
<1>10. /\ DOMAIN latest' = DOMAIN latest
       /\ \A s \in DOMAIN latest : /\ latest'[s].tables = {t \in ts : t.schema = s}
                                   /\ "tables" \in DOMAIN latest'[s]
    <2>1. \A s \in DOMAIN latest : "tables" \in DOMAIN latest[s]
        BY DEF IInv, ReportsAreLocal
    <2> HIDE DEF ts
    <2> QED  BY <1>1, <2>1 DEF ts
<1>11. ReportsAreLocal'
    BY <1>10 DEF ReportsAreLocal
<1>12. Reported' = ts
    BY <1>2, <1>10 DEF Reported, SchemasOf
<1>13. ManagerIsAsReported'
    <2>1. WellBuilt(mgr.graph, Reported)'
        BY <1>7, <1>8, <1>12
    <2>2. IsManager(mgr)'
        BY <1>8
    <2>3. (mgr.communities = Ids(Reported))'
        BY <1>8, <1>12
    <2>4. mgr'.names \in Seq(Name) /\ mgr'.ready \in BOOLEAN
        BY <1>2, <1>8
    <2>5. mgr'.ready <=> ts # {}
        BY <1>8, <1>9 DEF Ids
    <2> QED  BY <1>2, <1>8, <1>12, <2>1, <2>2, <2>3, <2>4, <2>5 DEF ManagerIsAsReported
<1>14. SnapshotIsCurrent'
    <2>1. h.generation \in Nat /\ h.snapshot.generation = -1
        BY <1>7 DEF WellBuilt, NoSnapshot
    <2>2. h.snapshot.generation # h.generation
        BY <2>1
    <2> QED  BY <1>8, <2>2 DEF SnapshotIsCurrent
<1>15. FilesAreTables'
    BY <1>1, <1>10 DEF IInv, FilesAreTables
<1>16. OverlayIsCurrent'
    BY <1>1 DEF IInv, OverlayIsCurrent, NoOverlay
<1>17. VectorsArePresent'
    <2>1. Nodes(mgr.graph) = Ids(Reported) /\ Nodes(mgr'.graph) = Ids(Reported')
        BY <1>8, <1>9, <1>12 DEF IInv, ManagerIsAsReported, WellBuilt, Describes, Lists
    <2>2. stranded' = (stranded \cup Ids(Reported)) \ Ids(Reported')
          /\ outside' = {e \in outside : e.detail \notin Ids(Reported')}
        BY <1>1, <2>1 DEF Unplaced
    <2> QED  BY <1>1, <2>2 DEF IInv, VectorsArePresent
<1> QED  BY <1>11, <1>13, <1>14, <1>15, <1>16, <1>17 DEF IInv

-----------------------------------------------------------------------------
LEMMA NextIInv == ASSUME IInv, [Next]_vars PROVE IInv'
<1>1. CASE \E report \in Reports, deleteFails \in BOOLEAN :
              /\ deleteFails => Dropped(mgr, report) # {}
              /\ IndexSchema(report, deleteFails)
    BY <1>1, IndexSchemaIInv
<1>2. CASE LookUp
    BY <1>2, LookUpIInv
<1>3. CASE ReadExtended
    BY <1>3, ReadExtendedIInv
<1>4. CASE \E schema \in Schemas : WorkIn(schema)
    BY <1>4, WorkInIInv
<1>5. CASE Save
    BY <1>5, SaveIInv
<1>6. CASE Restart
    BY <1>6, RestartIInv
<1>7. CASE UNCHANGED vars
    <2>1. mgr' = mgr /\ latest' = latest /\ vectors' = vectors /\ stranded' = stranded
      /\ outside' = outside
          /\ working' = working /\ files' = files /\ overlay' = overlay
        BY <1>7 DEF vars
    <2>2. Reported' = Reported /\ \A s : Extension(s)' = Extension(s)
        BY <2>1 DEF Reported, Extension
    <2>3. ManagerIsAsReported'
        BY <2>1, <2>2 DEF IInv, ManagerIsAsReported
    <2>4. /\ ReportsAreLocal' /\ SnapshotIsCurrent' /\ FilesAreTables' /\ OverlayIsCurrent'
          /\ VectorsArePresent'
        BY <2>1, <2>2 DEF IInv, ReportsAreLocal, SnapshotIsCurrent, FilesAreTables,
           OverlayIsCurrent, VectorsArePresent
    <2> QED  BY <2>3, <2>4 DEF IInv
<1> QED  BY <1>1, <1>2, <1>3, <1>4, <1>5, <1>6, <1>7 DEF Next

(* The manager's graph is at every moment what the last reports of the     *)
(* schemas make of it, whatever was indexed, looked up, extended, saved    *)
(* and restored in between (the inductive invariant of this module).       *)
THEOREM GraphInvariant == Spec => []IInv
<1>1. Init => IInv
    BY InitIInv
<1>2. IInv /\ [Next]_vars => IInv'
    BY NextIInv
<1> QED  BY <1>1, <1>2, PTL DEF Spec

LEMMA IInvGraphIsAsReported == ASSUME IInv PROVE GraphIsAsReported
<1> DEFINE g == mgr.graph
           reported == UNION {{Identity(t) : t \in latest[s].tables} : s \in DOMAIN latest}
<1>1. /\ WellBuilt(g, Reported) /\ mgr.communities = Ids(Reported) /\ Catalog(Reported)
      /\ Lists(g, Reported) /\ Claims(g, Reported) /\ Keyed(g, Reported) /\ Local(g, Reported)
    BY DEF IInv, ManagerIsAsReported, WellBuilt, Describes
<1>2. reported = Ids(Reported)
    <2>1. ASSUME NEW id \in reported PROVE id \in Ids(Reported)
        <3>1. PICK s \in DOMAIN latest : id \in {Identity(t) : t \in latest[s].tables}
            OBVIOUS
        <3> QED  BY <3>1 DEF Ids, Reported
    <2>2. ASSUME NEW id \in Ids(Reported) PROVE id \in reported
        <3>1. PICK t \in Reported : id = Identity(t)
            BY DEF Ids
        <3>2. PICK s \in DOMAIN latest : t \in latest[s].tables
            BY DEF Reported
        <3>3. id \in {Identity(u) : u \in latest[s].tables}
            BY <3>1, <3>2
        <3> QED  BY <3>3
    <2> QED  BY <2>1, <2>2
<1> HIDE DEF reported
<1>3. \A t \in Reported : t \in Table /\ DisplayName(Identity(t)) = t.name
    BY <1>1, IdentityIsRead DEF Catalog
<1>4. TablesAreThoseReported
    <2>1. Nodes(g) = reported /\ mgr.communities = reported
        BY <1>1, <1>2 DEF Lists
    <2>2. UNION Range(g.members) = reported
        <3>1. ASSUME NEW id \in reported PROVE id \in UNION Range(g.members)
            <4>1. PICK t \in Reported : id = Identity(t)
                BY <1>2 DEF Ids
            <4>2. t.schema \in DOMAIN g.members /\ g.members[t.schema] = Ids({u \in Reported : u.schema = t.schema})
                BY <1>1 DEF Claims
            <4>3. id \in g.members[t.schema]
                BY <4>1, <4>2 DEF Ids
            <4> QED  BY <4>2, <4>3 DEF Range
        <3>2. ASSUME NEW id \in UNION Range(g.members) PROVE id \in reported
            <4>1. PICK s \in DOMAIN g.members : id \in g.members[s]
                BY DEF Range
            <4>2. id \in Ids({u \in Reported : u.schema = s})
                BY <1>1, <4>1 DEF Claims
            <4> QED  BY <1>2, <4>2 DEF Ids
        <3> QED  BY <3>1, <3>2
    <2>3. ASSUME NEW id \in reported PROVE \E n \in DOMAIN g.byName : id \in g.byName[n]
        <3>1. PICK t \in Reported : id = Identity(t)
            BY <1>2 DEF Ids
        <3>2. t.name \in DOMAIN g.byName /\ g.byName[t.name] = Ids({u \in Reported : u.name = t.name})
            BY <1>1 DEF Lists
        <3> QED  BY <3>1, <3>2 DEF Ids
    <2>4. ASSUME NEW n \in DOMAIN g.byName
          PROVE  g.byName[n] # {} /\ \A id \in g.byName[n] : DisplayName(id) = n /\ id \in reported
        <3>1. n \in {t.name : t \in Reported} /\ g.byName[n] = Ids({u \in Reported : u.name = n})
            BY <1>1 DEF Lists
        <3> QED  BY <1>2, <1>3, <3>1 DEF Ids
    <2> QED  BY <2>1, <2>2, <2>3, <2>4 DEF TablesAreThoseReported, reported
<1>5. \A t \in Reported : Identity(t) \in Nodes(g) /\ g.tables[Identity(t)] = t
    BY <1>1 DEF Lists, Ids
<1>6. EdgesAreReportedKeys
    <2> SUFFICES ASSUME NEW e \in DOMAIN g.edges
                 PROVE  LET keys == Range(g.tables[e[1]].fks)
                            edge == g.edges[e]
                        IN /\ e[1] \in Nodes(g) /\ e[2] \in Nodes(g)
                           /\ \E fk \in keys :
                                /\ fk.table \in {DisplayName(e[2]), e[2]}
                                /\ fk.column = edge.column /\ fk.referenced = edge.referenced
                                /\ fk.inferred = edge.inferred
                                /\ fk.inferred => \A k \in keys : k.table = fk.table => k.inferred
        BY DEF EdgesAreReportedKeys
    <2>1. PICK t \in Reported : /\ e = << Identity(t), e[2] >> /\ e[2] \in Ids(Reported)
                                /\ KeyOf(Range(t.fks), e[2], g.edges[e])
        BY <1>1 DEF Keyed, KeyEdge
    <2>2. e[1] = Identity(t) /\ e[2] \in Nodes(g)
        BY <1>1, <2>1 DEF Lists
    <2>3. e[1] \in Nodes(g) /\ g.tables[e[1]].fks = t.fks
        BY <1>5, <2>2
    <2> QED  BY <2>1, <2>2, <2>3 DEF KeyOf
<1>7. LocalKeysHaveEdges
    <2> SUFFICES ASSUME NEW id \in Nodes(g), NEW fk \in Range(g.tables[id].fks),
                        Qualified(g.tables[id].schema, fk.table) \in Nodes(g)
                 PROVE  << id, Qualified(g.tables[id].schema, fk.table) >> \in DOMAIN g.edges
        BY DEF LocalKeysHaveEdges
    <2>1. PICK t \in Reported : id = Identity(t)
        BY <1>1 DEF Lists, Ids
    <2>2. g.tables[id] = t /\ Nodes(g) = Ids(Reported)
        BY <1>1, <1>5, <2>1 DEF Lists
    <2> QED  BY <1>1, <2>1, <2>2 DEF Local
<1> QED  BY <1>4, <1>6, <1>7 DEF GraphIsAsReported

(* The graph, its indexes by name, by schema and by community, and its     *)
(* edges say the same as the schemas' last reports, for every database,    *)
(* every order of indexings and every name (_publish_schema, remove_tables,*)
(* add_to_graph, save_state and load_state).                               *)
THEOREM GraphStaysAsReported == Spec => []GraphIsAsReported
<1>1. IInv => GraphIsAsReported
    BY IInvGraphIsAsReported
<1> QED  BY <1>1, GraphInvariant, PTL

(* No element of a table that is gone, nor of a key of it or to it, stays  *)
(* in the search, but for tables whose vectors could not be deleted or     *)
(* that a restart lost, and keys to what was not in the graph when they    *)
(* were reported (delete_tables, _publish_schema).                         *)
THEOREM SearchStaysPresent == Spec => []SearchFindsPresentTables
<1>1. IInv => SearchFindsPresentTables
    <2> SUFFICES ASSUME IInv PROVE SearchFindsPresentTables
        OBVIOUS
    <2>1. Nodes(mgr.graph) = Ids(Reported)
        BY DEF IInv, ManagerIsAsReported, WellBuilt, Describes, Lists
    <2> QED  BY <2>1 DEF IInv, VectorsArePresent, SearchFindsPresentTables
<1> QED  BY <1>1, GraphInvariant, PTL

(* A session reads the graph as it is now with what its ontology asserts,  *)
(* and a declared key is never displaced (_join_graph, with_relationships).*)
THEOREM OverlayStaysCurrent == Spec => []OverlayFollowsGraph
<1>1. IInv => OverlayFollowsGraph
    <2> SUFFICES ASSUME IInv PROVE OverlayFollowsGraph
        OBVIOUS
    <2> DEFINE g == mgr.graph
               asserted == Asserted(g, Assertions, working)
    <2>1. WellBuilt(g, Reported)
        BY DEF IInv, ManagerIsAsReported
    <2>2. /\ DOMAIN asserted \subseteq Nat
          /\ \A i \in DOMAIN asserted : {asserted[i].source, asserted[i].target} \subseteq Nodes(g)
        BY <2>1, AssertedOfTables
    <2> HIDE DEF asserted
    <2>3. Extends(WithRelationships(g, asserted), g, asserted)
        BY <2>1, <2>2, WithRelationshipsExtends
    <2>4. /\ Extended.tables = WithRelationships(g, asserted).tables
          /\ Extended.edges = WithRelationships(g, asserted).edges
        BY ExtendedIsExtension DEF Extension, asserted
    <2>5. Extends(Extended, g, asserted)
        BY <2>3, <2>4 DEF Extends, Nodes
    <2> QED  BY <2>5 DEF OverlayFollowsGraph, Extends, asserted
<1> QED  BY <1>1, GraphInvariant, PTL

-----------------------------------------------------------------------------
(* Routes.                                                                 *)

(* p leads from a to b along the links L, within V.                        *)
Route(V, L, p, a, b) ==
    /\ p \in Seq(V) /\ Len(p) >= 1 /\ p[1] = a /\ p[Len(p)] = b
    /\ \A i \in 1..(Len(p) - 1) : << p[i], p[i + 1] >> \in L

Shortest(V, L, p, a, b) ==
    /\ Route(V, L, p, a, b)
    /\ \A q : Route(V, L, q, a, b) => Len(p) <= Len(q)

(* A number of entries of V is a sequence.                                 *)
LEMMA SequenceOf ==
    ASSUME NEW V, NEW n \in Nat, NEW p, p = [i \in 1..n |-> p[i]], \A i \in 1..n : p[i] \in V
    PROVE  p \in Seq(V) /\ Len(p) = n
<1>1. p \in [1..n -> V]
    OBVIOUS
<1> QED  BY <1>1

LEMMA RouteEnds ==
    ASSUME NEW V, NEW L, NEW p, NEW a, NEW b, Route(V, L, p, a, b)
    PROVE  a \in V /\ b \in V /\ Len(p) \in Nat
BY DEF Route

LEMMA Longer ==
    ASSUME NEW V, NEW L, NEW p, NEW a, NEW b, Route(V, L, p, a, b), NEW c \in V, << b, c >> \in L
    PROVE  Route(V, L, Append(p, c), a, c) /\ Len(Append(p, c)) = Len(p) + 1
<1> DEFINE q == Append(p, c)
<1>1. /\ p \in Seq(V) /\ Len(p) >= 1 /\ p[1] = a /\ p[Len(p)] = b /\ Len(p) \in Nat
      /\ \A i \in 1..(Len(p) - 1) : << p[i], p[i + 1] >> \in L
    BY DEF Route
<1>2. /\ q \in Seq(V) /\ Len(q) = Len(p) + 1 /\ q[Len(p) + 1] = c
      /\ \A i \in 1..Len(p) : q[i] = p[i]
    BY <1>1
<1> HIDE DEF q
<1>3. ASSUME NEW i \in 1..(Len(q) - 1) PROVE << q[i], q[i + 1] >> \in L
    <2>1. CASE i = Len(p)
        <3>1. Len(p) \in 1..Len(p)
            BY <1>1
        <3>2. q[Len(p)] = b /\ q[Len(p) + 1] = c
            BY <1>1, <1>2, <3>1
        <3> QED  BY <2>1, <3>2
    <2>2. CASE i # Len(p)
        <3>1. i \in 1..(Len(p) - 1) /\ i \in 1..Len(p) /\ i + 1 \in 1..Len(p)
            BY <1>1, <1>2, <2>2
        <3>2. q[i] = p[i] /\ q[i + 1] = p[i + 1]
            BY <1>2, <3>1
        <3> QED  BY <1>1, <3>1, <3>2
    <2> QED  BY <2>1, <2>2
<1>4. q[1] = a /\ q[Len(q)] = c /\ Len(q) >= 1
    <2>1. 1 \in 1..Len(p)
        BY <1>1
    <2> QED  BY <1>1, <1>2, <2>1
<1>5. Route(V, L, q, a, c) /\ Len(q) = Len(p) + 1
    BY <1>2, <1>3, <1>4 DEF Route
<1> QED  BY <1>5 DEF q

(* A route less its last table.                                            *)
Start(p) == [i \in 1..(Len(p) - 1) |-> p[i]]

LEMMA Shorter ==
    ASSUME NEW V, NEW L, NEW p, NEW a, NEW b, Route(V, L, p, a, b), Len(p) >= 2
    PROVE  LET c == p[Len(p) - 1]
           IN /\ Route(V, L, Start(p), a, c) /\ Len(Start(p)) = Len(p) - 1
              /\ << c, b >> \in L /\ p = Append(Start(p), b)
<1> DEFINE q == Start(p)
           n == Len(p) - 1
<1>1. /\ p \in Seq(V) /\ Len(p) \in Nat /\ n \in Nat /\ n >= 1 /\ p[1] = a /\ p[Len(p)] = b
      /\ Len(p) = n + 1
      /\ \A i \in 1..n : << p[i], p[i + 1] >> \in L
    BY DEF Route
<1>2. \A i \in 1..n : p[i] \in V
    BY <1>1
<1>3. q = [i \in 1..n |-> q[i]] /\ \A i \in 1..n : q[i] = p[i]
    BY DEF Start
<1> HIDE DEF q, n
<1>4. q \in Seq(V) /\ Len(q) = n
    BY <1>1, <1>2, <1>3, SequenceOf
<1>5. q[1] = a /\ q[n] = p[n] /\ << p[n], b >> \in L
    <2>1. 1 \in 1..n /\ n \in 1..n
        BY <1>1
    <2> QED  BY <1>1, <1>3, <2>1
<1>6. \A i \in 1..(n - 1) : << q[i], q[i + 1] >> \in L
    <2> SUFFICES ASSUME NEW i \in 1..(n - 1) PROVE << q[i], q[i + 1] >> \in L
        OBVIOUS
    <2>1. i \in 1..n /\ i + 1 \in 1..n
        BY <1>1
    <2> QED  BY <1>1, <1>3, <2>1
<1>7. p = Append(q, b)
    <2>1. Append(q, b) \in Seq(V) /\ Len(Append(q, b)) = n + 1 /\ Append(q, b)[n + 1] = b
          /\ \A i \in 1..n : Append(q, b)[i] = q[i]
        <3>1. b \in V
            BY RouteEnds
        <3> QED  BY <1>4, <3>1
    <2>2. \A i \in 1..(n + 1) : p[i] = Append(q, b)[i]
        <3> SUFFICES ASSUME NEW i \in 1..(n + 1) PROVE p[i] = Append(q, b)[i]
            OBVIOUS
        <3>1. i = n + 1 \/ i \in 1..n
            BY <1>1
        <3> QED  BY <1>1, <1>3, <2>1, <3>1
    <2> QED  BY <1>1, <2>1, <2>2, SeqEqual
<1>8. Route(V, L, q, a, p[n])
    BY <1>1, <1>4, <1>5, <1>6 DEF Route
<1> QED  BY <1>4, <1>5, <1>7, <1>8 DEF q, n

(* The start of a shortest route is one.                                   *)
LEMMA ShortestStart ==
    ASSUME NEW V, NEW L, NEW p, NEW a, NEW b, Shortest(V, L, p, a, b), Len(p) >= 2
    PROVE  LET c == p[Len(p) - 1]
           IN /\ Shortest(V, L, Start(p), a, c) /\ Len(Start(p)) = Len(p) - 1
              /\ << c, b >> \in L /\ p = Append(Start(p), b)
<1> DEFINE c == p[Len(p) - 1]
<1>1. Route(V, L, p, a, b) /\ b \in V /\ Len(p) \in Nat
    BY RouteEnds DEF Shortest
<1>2. /\ Route(V, L, Start(p), a, c) /\ Len(Start(p)) = Len(p) - 1
      /\ << c, b >> \in L /\ p = Append(Start(p), b)
    BY <1>1, Shorter
<1> HIDE DEF c
<1>3. ASSUME NEW q, Route(V, L, q, a, c) PROVE Len(Start(p)) <= Len(q)
    <2>1. Route(V, L, Append(q, b), a, b) /\ Len(Append(q, b)) = Len(q) + 1
        BY <1>1, <1>2, <1>3, Longer
    <2>2. Len(q) \in Nat
        BY <1>3, RouteEnds
    <2>3. Len(p) <= Len(q) + 1
        BY <2>1 DEF Shortest
    <2> QED  BY <1>1, <1>2, <2>2, <2>3
<1> QED  BY <1>2, <1>3 DEF Shortest, c

(* Where there is a route there is a shortest one.                         *)
LEMMA SomeShortest ==
    ASSUME NEW V, NEW L, NEW p, NEW a, NEW b, Route(V, L, p, a, b)
    PROVE  \E q : Shortest(V, L, q, a, b) /\ Len(q) <= Len(p)
<1> DEFINE lengths == {n \in Nat : \E q : Route(V, L, q, a, b) /\ Len(q) = n}
<1>1. Len(p) \in lengths
    BY RouteEnds
<1>2. PICK n \in lengths : \A m \in lengths : n <= m
    <2>1. lengths \subseteq Nat /\ lengths # {}
        BY <1>1
    <2> HIDE DEF lengths
    <2> QED  BY <2>1, Least
<1>3. PICK q : Route(V, L, q, a, b) /\ Len(q) = n
    BY <1>2
<1>4. \A r : Route(V, L, r, a, b) => Len(r) \in lengths
    BY RouteEnds
<1> HIDE DEF lengths
<1> QED  BY <1>1, <1>2, <1>3, <1>4 DEF Shortest

(* All starts of a shortest route are shortest.                            *)
Begin(p, m) == [i \in 1..m |-> p[i]]

LEMMA ShortestBegins ==
    ASSUME NEW V, NEW L, NEW p, NEW a, NEW b, Shortest(V, L, p, a, b)
    PROVE  \A m \in 1..Len(p) : Shortest(V, L, Begin(p, m), a, p[m]) /\ Len(Begin(p, m)) = m
<1> DEFINE n == Len(p) - 1
           P == {k \in 0..n : Shortest(V, L, Begin(p, Len(p) - k), a, p[Len(p) - k])
                              /\ Len(Begin(p, Len(p) - k)) = Len(p) - k}
<1>1. Route(V, L, p, a, b) /\ Len(p) \in Nat /\ n \in Nat /\ p[Len(p)] = b /\ p \in Seq(V)
    BY DEF Shortest, Route
<1>2. Begin(p, Len(p)) = p
    BY <1>1 DEF Begin
<1>3. 0 \in P
    BY <1>1, <1>2
<1>4. ASSUME NEW k \in 0..n, k < n, k \in P PROVE k + 1 \in P
    <2> DEFINE m == Len(p) - k
               q == Begin(p, m)
    <2>1. m \in Nat /\ m >= 2 /\ m - 1 = Len(p) - (k + 1) /\ k + 1 \in 0..n /\ m <= Len(p)
        BY <1>1, <1>4
    <2>2. Shortest(V, L, q, a, p[m]) /\ Len(q) = m
        BY <1>4
    <2>3. /\ Shortest(V, L, Start(q), a, q[m - 1]) /\ Len(Start(q)) = m - 1
        <3> HIDE DEF q, m
        <3>1. Len(q) >= 2
            BY <2>1, <2>2
        <3>2. LET c == q[Len(q) - 1]
              IN Shortest(V, L, Start(q), a, c) /\ Len(Start(q)) = Len(q) - 1
            BY <2>2, <3>1, ShortestStart
        <3> QED  BY <2>2, <3>2
    <2>4. m - 1 \in 1..m /\ q[m - 1] = p[m - 1]
        BY <2>1 DEF Begin
    <2>5. Start(q) = Begin(p, m - 1)
        <3>1. \A i \in 1..(m - 1) : i \in 1..m
            BY <2>1
        <3>2. \A i \in 1..(m - 1) : q[i] = p[i]
            BY <3>1 DEF Begin
        <3>3. Start(q) = [i \in 1..(m - 1) |-> q[i]]
            BY <2>2 DEF Start
        <3> HIDE DEF q, m
        <3> QED  BY <3>2, <3>3 DEF Begin
    <2> HIDE DEF q, m
    <2> QED  BY <2>1, <2>3, <2>4, <2>5
<1> HIDE DEF P
<1>5. \A k \in 0..n : k \in P
    BY <1>1, <1>3, <1>4, Upto
<1> SUFFICES ASSUME NEW m \in 1..Len(p)
             PROVE  Shortest(V, L, Begin(p, m), a, p[m]) /\ Len(Begin(p, m)) = m
    OBVIOUS
<1>6. Len(p) - m \in 0..n /\ Len(p) - (Len(p) - m) = m
    BY <1>1
<1>7. Len(p) - m \in P
    BY <1>5, <1>6
<1> QED  BY <1>6, <1>7 DEF P

(* A shortest route passes no table twice.                                 *)
LEMMA ShortestIsShort ==
    ASSUME NEW V, IsFiniteSet(V), NEW L, NEW p, NEW a, NEW b, Shortest(V, L, p, a, b)
    PROVE  Len(p) <= Cardinality(V)
<1>1. p \in [1..Len(p) -> V] /\ Len(p) \in Nat
    BY DEF Shortest, Route
<1>2. ASSUME NEW i \in 1..Len(p), NEW j \in 1..Len(p), p[i] = p[j] PROVE i = j
    <2>1. /\ Shortest(V, L, Begin(p, i), a, p[i]) /\ Len(Begin(p, i)) = i
          /\ Shortest(V, L, Begin(p, j), a, p[i]) /\ Len(Begin(p, j)) = j
        BY <1>2, ShortestBegins
    <2>2. i <= j /\ j <= i
        BY <2>1 DEF Shortest
    <2> QED  BY <1>1, <2>2
<1>3. p \in Injection(1..Len(p), V)
    BY <1>1, <1>2 DEF Injection, IsInjective
<1>4. IsFiniteSet(1..Len(p)) /\ Cardinality(1..Len(p)) = Len(p)
    <2>1. 1 \in Int /\ Len(p) \in Int /\ (1 > Len(p) => Len(p) = 0) /\ Len(p) - 1 + 1 = Len(p)
        BY <1>1
    <2>2. /\ IsFiniteSet(1..Len(p))
          /\ Cardinality(1..Len(p)) = IF 1 > Len(p) THEN 0 ELSE Len(p) - 1 + 1
        BY <2>1, FS_Interval
    <2> QED  BY <2>1, <2>2
<1>5. Cardinality(1..Len(p)) <= Cardinality(V)
    BY <1>3, FS_Injection
<1> QED  BY <1>4, <1>5

(* Back along the links.                                                   *)
Flipped(L) == {<< l[2], l[1] >> : l \in L}

LEMMA ReversedRoute ==
    ASSUME NEW V, NEW L, NEW M, NEW p, NEW a, NEW b, Route(V, L, p, a, b),
           \A x, y : << x, y >> \in L => << y, x >> \in M
    PROVE  Route(V, M, Reverse(p), b, a) /\ Len(Reverse(p)) = Len(p)
<1> DEFINE q == Reverse(p)
           n == Len(p)
<1>1. /\ p \in Seq(V) /\ n \in Nat /\ n >= 1 /\ p[1] = a /\ p[n] = b
      /\ \A i \in 1..(n - 1) : << p[i], p[i + 1] >> \in L
    BY DEF Route
<1>2. q = [i \in 1..n |-> q[i]] /\ \A i \in 1..n : q[i] = p[n - i + 1]
    BY DEF Reverse
<1> HIDE DEF q, n
<1>3. \A i \in 1..n : n - i + 1 \in 1..n
    BY <1>1
<1>4. \A i \in 1..n : q[i] \in V
    <2>1. \A i \in 1..n : p[i] \in V
        BY <1>1 DEF n
    <2> QED  BY <1>2, <1>3, <2>1
<1>5. q \in Seq(V) /\ Len(q) = n
    BY <1>1, <1>2, <1>4, SequenceOf
<1>6. q[1] = b /\ q[n] = a
    <2>1. 1 \in 1..n /\ n \in 1..n /\ n - 1 + 1 = n /\ n - n + 1 = 1
        BY <1>1
    <2>2. q[1] = p[n - 1 + 1] /\ q[n] = p[n - n + 1]
        BY <1>2, <2>1
    <2> QED  BY <1>1, <2>1, <2>2
<1>7. ASSUME NEW i \in 1..(n - 1) PROVE << q[i], q[i + 1] >> \in M
    <2>1. i \in 1..n /\ i + 1 \in 1..n /\ n - i \in 1..(n - 1) /\ n - (i + 1) + 1 = n - i
        BY <1>1
    <2>2. q[i] = p[n - i + 1] /\ q[i + 1] = p[n - (i + 1) + 1]
        BY <1>2, <2>1
    <2>3. << p[n - i], p[n - i + 1] >> \in L
        BY <1>1, <2>1
    <2> QED  BY <2>1, <2>2, <2>3
<1>8. Route(V, M, q, b, a)
    BY <1>1, <1>5, <1>6, <1>7 DEF Route
<1> QED  BY <1>5, <1>8 DEF q, n

(* One route after another.                                                *)
LEMMA JoinedRoutes ==
    ASSUME NEW V, NEW L, NEW p, NEW q, NEW a, NEW b, NEW c,
           Route(V, L, p, a, b), Route(V, L, q, b, c)
    PROVE  \E r : Route(V, L, r, a, c)
<1> DEFINE m == Len(p)
           n == Len(q)
           k == m + n - 1
           r == [i \in 1..k |-> IF i <= m THEN p[i] ELSE q[i - m + 1]]
<1>1. /\ m \in Nat /\ m >= 1 /\ p[1] = a /\ p[m] = b
      /\ \A i \in 1..(m - 1) : << p[i], p[i + 1] >> \in L
      /\ \A i \in 1..m : p[i] \in V
    BY DEF Route
<1>2. /\ n \in Nat /\ n >= 1 /\ q[1] = b /\ q[n] = c
      /\ \A i \in 1..(n - 1) : << q[i], q[i + 1] >> \in L
      /\ \A i \in 1..n : q[i] \in V
    BY DEF Route
<1>3. /\ r = [i \in 1..k |-> r[i]]
      /\ \A i \in 1..k : r[i] = IF i <= m THEN p[i] ELSE q[i - m + 1]
    OBVIOUS
<1> HIDE DEF m, n, r
<1>0. k = m + n - 1
    OBVIOUS
<1> HIDE DEF k
<1>4. \A i \in 1..k : i <= m \/ i - m + 1 \in 1..n
    BY <1>0, <1>1, <1>2
<1>5. \A i \in 1..k : r[i] \in V
    <2> SUFFICES ASSUME NEW i \in 1..k PROVE r[i] \in V
        OBVIOUS
    <2>1. CASE i <= m
        <3>1. i \in 1..m
            BY <1>0, <1>1, <1>2, <2>1
        <3> QED  BY <1>1, <1>3, <2>1, <3>1
    <2>2. CASE ~ (i <= m)
        BY <1>2, <1>3, <1>4, <2>2
    <2> QED  BY <2>1, <2>2
<1>6. k \in Nat /\ k >= 1
    BY <1>0, <1>1, <1>2
<1>7. r \in Seq(V) /\ Len(r) = k
    BY <1>3, <1>5, <1>6, SequenceOf
<1>8. r[1] = a /\ r[k] = c
    <2>1. 1 \in 1..k /\ k \in 1..k /\ 1 <= m
        BY <1>1, <1>6
    <2>2. r[1] = a
        BY <1>1, <1>3, <2>1
    <2>3. CASE n = 1
        <3>1. k = m
            BY <1>0, <1>1, <2>3
        <3> QED  BY <1>1, <1>2, <1>3, <2>1, <2>2, <2>3, <3>1
    <2>4. CASE n # 1
        <3>1. ~ (k <= m) /\ k - m + 1 = n
            BY <1>0, <1>1, <1>2, <2>4
        <3>2. r[k] = q[k - m + 1]
            BY <1>3, <2>1, <3>1
        <3> QED  BY <1>2, <2>2, <3>1, <3>2
    <2> QED  BY <2>3, <2>4
<1>9. ASSUME NEW i \in 1..(k - 1) PROVE << r[i], r[i + 1] >> \in L
    <2>1. i \in 1..k /\ i + 1 \in 1..k
        BY <1>6
    <2>2. CASE i < m
        <3>1. i <= m /\ i + 1 <= m /\ i \in 1..(m - 1)
            BY <1>1, <2>2
        <3> QED  BY <1>1, <1>3, <2>1, <3>1
    <2>3. CASE i = m
        <3>1. ~ (i + 1 <= m) /\ (i + 1) - m + 1 = 2 /\ 1 \in 1..(n - 1) /\ 1 + 1 = 2
            BY <1>0, <1>1, <1>2, <2>3
        <3>2. r[i] = b /\ r[i + 1] = q[2]
            BY <1>1, <1>3, <2>1, <2>3, <3>1
        <3> QED  BY <1>2, <3>1, <3>2
    <2>4. CASE i > m
        <3>1. ~ (i <= m) /\ ~ (i + 1 <= m) /\ i - m + 1 \in 1..(n - 1)
              /\ (i + 1) - m + 1 = (i - m + 1) + 1
            BY <1>0, <1>1, <1>2, <2>4
        <3>2. r[i] = q[i - m + 1] /\ r[i + 1] = q[(i + 1) - m + 1]
            BY <1>3, <2>1, <3>1
        <3> QED  BY <1>2, <3>1, <3>2
    <2> QED  BY <1>1, <2>2, <2>3, <2>4
<1>10. Route(V, L, r, a, c)
    <2>1. Len(r) >= 1
        BY <1>6, <1>7
    <2> QED  BY <1>7, <1>8, <1>9, <2>1 DEF Route
<1> QED  BY <1>10

-----------------------------------------------------------------------------
(* ShortestPaths finds the shortest routes.                                *)

(* A step of its search.                                                   *)
Met(V, L, b, s) ==
    LET longer == {Append(q[1], q[2]) : q \in
                     {x \in s.paths \X (V \ s.seen) : << Last(x[1]), x[2] >> \in L}}
    IN IF b \in s.seen THEN s
       ELSE [paths |-> longer, seen |-> s.seen \cup {Last(p) : p \in longer}]

Meets(M, V, L, a, b) ==
    /\ M[0] = [paths |-> {<< a >>}, seen |-> {a}]
    /\ \A i \in 1..Cardinality(V) : M[i] = Met(V, L, b, M[i - 1])

MetState(V) == [paths : SUBSET (Seq(V) \ {<< >>}), seen : SUBSET V]

LEMMA MetType ==
    ASSUME NEW V, NEW L, NEW b, NEW s \in MetState(V)
    PROVE  Met(V, L, b, s) \in MetState(V)
<1> DEFINE longer == {Append(q[1], q[2]) : q \in
                        {x \in s.paths \X (V \ s.seen) : << Last(x[1]), x[2] >> \in L}}
<1>1. s.paths \subseteq Seq(V) /\ s.seen \subseteq V
    BY DEF MetState
<1>2. ASSUME NEW p \in longer PROVE p \in Seq(V) /\ p # << >> /\ Last(p) \in V
    <2>1. PICK u \in Seq(V), x \in V : p = Append(u, x)
        BY <1>1
    <2>2. p \in Seq(V) /\ Len(p) = Len(u) + 1 /\ p[Len(u) + 1] = x /\ Len(u) \in Nat
        BY <2>1
    <2> QED  BY <2>2 DEF Last
<1>3. Met(V, L, b, s) = IF b \in s.seen THEN s
                        ELSE [paths |-> longer, seen |-> s.seen \cup {Last(p) : p \in longer}]
    BY DEF Met
<1> HIDE DEF longer
<1>4. longer \in SUBSET (Seq(V) \ {<< >>}) /\ s.seen \cup {Last(p) : p \in longer} \in SUBSET V
    BY <1>1, <1>2
<1> QED  BY <1>3, <1>4 DEF MetState

LEMMA PathsAreMet ==
    ASSUME NEW V, IsFiniteSet(V), NEW L, NEW a \in V, NEW b \in V
    PROVE  \E M : /\ Meets(M, V, L, a, b)
                  /\ ShortestPaths(V, L, a, b) = {p \in M[Cardinality(V)].paths : Last(p) = b}
<1> DEFINE n == Cardinality(V)
           first == [paths |-> {<< a >>}, seen |-> {a}]
           Step(s) == Met(V, L, b, s)
           next == [i \in 1..n |-> [s \in MetState(V) |-> Step(s)]]
           All(f) == f = [i \in 0..n |-> IF i = 0 THEN first ELSE Step(f[i - 1])]
<1>1. n \in Nat
    BY FS_CardinalityType
<1>2. first \in MetState(V)
    BY DEF MetState
<1>3. next \in [1..n -> [MetState(V) -> MetState(V)]]
    <2>1. \A s \in MetState(V) : Step(s) \in MetState(V)
        BY MetType
    <2> HIDE DEF Step
    <2> QED  BY <2>1
<1>4. \A i \in 1..n, s \in MetState(V) : next[i][s] = Step(s)
    OBVIOUS
<1> HIDE DEF next, first
<1>5. PICK f : Iterates(f, n, MetState(V), first, next)
    BY <1>1, <1>2, <1>3, Iterated
<1>6. f \in [0..n -> MetState(V)] /\ f[0] = first /\ \A i \in 1..n : f[i] = next[i][f[i - 1]]
    BY <1>5 DEF Iterates
<1>7. \A i \in 1..n : f[i] = Step(f[i - 1])
    <2> SUFFICES ASSUME NEW i \in 1..n PROVE f[i] = Step(f[i - 1])
        OBVIOUS
    <2>1. i - 1 \in 0..n
        BY <1>1
    <2> QED  BY <1>4, <1>6, <2>1
<1>8. All(f)
    <2> HIDE DEF Step
    <2>1. \A i \in 0..n : f[i] = IF i = 0 THEN first ELSE Step(f[i - 1])
        BY <1>1, <1>6, <1>7
    <2> QED  BY <1>6, <2>1
<1> DEFINE R == CHOOSE g : All(g)
<1>9. All(R)
    BY <1>8
<1>10. ShortestPaths(V, L, a, b) = {p \in R[n].paths : Last(p) = b}
    BY DEF ShortestPaths, Met, first
<1> HIDE DEF R, Step
<1>11. \A i \in 0..n : R[i] = IF i = 0 THEN first ELSE Step(R[i - 1])
    BY <1>9
<1>12. R[0] = first /\ \A i \in 1..n : R[i] = Step(R[i - 1])
    BY <1>1, <1>11
<1> QED  BY <1>10, <1>12 DEF Meets, Step, first

(* After n steps: the shortest routes of n links, and what they lead to.   *)
Searched(s, n, V, L, a, b) ==
    /\ \A p : p \in s.paths <=> Len(p) = n + 1 /\ \E x : Shortest(V, L, p, a, x)
    /\ \A x : x \in s.seen <=> \E p : Route(V, L, p, a, x) /\ Len(p) <= n + 1
    /\ \A q : Route(V, L, q, a, b) => Len(q) >= n + 1

LEMMA SearchedFirst ==
    ASSUME NEW V, NEW L, NEW a \in V, NEW b
    PROVE  Searched([paths |-> {<< a >>}, seen |-> {a}], 0, V, L, a, b)
<1> DEFINE s == [paths |-> {<< a >>}, seen |-> {a}]
<1>1. Route(V, L, << a >>, a, a) /\ Len(<< a >>) = 1
    BY DEF Route
<1>2. \A q, x : Route(V, L, q, a, x) => Len(q) \in Nat /\ Len(q) >= 1
    BY DEF Route
<1>3. \A q, x : Route(V, L, q, a, x) /\ Len(q) = 1 => q = << a >> /\ x = a
    <2> SUFFICES ASSUME NEW q, NEW x, Route(V, L, q, a, x), Len(q) = 1 PROVE q = << a >> /\ x = a
        OBVIOUS
    <2>1. q \in Seq(V) /\ q[1] = a /\ x = a
        BY DEF Route
    <2> QED  BY <2>1
<1>4. Shortest(V, L, << a >>, a, a)
    BY <1>1, <1>2 DEF Shortest
<1>5. \A p : p \in s.paths <=> Len(p) = 1 /\ \E x : Shortest(V, L, p, a, x)
    BY <1>1, <1>3, <1>4 DEF Shortest
<1>6. \A x : x \in s.seen <=> \E p : Route(V, L, p, a, x) /\ Len(p) <= 1
    <2>1. \A p, x : Route(V, L, p, a, x) /\ Len(p) <= 1 => x = a
        <3> SUFFICES ASSUME NEW p, NEW x, Route(V, L, p, a, x), Len(p) <= 1 PROVE x = a
            OBVIOUS
        <3>1. Len(p) \in Nat /\ Len(p) >= 1
            BY <1>2
        <3>2. Len(p) = 1
            <4>1. \A k \in Nat : k >= 1 /\ k <= 1 => k = 1
                OBVIOUS
            <4> QED  BY <3>1, <4>1, Zenon
        <3> QED  BY <1>3, <3>2
    <2>2. s.seen = {a} /\ 1 <= 1
        OBVIOUS
    <2>3. \E p : Route(V, L, p, a, a) /\ Len(p) <= 1
        BY <1>1, <2>2
    <2> HIDE DEF s
    <2> QED  BY <2>1, <2>2, <2>3
<1> HIDE DEF s
<1>7. 0 + 1 = 1
    OBVIOUS
<1> QED  BY <1>2, <1>5, <1>6, <1>7 DEF Searched, s

LEMMA SearchedNext ==
    ASSUME NEW V, NEW L, NEW a, NEW b, NEW s \in MetState(V), NEW n \in Nat,
           Searched(s, n, V, L, a, b), b \notin s.seen
    PROVE  Searched(Met(V, L, b, s), n + 1, V, L, a, b)
<1> DEFINE longer == {Append(q[1], q[2]) : q \in
                        {x \in s.paths \X (V \ s.seen) : << Last(x[1]), x[2] >> \in L}}
           t == Met(V, L, b, s)
<1>1. t.paths = longer /\ t.seen = s.seen \cup {Last(p) : p \in longer}
    BY DEF Met
<1>2. \A p : p \in longer <=> \E u \in s.paths, x \in V \ s.seen : << Last(u), x >> \in L /\ p = Append(u, x)
    <2>1. \A u \in s.paths, x \in V \ s.seen : << Last(u), x >> \in L => Append(u, x) \in longer
        <3> SUFFICES ASSUME NEW u \in s.paths, NEW x \in V \ s.seen, << Last(u), x >> \in L
                     PROVE  Append(u, x) \in longer
            OBVIOUS
        <3>1. << u, x >> \in {y \in s.paths \X (V \ s.seen) : << Last(y[1]), y[2] >> \in L}
            OBVIOUS
        <3>2. << u, x >>[1] = u /\ << u, x >>[2] = x
            OBVIOUS
        <3> QED  BY <3>1, <3>2
    <2>2. \A p \in longer : \E u \in s.paths, x \in V \ s.seen : << Last(u), x >> \in L /\ p = Append(u, x)
        OBVIOUS
    <2> HIDE DEF longer
    <2> QED  BY <2>1, <2>2
<1> HIDE DEF longer, t
<1>3. /\ \A p : p \in s.paths <=> Len(p) = n + 1 /\ \E x : Shortest(V, L, p, a, x)
      /\ \A x : x \in s.seen <=> \E p : Route(V, L, p, a, x) /\ Len(p) <= n + 1
      /\ \A q : Route(V, L, q, a, b) => Len(q) >= n + 1
    BY DEF Searched
<1>4. \A q, x : Route(V, L, q, a, x) => Len(q) \in Nat /\ Last(q) = x /\ x \in V /\ a \in V
    BY RouteEnds DEF Route, Last
<1>5. ASSUME NEW p \in longer
      PROVE  Len(p) = n + 2 /\ Shortest(V, L, p, a, Last(p))
    <2>1. PICK u \in s.paths, x \in V \ s.seen : << Last(u), x >> \in L /\ p = Append(u, x)
        BY <1>2
    <2>2. PICK y : Shortest(V, L, u, a, y)
        BY <1>3
    <2>3. Route(V, L, u, a, y) /\ Last(u) = y /\ Len(u) = n + 1
        BY <1>3, <1>4, <2>2 DEF Shortest
    <2>4. Route(V, L, p, a, x) /\ Len(p) = n + 2
        BY <2>1, <2>3, Longer
    <2>5. \A q : Route(V, L, q, a, x) => ~ (Len(q) <= n + 1)
        BY <1>3, <2>1
    <2>6. \A q : Route(V, L, q, a, x) => Len(p) <= Len(q)
        BY <1>4, <2>4, <2>5
    <2>7. Last(p) = x
        BY <1>4, <2>4
    <2> QED  BY <2>4, <2>6, <2>7 DEF Shortest
<1>6. ASSUME NEW p, NEW x, Shortest(V, L, p, a, x), Len(p) = n + 2
      PROVE  p \in longer /\ Last(p) = x
    <2> DEFINE u == Start(p)
               y == p[Len(p) - 1]
    <2>1. /\ Shortest(V, L, u, a, y) /\ Len(u) = Len(p) - 1 /\ << y, x >> \in L
          /\ p = Append(u, x)
        <3>1. Len(p) >= 2
            BY <1>6
        <3> QED  BY <1>6, <3>1, ShortestStart
    <2> HIDE DEF u, y
    <2>2. u \in s.paths /\ Last(u) = y
        <3>1. Len(u) = n + 1
            BY <1>6, <2>1
        <3> QED  BY <1>3, <1>4, <2>1, <3>1 DEF Shortest
    <2>3. x \in V \ s.seen /\ Last(p) = x
        <3>1. \A q : Route(V, L, q, a, x) => n + 2 <= Len(q)
            BY <1>6 DEF Shortest
        <3>2. \A q : Route(V, L, q, a, x) => ~ (Len(q) <= n + 1)
            BY <1>4, <3>1
        <3> QED  BY <1>3, <1>4, <1>6, <3>2 DEF Shortest
    <2> QED  BY <1>2, <2>1, <2>2, <2>3
<1>7. \A p : p \in t.paths <=> Len(p) = n + 2 /\ \E x : Shortest(V, L, p, a, x)
    BY <1>1, <1>5, <1>6
<1>8. ASSUME NEW x, x \in t.seen PROVE \E p : Route(V, L, p, a, x) /\ Len(p) <= n + 2
    <2>1. CASE x \in s.seen
        <3>1. PICK p : Route(V, L, p, a, x) /\ Len(p) <= n + 1
            BY <1>3, <2>1
        <3>2. Len(p) <= n + 2
            BY <1>4, <3>1
        <3> QED  BY <3>1, <3>2
    <2>2. CASE x \notin s.seen
        <3>1. PICK p \in longer : x = Last(p)
            BY <1>1, <1>8, <2>2
        <3>2. Len(p) <= n + 2
            BY <1>5
        <3> QED  BY <1>5, <3>1, <3>2 DEF Shortest
    <2> QED  BY <2>1, <2>2
<1>9. ASSUME NEW x, NEW p, Route(V, L, p, a, x), Len(p) <= n + 2 PROVE x \in t.seen
    <2>1. PICK q : Shortest(V, L, q, a, x) /\ Len(q) <= Len(p)
        BY <1>9, SomeShortest
    <2>2. Route(V, L, q, a, x) /\ Len(q) \in Nat /\ Len(p) \in Nat
        BY <1>4, <1>9, <2>1 DEF Shortest
    <2>3. Len(q) <= n + 1 \/ Len(q) = n + 2
        BY <1>9, <2>1, <2>2
    <2>4. CASE Len(q) <= n + 1
        BY <1>1, <1>3, <2>2, <2>4
    <2>5. CASE Len(q) = n + 2
        BY <1>1, <1>6, <2>1, <2>5
    <2> QED  BY <2>3, <2>4, <2>5
<1>10. \A q : Route(V, L, q, a, b) => Len(q) >= n + 2
    <2>1. \A q : Route(V, L, q, a, b) => ~ (Len(q) <= n + 1)
        BY <1>3
    <2> QED  BY <1>4, <2>1
<1>11. (n + 1) + 1 = n + 2
    OBVIOUS
<1> QED  BY <1>7, <1>8, <1>9, <1>10, <1>11 DEF Searched, t

LEMMA ShortestPathsAre ==
    ASSUME NEW V, IsFiniteSet(V), NEW L, NEW a \in V, NEW b \in V, NEW p
    PROVE  p \in ShortestPaths(V, L, a, b) <=> Shortest(V, L, p, a, b)
<1> DEFINE N == Cardinality(V)
<1>1. PICK M : /\ Meets(M, V, L, a, b)
               /\ ShortestPaths(V, L, a, b) = {q \in M[Cardinality(V)].paths : Last(q) = b}
    BY PathsAreMet
<1>2. N \in Nat
    BY FS_CardinalityType
<1>3. /\ M[0] = [paths |-> {<< a >>}, seen |-> {a}]
      /\ \A i \in 1..N : M[i] = Met(V, L, b, M[i - 1])
    BY <1>1 DEF Meets
<1> HIDE DEF N
<1> DEFINE Kept(i, m) == /\ Searched(M[m], m, V, L, a, b) /\ M[i] = M[m]
                         /\ m = i \/ b \in M[m].seen
           P == {i \in 0..N : M[i] \in MetState(V) /\ \E m \in 0..i : Kept(i, m)}
<1>4. 0 \in P
    <2>1. M[0] \in MetState(V)
        BY <1>3 DEF MetState
    <2>2. Kept(0, 0)
        BY <1>3, SearchedFirst
    <2> HIDE DEF Kept
    <2> QED  BY <1>2, <2>1, <2>2
<1>5. ASSUME NEW i \in 0..N, i < N, i \in P PROVE i + 1 \in P
    <2>1. PICK m \in 0..i : Kept(i, m)
        BY <1>5
    <2>2. i + 1 \in 1..N /\ (i + 1) - 1 = i /\ i + 1 \in 0..N /\ m \in 0..(i + 1) /\ i + 1 \in 0..(i + 1)
        BY <1>2, <1>5
    <2>3. M[i + 1] = Met(V, L, b, M[i]) /\ M[i] \in MetState(V)
        BY <1>3, <1>5, <2>2
    <2>4. M[i + 1] \in MetState(V)
        BY <2>3, MetType
    <2>5. CASE b \in M[i].seen
        <3>1. M[i + 1] = M[i]
            BY <2>3, <2>5 DEF Met
        <3>2. Kept(i + 1, m)
            BY <2>1, <2>5, <3>1
        <3> HIDE DEF Kept
        <3> QED  BY <2>2, <2>4, <3>2
    <2>6. CASE b \notin M[i].seen
        <3>1. m = i /\ Searched(M[i], i, V, L, a, b) /\ i \in Nat
            BY <2>1, <2>6
        <3>2. Searched(M[i + 1], i + 1, V, L, a, b)
            BY <2>3, <2>6, <3>1, SearchedNext
        <3>3. Kept(i + 1, i + 1)
            BY <3>2
        <3> HIDE DEF Kept
        <3> QED  BY <2>2, <2>4, <3>3
    <2> QED  BY <2>5, <2>6
<1> HIDE DEF P
<1>6. \A i \in 0..N : i \in P
    BY <1>2, <1>4, <1>5, Upto
<1>7. PICK m \in 0..N : Kept(N, m)
    <2>1. N \in P
        BY <1>2, <1>6
    <2> HIDE DEF Kept
    <2> QED  BY <2>1 DEF P
<1>8. /\ \A q : q \in M[N].paths <=> Len(q) = m + 1 /\ \E x : Shortest(V, L, q, a, x)
      /\ \A x : x \in M[N].seen <=> \E q : Route(V, L, q, a, x) /\ Len(q) <= m + 1
      /\ \A q : Route(V, L, q, a, b) => Len(q) >= m + 1
      /\ m = N \/ b \in M[N].seen
    BY <1>7 DEF Searched
<1> HIDE DEF Kept
<1>9. \A q, x : Route(V, L, q, a, x) => Len(q) \in Nat /\ Last(q) = x
    BY DEF Route, Last
<1>10. p \in ShortestPaths(V, L, a, b) <=>
          Len(p) = m + 1 /\ (\E x : Shortest(V, L, p, a, x)) /\ Last(p) = b
    BY <1>1, <1>8 DEF N
<1>11. \A x : Shortest(V, L, p, a, x) => Last(p) = x
    BY <1>9 DEF Shortest
<1>12. ASSUME Shortest(V, L, p, a, b) PROVE Len(p) = m + 1
    <2>1. Route(V, L, p, a, b) /\ Len(p) \in Nat /\ Len(p) >= m + 1
        BY <1>8, <1>9, <1>12 DEF Shortest
    <2>2. CASE b \in M[N].seen
        <3>1. PICK q : Route(V, L, q, a, b) /\ Len(q) <= m + 1
            BY <1>8, <2>2
        <3>2. Len(p) <= Len(q) /\ Len(q) \in Nat
            BY <1>9, <1>12, <3>1 DEF Shortest
        <3> QED  BY <2>1, <3>1, <3>2
    <2>3. CASE m = N
        <3>1. Len(p) <= N
            BY <1>12, ShortestIsShort DEF N
        <3> QED  BY <1>2, <2>1, <2>3, <3>1
    <2> QED  BY <1>8, <2>2, <2>3
<1> QED  BY <1>10, <1>11, <1>12

-----------------------------------------------------------------------------
(* Join paths.                                                             *)

LEMMA NodeNamesItself ==
    ASSUME NEW g, NEW a \in Nodes(g), NEW current
    PROVE  IdentityFor(g, a, current) = a
BY DEF IdentityFor, ResolveName, Choose, Found

LEMMA FiniteNodes ==
    ASSUME NEW g, NEW ts, WellBuilt(g, ts)
    PROVE  /\ IsFiniteSet(Nodes(g)) /\ Nodes(g) = Ids(ts)
           /\ \A e \in DOMAIN g.edges : e = << e[1], e[2] >> /\ e[1] \in Nodes(g) /\ e[2] \in Nodes(g)
<1>1. Catalog(ts) /\ Nodes(g) = Ids(ts) /\ Keyed(g, ts)
    BY DEF WellBuilt, Describes, Lists
<1>2. ASSUME NEW e \in DOMAIN g.edges PROVE e = << e[1], e[2] >> /\ e[1] \in Ids(ts) /\ e[2] \in Ids(ts)
    <2>1. PICK t \in ts : e = << Identity(t), e[2] >> /\ e[2] \in Ids(ts)
        BY <1>1 DEF Keyed, KeyEdge
    <2>2. e[1] = Identity(t)
        BY <2>1
    <2> QED  BY <2>1, <2>2 DEF Ids
<1> QED  BY <1>1, <1>2, IdsFinite DEF Catalog

LEMMA SnapshotIsBothWays ==
    ASSUME IInv
    PROVE  UndirectedSnapshot(mgr.graph) = BothWays(DOMAIN mgr.graph.edges)
BY DEF IInv, SnapshotIsCurrent, UndirectedSnapshot

LEMMA OfBothWays ==
    ASSUME NEW L, \A e \in L : e = << e[1], e[2] >>
    PROVE  \A x, y : << x, y >> \in BothWays(L) <=> << x, y >> \in L \/ << y, x >> \in L
<1> SUFFICES ASSUME NEW x, NEW y
             PROVE  << x, y >> \in BothWays(L) <=> << x, y >> \in L \/ << y, x >> \in L
    OBVIOUS
<1>1. << y, x >> \in L => << x, y >> \in {<< e[2], e[1] >> : e \in L}
    <2>1. << y, x >>[1] = y /\ << y, x >>[2] = x
        OBVIOUS
    <2> QED  BY <2>1
<1>2. ASSUME NEW e \in L, << x, y >> = << e[2], e[1] >> PROVE << y, x >> \in L
    BY <1>2
<1> QED  BY <1>1, <1>2 DEF BothWays

LEMMA WiderRoute ==
    ASSUME NEW V, NEW L, NEW M, NEW p, NEW a, NEW b, Route(V, L, p, a, b),
           \A x, y : << x, y >> \in L => << x, y >> \in M
    PROVE  Route(V, M, p, a, b)
BY DEF Route

(* What find_join_path answers with is shortest, read both ways.           *)
LEMMA ChosenAreShortest ==
    ASSUME IInv, NEW a \in Nodes(mgr.graph), NEW b \in Nodes(mgr.graph)
    PROVE  LET V == Nodes(mgr.graph)
               both == BothWays(DOMAIN mgr.graph.edges)
               chosen == ChosenPaths(mgr.graph, a, b)
           IN /\ \A p \in chosen : Shortest(V, both, p, a, b)
              /\ (\E p : Shortest(V, both, p, a, b)) => \E p : p \in chosen
<1> DEFINE g == mgr.graph
           V == Nodes(g)
           L == DOMAIN g.edges
           both == BothWays(L)
           along == ShortestPaths(V, L, a, b)
           against == {Reverse(p) : p \in ShortestPaths(V, L, b, a)}
           mixed == ShortestPaths(V, both, a, b)
           all == along \cup against \cup mixed
           least == {p \in all : \A q \in all : Len(p) <= Len(q)}
           chosen == ChosenPaths(g, a, b)
<1>1. /\ IsFiniteSet(V) /\ \A x, y : << x, y >> \in both <=> << x, y >> \in L \/ << y, x >> \in L
    <2>1. WellBuilt(g, Reported)
        BY DEF IInv, ManagerIsAsReported
    <2>2. IsFiniteSet(V) /\ \A e \in L : e = << e[1], e[2] >>
        BY <2>1, FiniteNodes
    <2> QED  BY <2>2, OfBothWays
<1>2. chosen = IF least \cap along # {} THEN along
               ELSE IF least \cap against # {} THEN against ELSE mixed
    BY SnapshotIsBothWays DEF ChosenPaths
<1>3. a \in V /\ b \in V
    OBVIOUS
<1> HIDE DEF V, L, both, chosen, g
<1>4. /\ \A p : p \in along <=> Shortest(V, L, p, a, b)
      /\ \A p : p \in ShortestPaths(V, L, b, a) <=> Shortest(V, L, p, b, a)
      /\ \A p : p \in mixed <=> Shortest(V, both, p, a, b)
    BY <1>1, <1>3, ShortestPathsAre
<1>5. \A p : p \in against <=> \E q : Shortest(V, L, q, b, a) /\ p = Reverse(q)
    BY <1>4
<1> HIDE DEF along, against, mixed
<1>6. \A p, x, y : Route(V, both, p, x, y) => Len(p) \in Nat
    BY RouteEnds
<1>7. ASSUME NEW p, Route(V, both, p, a, b), NEW q \in mixed, Len(p) <= Len(q)
      PROVE  Shortest(V, both, p, a, b)
    <2>1. Shortest(V, both, q, a, b)
        BY <1>4, <1>7
    <2>2. \A r : Route(V, both, r, a, b) => Len(q) <= Len(r)
        BY <2>1 DEF Shortest
    <2>3. \A r : Route(V, both, r, a, b) => Len(p) <= Len(r)
        BY <1>6, <1>7, <2>1, <2>2 DEF Shortest
    <2> QED  BY <1>7, <2>3 DEF Shortest
<1>8. ASSUME NEW p, Route(V, both, p, a, b) PROVE \E q : q \in mixed
    BY <1>4, <1>8, SomeShortest
<1>9. \A p \in along : Route(V, both, p, a, b) /\ \A q \in along : Len(p) <= Len(q)
    <2> SUFFICES ASSUME NEW p \in along
                 PROVE  Route(V, both, p, a, b) /\ \A q \in along : Len(p) <= Len(q)
        OBVIOUS
    <2>1. Route(V, L, p, a, b) /\ \A q : Route(V, L, q, a, b) => Len(p) <= Len(q)
        BY <1>4 DEF Shortest
    <2>2. Route(V, both, p, a, b)
        BY <1>1, <2>1, WiderRoute
    <2> QED  BY <1>4, <2>1, <2>2 DEF Shortest
<1>10. \A p \in against : Route(V, both, p, a, b) /\ \A q \in against : Len(p) <= Len(q)
    <2> SUFFICES ASSUME NEW p \in against
                 PROVE  Route(V, both, p, a, b) /\ \A q \in against : Len(p) <= Len(q)
        OBVIOUS
    <2>1. PICK u : Shortest(V, L, u, b, a) /\ p = Reverse(u)
        BY <1>5
    <2>2. Route(V, L, u, b, a)
        BY <2>1 DEF Shortest
    <2>3. Route(V, both, p, a, b) /\ Len(p) = Len(u)
        BY <1>1, <2>1, <2>2, ReversedRoute
    <2>4. ASSUME NEW q \in against PROVE Len(p) <= Len(q)
        <3>1. PICK v : Shortest(V, L, v, b, a) /\ q = Reverse(v)
            BY <1>5
        <3>2. Route(V, L, v, b, a)
            BY <3>1 DEF Shortest
        <3>3. Len(q) = Len(v)
            BY <1>1, <3>1, <3>2, ReversedRoute
        <3>4. Len(u) <= Len(v)
            BY <2>1, <3>2 DEF Shortest
        <3> QED  BY <2>3, <3>3, <3>4
    <2> QED  BY <2>3, <2>4
<1>11. ASSUME NEW some, \A p \in some : Route(V, both, p, a, b) /\ \A q \in some : Len(p) <= Len(q),
              NEW l \in least \cap some
       PROVE  \A p \in some : Shortest(V, both, p, a, b)
    <2> SUFFICES ASSUME NEW p \in some PROVE Shortest(V, both, p, a, b)
        OBVIOUS
    <2>1. l \in some /\ Route(V, both, p, a, b) /\ Route(V, both, l, a, b) /\ Len(p) <= Len(l)
        BY <1>11
    <2>2. PICK q : q \in mixed
        BY <1>8, <2>1
    <2>3. q \in all /\ Len(l) <= Len(q)
        BY <1>11, <2>2
    <2>4. Route(V, both, q, a, b)
        BY <1>4, <2>2 DEF Shortest
    <2>5. Len(p) \in Nat /\ Len(l) \in Nat /\ Len(q) \in Nat
        BY <1>6, <2>1, <2>4
    <2>6. Len(p) <= Len(q)
        BY <2>1, <2>3, <2>5
    <2> QED  BY <1>7, <2>1, <2>2, <2>6
<1>12. \A p \in chosen : Shortest(V, both, p, a, b)
    <2>1. CASE least \cap along # {}
        <3>1. PICK l : l \in least \cap along
            BY <2>1
        <3>2. \A p \in along : Shortest(V, both, p, a, b)
            BY <1>9, <1>11, <3>1
        <3> QED  BY <1>2, <2>1, <3>2
    <2>2. CASE least \cap along = {} /\ least \cap against # {}
        <3>1. PICK l : l \in least \cap against
            BY <2>2
        <3>2. \A p \in against : Shortest(V, both, p, a, b)
            BY <1>10, <1>11, <3>1
        <3> QED  BY <1>2, <2>2, <3>2
    <2>3. CASE least \cap along = {} /\ least \cap against = {}
        BY <1>2, <1>4, <2>3
    <2> QED  BY <2>1, <2>2, <2>3
<1>13. ASSUME NEW p, Shortest(V, both, p, a, b) PROVE \E q : q \in chosen
    <2>1. p \in mixed
        BY <1>4, <1>13
    <2> HIDE DEF least
    <2> QED  BY <1>2, <2>1
<1> QED  BY <1>12, <1>13 DEF V, L, both, chosen, g

LEMMA IInvJoinPathsAreShortest == ASSUME IInv PROVE JoinPathsAreShortest
<1> DEFINE g == mgr.graph
           V == Nodes(g)
           both == BothWays(DOMAIN g.edges)
<1> SUFFICES ASSUME NEW a \in V, NEW b \in V, NEW limit \in {1, 12}
             PROVE  LET near == {p \in ShortestPaths(V, both, a, b) : Len(p) - 1 <= limit}
                        answers == JoinPaths(g, a, b, limit)
                    IN answers \subseteq near /\ (near # {} => answers # {})
    BY DEF JoinPathsAreShortest
<1> DEFINE chosen == ChosenPaths(g, a, b)
           near == {p \in ShortestPaths(V, both, a, b) : Len(p) - 1 <= limit}
           answers == JoinPaths(g, a, b, limit)
<1>1. IsFiniteSet(V)
    BY FiniteNodes DEF IInv, ManagerIsAsReported
<1>2. \A p : p \in ShortestPaths(V, both, a, b) <=> Shortest(V, both, p, a, b)
    BY <1>1, ShortestPathsAre
<1>3. /\ \A p \in chosen : Shortest(V, both, p, a, b)
      /\ (\E p : Shortest(V, both, p, a, b)) => \E p : p \in chosen
    BY ChosenAreShortest
<1>4. answers = {p \in chosen : Len(p) - 1 <= limit}
    BY NodeNamesItself DEF JoinPaths
<1>5. \A p \in near : Shortest(V, both, p, a, b) /\ Len(p) - 1 <= limit
    BY <1>2
<1>6. answers \subseteq near
    BY <1>2, <1>3, <1>4
<1> HIDE DEF g, V, both, chosen, near, answers
<1>7. ASSUME NEW p \in near PROVE \E q : q \in answers
    <2>1. Shortest(V, both, p, a, b) /\ Len(p) - 1 <= limit
        BY <1>5
    <2>2. PICK q : q \in chosen
        BY <1>3, <2>1
    <2>3. Shortest(V, both, q, a, b)
        BY <1>3, <2>2
    <2>4. Len(q) <= Len(p) /\ Len(p) <= Len(q)
        BY <2>1, <2>3 DEF Shortest
    <2>5. Len(p) \in Nat /\ Len(q) \in Nat
        BY <2>1, <2>3, RouteEnds DEF Shortest
    <2>6. Len(q) = Len(p)
        BY <2>4, <2>5
    <2>7. Len(q) - 1 <= limit
        BY <2>1, <2>6
    <2> QED  BY <1>4, <2>2, <2>7
<1> QED  BY <1>6, <1>7 DEF g, V, both, near, answers

LEMMA IInvAlternativesAreOthers == ASSUME IInv PROVE AlternativesAreOthers
<1> DEFINE g == mgr.graph
           V == Nodes(g)
           L == DOMAIN g.edges
           both == BothWays(L)
           key(from, left, right) ==
             \E fk \in Range(g.tables[from].fks) : fk.column = left /\ fk.referenced = right
<1> SUFFICES ASSUME NEW a \in V, NEW b \in V, JoinPaths(g, a, b, 12) # {}
             PROVE  LET p == CHOOSE x \in JoinPaths(g, a, b, 12) : TRUE
                        joins == JoinsAlong(g, p)
                        shortest == ShortestPaths(V, both, a, b)
                    IN /\ \A others \in AlternativePaths(g, a, b, p, MaxAlternatives) :
                            /\ others \subseteq shortest \ {p}
                            /\ others = {} => shortest = {p}
                            /\ Cardinality(others) <= MaxAlternatives
                            /\ Cardinality(others) < MaxAlternatives => {p} \cup others = shortest
                       /\ \A i \in DOMAIN joins :
                            \/ key(joins[i].from, joins[i].fromColumn, joins[i].toColumn)
                            \/ key(joins[i].to, joins[i].toColumn, joins[i].fromColumn)
    BY DEF AlternativesAreOthers
<1> DEFINE p == CHOOSE x \in JoinPaths(g, a, b, 12) : TRUE
           joins == JoinsAlong(g, p)
<1>1. WellBuilt(g, Reported) /\ IsFiniteSet(V) /\ \A e \in L : e = << e[1], e[2] >>
    BY FiniteNodes DEF IInv, ManagerIsAsReported
<1>2. p \in ChosenPaths(g, a, b)
    BY NodeNamesItself DEF JoinPaths
<1> HIDE DEF p
<1>3. Shortest(V, both, p, a, b)
    BY <1>2, ChosenAreShortest
<1>4. \A q : q \in ShortestPaths(V, both, a, b) <=> Shortest(V, both, q, a, b)
    BY <1>1, ShortestPathsAre
<1>5. \A q : Shortest(V, both, q, a, b) => Len(q) = Len(p)
    <2>1. \A q : Shortest(V, both, q, a, b) => Len(q) \in Nat /\ Len(q) <= Len(p) /\ Len(p) <= Len(q)
        BY <1>3, RouteEnds DEF Shortest
    <2> QED  BY <1>3, <2>1
<1> DEFINE shortest == ShortestPaths(V, both, a, b)
<1>6. ASSUME NEW others \in AlternativePaths(g, a, b, p, MaxAlternatives)
      PROVE  /\ others \subseteq shortest \ {p}
             /\ others = {} => shortest = {p}
             /\ Cardinality(others) <= MaxAlternatives
             /\ Cardinality(others) < MaxAlternatives => {p} \cup others = shortest
    <2> DEFINE all == {q \in shortest : Len(q) = Len(p) /\ q # p}
    <2>1. /\ others \in SUBSET all /\ Cardinality(others) <= MaxAlternatives
          /\ others # all => Cardinality(others) = MaxAlternatives
        BY <1>6, NodeNamesItself, SnapshotIsBothWays DEF AlternativePaths
    <2>2. all = shortest \ {p} /\ p \in shortest
        BY <1>3, <1>4, <1>5
    <2> HIDE DEF all, shortest
    <2>3. ASSUME Cardinality(others) < MaxAlternatives PROVE others = all
        BY <2>1, <2>3, NavigationAssumption
    <2>4. ASSUME others = {} PROVE Cardinality(others) < MaxAlternatives
        <3>1. Cardinality(others) = 0
            BY <2>4, FS_EmptySet
        <3> QED  BY <3>1, NavigationAssumption
    <2> QED  BY <2>1, <2>2, <2>3, <2>4
<1>8. ASSUME NEW e \in L
      PROVE  key(e[1], g.edges[e].column, g.edges[e].referenced)
    <2>1. PICK t \in Reported : e = << Identity(t), e[2] >> /\ KeyOf(Range(t.fks), e[2], g.edges[e])
        BY <1>1 DEF WellBuilt, Keyed, KeyEdge
    <2>2. e[1] = Identity(t) /\ g.tables[Identity(t)] = t
        BY <1>1, <2>1 DEF WellBuilt, Describes, Lists
    <2> QED  BY <2>1, <2>2 DEF KeyOf
<1>9. /\ Len(p) \in Nat
      /\ \A i \in 1..(Len(p) - 1) : << p[i], p[i + 1] >> \in both
    BY <1>3 DEF Shortest, Route
<1>10. \A x, y : << x, y >> \in both <=> << x, y >> \in L \/ << y, x >> \in L
    BY <1>1, OfBothWays
<1> HIDE DEF key
<1>11. ASSUME NEW i \in DOMAIN joins
       PROVE  \/ key(joins[i].from, joins[i].fromColumn, joins[i].toColumn)
              \/ key(joins[i].to, joins[i].toColumn, joins[i].fromColumn)
    <2> DEFINE forth == << p[i], p[i + 1] >>
               back == << p[i + 1], p[i] >>
    <2>1. DOMAIN joins = 1..(Len(p) - 1)
        BY DEF JoinsAlong
    <2>2. forth \in L \/ back \in L
        BY <1>9, <1>10, <2>1
    <2>3. CASE forth \in L
        <3>1. joins[i] = [from |-> p[i], to |-> p[i + 1], fromColumn |-> g.edges[forth].column,
                          toColumn |-> g.edges[forth].referenced, inferred |-> g.edges[forth].inferred]
            BY <2>1, <2>3 DEF JoinsAlong
        <3>2. forth[1] = p[i]
            OBVIOUS
        <3> HIDE DEF forth, joins
        <3>3. key(p[i], g.edges[forth].column, g.edges[forth].referenced)
            BY <1>8, <2>3, <3>2
        <3> QED  BY <3>1, <3>3
    <2>4. CASE forth \notin L /\ back \in L
        <3>1. joins[i] = [from |-> p[i], to |-> p[i + 1], fromColumn |-> g.edges[back].referenced,
                          toColumn |-> g.edges[back].column, inferred |-> g.edges[back].inferred]
            BY <2>1, <2>4 DEF JoinsAlong
        <3>2. back[1] = p[i + 1]
            OBVIOUS
        <3> HIDE DEF back, joins
        <3>3. key(p[i + 1], g.edges[back].column, g.edges[back].referenced)
            BY <1>8, <2>4, <3>2
        <3> QED  BY <3>1, <3>3
    <2> QED  BY <2>2, <2>3, <2>4
<1> QED  BY <1>6, <1>11 DEF p, key, shortest

(* find_join_path answers with shortest paths of the present graph, what   *)
(* find_alternative_join_paths reports beside one are all the others up to *)
(* the limit, and each join names the columns of a key, for every graph,   *)
(* limit, pair of tables and history of lookups.                           *)
THEOREM JoinPathsStayRight == Spec => []JoinPathsAreRight
<1>1. IInv => JoinPathsAreRight
    BY IInvJoinPathsAreShortest, IInvAlternativesAreOthers DEF JoinPathsAreRight
<1> QED  BY <1>1, GraphInvariant, PTL

-----------------------------------------------------------------------------
(* Neighbourhoods.                                                         *)

LayerState(V) == [here : SUBSET V, seen : SUBSET V]

(* A hop of the search _directed_closure makes.                            *)
Hopped(links, s) ==
    LET next == {l[2] : l \in {x \in links : x[1] \in s.here}}
    IN [here |-> next \ s.seen, seen |-> next \cup s.seen]

Hops(R, n, links, a) ==
    /\ R[0] = [here |-> {a}, seen |-> {a}]
    /\ \A i \in 1..n : R[i] = Hopped(links, R[i - 1])

LEMMA ClosureHops ==
    ASSUME NEW g, NEW a \in Nodes(g), NEW n \in Nat, NEW links,
           \A l \in links : l[2] \in Nodes(g)
    PROVE  \E R : /\ Hops(R, n, links, a)
                  /\ Closure(g, a, n, links) = [d \in 1..n |-> R[d].here]
<1> DEFINE V == Nodes(g)
           first == [here |-> {a} \cap Nodes(g), seen |-> {a}]
           Step(s) == Hopped(links, s)
           next == [i \in 1..n |-> [s \in LayerState(V) |-> Step(s)]]
           All(f) == f = [i \in 0..n |-> IF i = 0 THEN first ELSE Step(f[i - 1])]
<1>1. first \in LayerState(V) /\ first = [here |-> {a}, seen |-> {a}]
    BY DEF LayerState
<1>2. next \in [1..n -> [LayerState(V) -> LayerState(V)]]
    <2>1. \A s \in LayerState(V) : Step(s) \in LayerState(V)
        BY DEF LayerState, Hopped
    <2> HIDE DEF Step
    <2> QED  BY <2>1
<1>3. \A i \in 1..n, s \in LayerState(V) : next[i][s] = Step(s)
    OBVIOUS
<1> HIDE DEF next, first
<1>4. PICK f : Iterates(f, n, LayerState(V), first, next)
    BY <1>1, <1>2, Iterated
<1>5. f \in [0..n -> LayerState(V)] /\ f[0] = first /\ \A i \in 1..n : f[i] = next[i][f[i - 1]]
    BY <1>4 DEF Iterates
<1>6. \A i \in 1..n : f[i] = Step(f[i - 1])
    <2> SUFFICES ASSUME NEW i \in 1..n PROVE f[i] = Step(f[i - 1])
        OBVIOUS
    <2>1. i - 1 \in 0..n
        OBVIOUS
    <2> QED  BY <1>3, <1>5, <2>1
<1>7. All(f)
    <2> HIDE DEF Step
    <2>1. \A i \in 0..n : f[i] = IF i = 0 THEN first ELSE Step(f[i - 1])
        BY <1>5, <1>6
    <2> QED  BY <1>5, <2>1
<1> DEFINE R == CHOOSE h : All(h)
<1>8. All(R)
    BY <1>7
<1>9. Closure(g, a, n, links) = [d \in 1..n |-> R[d].here]
    BY DEF Closure, Hopped, first
<1> HIDE DEF R, Step
<1>10. \A i \in 0..n : R[i] = IF i = 0 THEN first ELSE Step(R[i - 1])
    BY <1>8
<1>11. R[0] = first /\ \A i \in 1..n : R[i] = Step(R[i - 1])
    BY <1>10
<1> QED  BY <1>1, <1>9, <1>11 DEF Hops, Step

(* After d hops: what is as far away, and what is not further.             *)
Layered(s, d, V, L, a) ==
    /\ \A x : x \in s.here <=> \E p : Shortest(V, L, p, a, x) /\ Len(p) = d + 1
    /\ \A x : x \in s.seen <=> \E p : Route(V, L, p, a, x) /\ Len(p) <= d + 1

LEMMA LayeredFirst ==
    ASSUME NEW V, NEW L, NEW a \in V
    PROVE  Layered([here |-> {a}, seen |-> {a}], 0, V, L, a)
<1> DEFINE s == [paths |-> {<< a >>}, seen |-> {a}]
<1>1. Searched(s, 0, V, L, a, a) /\ s.seen = {a} /\ s.paths = {<< a >>} /\ 0 + 1 = 1
    BY SearchedFirst
<1> HIDE DEF s
<1>2. /\ \A p : p = << a >> <=> Len(p) = 1 /\ \E x : Shortest(V, L, p, a, x)
      /\ \A x : x = a <=> \E p : Route(V, L, p, a, x) /\ Len(p) <= 1
    BY <1>1 DEF Searched
<1>3. ASSUME NEW x, NEW p, Shortest(V, L, p, a, x), Len(p) = 1 PROVE x = a
    <2>1. p = << a >> /\ p[Len(p)] = x
        BY <1>2, <1>3 DEF Shortest, Route
    <2> QED  BY <1>3, <2>1
<1>4. \E p : Shortest(V, L, p, a, a) /\ Len(p) = 1
    <2>1. Len(<< a >>) = 1
        OBVIOUS
    <2>2. PICK x : Shortest(V, L, << a >>, a, x)
        BY <1>2
    <2>3. x = a
        BY <1>3, <2>1, <2>2
    <2> QED  BY <2>1, <2>2, <2>3
<1>5. \A x : x \in {a} <=> \E p : Shortest(V, L, p, a, x) /\ Len(p) = 1
    BY <1>3, <1>4
<1> QED  BY <1>1, <1>2, <1>5 DEF Layered

LEMMA LayeredNext ==
    ASSUME NEW V, NEW L, \A l \in L : l = << l[1], l[2] >> /\ l[2] \in V,
           NEW a, NEW s, NEW d \in Nat, Layered(s, d, V, L, a)
    PROVE  Layered(Hopped(L, s), d + 1, V, L, a)
<1> DEFINE next == {l[2] : l \in {x \in L : x[1] \in s.here}}
           t == Hopped(L, s)
<1>1. t.here = next \ s.seen /\ t.seen = next \cup s.seen
    BY DEF Hopped
<1>2. \A x : x \in next <=> x \in V /\ \E y \in s.here : << y, x >> \in L
    <2>1. ASSUME NEW x, x \in next PROVE x \in V /\ \E y \in s.here : << y, x >> \in L
        <3>1. PICK l \in L : l[1] \in s.here /\ x = l[2]
            BY <2>1
        <3>2. l = << l[1], x >> /\ x \in V
            BY <3>1
        <3> QED  BY <3>1, <3>2
    <2>2. ASSUME NEW x, NEW y \in s.here, << y, x >> \in L PROVE x \in next
        <3>1. << y, x >>[1] = y /\ << y, x >>[2] = x
            OBVIOUS
        <3> QED  BY <2>2, <3>1
    <2> QED  BY <2>1, <2>2
<1> HIDE DEF next, t
<1>3. /\ \A x : x \in s.here <=> \E p : Shortest(V, L, p, a, x) /\ Len(p) = d + 1
      /\ \A x : x \in s.seen <=> \E p : Route(V, L, p, a, x) /\ Len(p) <= d + 1
    BY DEF Layered
<1>4. \A q, x : Route(V, L, q, a, x) => Len(q) \in Nat
    BY RouteEnds
<1>5. ASSUME NEW x \in next PROVE \E p : Route(V, L, p, a, x) /\ Len(p) = d + 2
    <2>1. PICK y \in s.here : << y, x >> \in L /\ x \in V
        BY <1>2
    <2>2. PICK u : Shortest(V, L, u, a, y) /\ Len(u) = d + 1
        BY <1>3
    <2>3. Route(V, L, Append(u, x), a, x) /\ Len(Append(u, x)) = Len(u) + 1
        BY <2>1, <2>2, Longer DEF Shortest
    <2>4. Len(Append(u, x)) = d + 2
        BY <2>2, <2>3
    <2> QED  BY <2>3, <2>4
<1>6. ASSUME NEW x, x \notin s.seen, NEW p, Route(V, L, p, a, x), Len(p) = d + 2
      PROVE  Shortest(V, L, p, a, x)
    <2>1. \A q : Route(V, L, q, a, x) => ~ (Len(q) <= d + 1)
        BY <1>3, <1>6
    <2>2. \A q : Route(V, L, q, a, x) => Len(p) <= Len(q)
        BY <1>4, <1>6, <2>1
    <2> QED  BY <1>6, <2>2 DEF Shortest
<1>7. ASSUME NEW x, NEW p, Shortest(V, L, p, a, x), Len(p) = d + 2
      PROVE  x \in next /\ x \notin s.seen
    <2> DEFINE u == Start(p)
               y == p[Len(p) - 1]
    <2>1. /\ Shortest(V, L, u, a, y) /\ Len(u) = Len(p) - 1 /\ << y, x >> \in L
        <3>1. Len(p) >= 2
            BY <1>7
        <3> QED  BY <1>7, <3>1, ShortestStart
    <2> HIDE DEF u, y
    <2>2. y \in s.here /\ x \in V
        <3>1. Len(u) = d + 1
            BY <1>7, <2>1
        <3> QED  BY <1>3, <1>7, <2>1, <3>1, RouteEnds DEF Shortest
    <2>3. \A q : Route(V, L, q, a, x) => d + 2 <= Len(q)
        BY <1>7 DEF Shortest
    <2>4. \A q : Route(V, L, q, a, x) => ~ (Len(q) <= d + 1)
        BY <1>4, <2>3
    <2> QED  BY <1>2, <1>3, <2>1, <2>2, <2>4
<1>8. \A x : x \in t.here <=> \E p : Shortest(V, L, p, a, x) /\ Len(p) = d + 2
    BY <1>1, <1>5, <1>6, <1>7
<1>9. ASSUME NEW x \in t.seen PROVE \E p : Route(V, L, p, a, x) /\ Len(p) <= d + 2
    <2>1. CASE x \in s.seen
        <3>1. PICK p : Route(V, L, p, a, x) /\ Len(p) <= d + 1
            BY <1>3, <2>1
        <3>2. Len(p) <= d + 2
            BY <1>4, <3>1
        <3> QED  BY <3>1, <3>2
    <2>2. CASE x \in next
        <3>1. PICK p : Route(V, L, p, a, x) /\ Len(p) = d + 2
            BY <1>5, <2>2
        <3>2. Len(p) <= d + 2
            BY <1>4, <3>1
        <3> QED  BY <3>1, <3>2
    <2> QED  BY <1>1, <2>1, <2>2
<1>10. ASSUME NEW x, NEW p, Route(V, L, p, a, x), Len(p) <= d + 2 PROVE x \in t.seen
    <2>1. PICK q : Shortest(V, L, q, a, x) /\ Len(q) <= Len(p)
        BY <1>10, SomeShortest
    <2>2. Route(V, L, q, a, x) /\ Len(q) \in Nat /\ Len(p) \in Nat
        BY <1>4, <1>10, <2>1 DEF Shortest
    <2>3. Len(q) <= d + 1 \/ Len(q) = d + 2
        BY <1>10, <2>1, <2>2
    <2>4. CASE Len(q) <= d + 1
        BY <1>1, <1>3, <2>2, <2>4
    <2>5. CASE Len(q) = d + 2
        BY <1>1, <1>7, <2>1, <2>5
    <2> QED  BY <2>3, <2>4, <2>5
<1>11. (d + 1) + 1 = d + 2
    OBVIOUS
<1> QED  BY <1>8, <1>9, <1>10, <1>11 DEF Layered, t

(* The tables met at a hop are those as many links away.                   *)
LEMMA ClosureIsAway ==
    ASSUME NEW g, NEW a \in Nodes(g), NEW n \in Nat, NEW L,
           \A l \in L : l = << l[1], l[2] >> /\ l[2] \in Nodes(g)
    PROVE  /\ DOMAIN Closure(g, a, n, L) = 1..n
           /\ \A d \in 1..n : \A x : x \in Closure(g, a, n, L)[d] <=>
                 \E p : Shortest(Nodes(g), L, p, a, x) /\ Len(p) = d + 1
<1> DEFINE V == Nodes(g)
<1>1. PICK R : Hops(R, n, L, a) /\ Closure(g, a, n, L) = [d \in 1..n |-> R[d].here]
    <2>1. \A l \in L : l[2] \in Nodes(g)
        OBVIOUS
    <2> QED  BY <2>1, ClosureHops
<1>2. /\ R[0] = [here |-> {a}, seen |-> {a}]
      /\ \A i \in 1..n : R[i] = Hopped(L, R[i - 1])
    BY <1>1 DEF Hops
<1> DEFINE P == {i \in 0..n : Layered(R[i], i, V, L, a)}
<1>3. 0 \in P
    BY <1>2, LayeredFirst
<1>4. ASSUME NEW i \in 0..n, i < n, i \in P PROVE i + 1 \in P
    <2>1. i + 1 \in 1..n /\ (i + 1) - 1 = i /\ i + 1 \in 0..n /\ i \in Nat
        BY <1>4
    <2>2. R[i + 1] = Hopped(L, R[i]) /\ Layered(R[i], i, V, L, a)
        BY <1>2, <1>4, <2>1
    <2>3. Layered(R[i + 1], i + 1, V, L, a)
        BY <2>1, <2>2, LayeredNext
    <2> QED  BY <2>1, <2>3
<1> HIDE DEF P
<1>5. \A i \in 0..n : i \in P
    BY <1>3, <1>4, Upto
<1>6. \A d \in 1..n : Layered(R[d], d, V, L, a)
    <2>1. \A d \in 1..n : d \in 0..n
        OBVIOUS
    <2> QED  BY <1>5, <2>1 DEF P
<1> QED  BY <1>1, <1>6 DEF Layered

-----------------------------------------------------------------------------
(* Plans.                                                                  *)

(* A shortest route read backwards is one along the links read backwards.  *)
LEMMA ShortestBack ==
    ASSUME NEW V, NEW L, NEW M, \A x, y : << x, y >> \in L <=> << y, x >> \in M,
           NEW a, NEW b, NEW p, Shortest(V, L, p, a, b)
    PROVE  Shortest(V, M, Reverse(p), b, a) /\ Len(Reverse(p)) = Len(p)
<1>1. Route(V, L, p, a, b) /\ \A q : Route(V, L, q, a, b) => Len(p) <= Len(q)
    BY DEF Shortest
<1>2. Route(V, M, Reverse(p), b, a) /\ Len(Reverse(p)) = Len(p)
    BY <1>1, ReversedRoute
<1>3. ASSUME NEW q, Route(V, M, q, b, a) PROVE Len(p) <= Len(q)
    <2>1. Route(V, L, Reverse(q), a, b) /\ Len(Reverse(q)) = Len(q)
        BY <1>3, ReversedRoute
    <2> QED  BY <1>1, <2>1
<1> QED  BY <1>2, <1>3 DEF Shortest

LEMMA IInvGrainsAreDual == ASSUME IInv PROVE GrainsAreDual
<1> DEFINE g == mgr.graph
           V == Nodes(g)
           L == DOMAIN g.edges
           M == {<< l[2], l[1] >> : l \in L}
           n == AllHops(g)
           coarser == [id \in V |-> ReachableFrom(g, id, n)]
           finer == [id \in V |-> MeasurableFrom(g, id, n)]
<1>1. /\ IsFiniteSet(V) /\ n \in Nat
      /\ \A l \in L : l = << l[1], l[2] >> /\ l[1] \in V /\ l[2] \in V
    <2>1. /\ IsFiniteSet(V)
          /\ \A l \in L : l = << l[1], l[2] >> /\ l[1] \in V /\ l[2] \in V
        BY FiniteNodes DEF IInv, ManagerIsAsReported
    <2> QED  BY <2>1, FS_CardinalityType DEF AllHops
<1>2. \A x, y : << x, y >> \in L <=> << y, x >> \in M
    <2>1. ASSUME NEW x, NEW y, << x, y >> \in L PROVE << y, x >> \in M
        <3>1. << x, y >>[1] = x /\ << x, y >>[2] = y
            OBVIOUS
        <3> QED  BY <2>1, <3>1
    <2>2. ASSUME NEW x, NEW y, << y, x >> \in M PROVE << x, y >> \in L
        <3>1. PICK l \in L : << y, x >> = << l[2], l[1] >>
            BY <2>2
        <3>2. l = << x, y >>
            BY <1>1, <3>1
        <3> QED  BY <3>2
    <2> QED  BY <2>1, <2>2
<1>3. \A m \in M : m = << m[1], m[2] >> /\ m[2] \in V
    BY <1>1
<1>4. ASSUME NEW a \in V, NEW d \in 1..n
      PROVE  /\ \A x : x \in coarser[a][d] <=> \E p : Shortest(V, L, p, a, x) /\ Len(p) = d + 1
             /\ \A x : x \in finer[a][d] <=> \E p : Shortest(V, M, p, a, x) /\ Len(p) = d + 1
    <2>1. coarser[a] = Closure(g, a, n, L) /\ finer[a] = Closure(g, a, n, M)
        BY DEF ReachableFrom, MeasurableFrom
    <2>2. \A x : x \in Closure(g, a, n, L)[d] <=> \E p : Shortest(V, L, p, a, x) /\ Len(p) = d + 1
        BY <1>1, ClosureIsAway
    <2> HIDE DEF M
    <2>3. \A x : x \in Closure(g, a, n, M)[d] <=> \E p : Shortest(V, M, p, a, x) /\ Len(p) = d + 1
        BY <1>1, <1>3, ClosureIsAway
    <2> QED  BY <2>1, <2>2, <2>3
<1> SUFFICES ASSUME NEW a \in V, NEW b \in V, NEW d \in 1..n
             PROVE  b \in coarser[a][d] <=> a \in finer[b][d]
    BY DEF GrainsAreDual
<1> HIDE DEF g, V, L, M, n, coarser, finer
<1>5. ASSUME b \in coarser[a][d] PROVE a \in finer[b][d]
    <2>1. PICK p : Shortest(V, L, p, a, b) /\ Len(p) = d + 1
        BY <1>4, <1>5
    <2>2. Shortest(V, M, Reverse(p), b, a) /\ Len(Reverse(p)) = Len(p)
        BY <1>2, <2>1, ShortestBack
    <2> QED  BY <1>4, <2>1, <2>2
<1>6. ASSUME a \in finer[b][d] PROVE b \in coarser[a][d]
    <2>1. PICK p : Shortest(V, M, p, b, a) /\ Len(p) = d + 1
        BY <1>4, <1>6
    <2>2. \A x, y : << x, y >> \in M <=> << y, x >> \in L
        BY <1>2
    <2>3. Shortest(V, L, Reverse(p), a, b) /\ Len(Reverse(p)) = Len(p)
        <3>1. Shortest(V, M, p, b, a)
            BY <2>1
        <3> QED  BY <2>2, <3>1, ShortestBack
    <2> QED  BY <1>4, <2>1, <2>3
<1> QED  BY <1>5, <1>6

(* The dimensions of a table are the others that keys lead to from it.     *)
LEMMA DimensionsAre ==
    ASSUME NEW g, NEW ts, WellBuilt(g, ts), NEW a \in Nodes(g)
    PROVE  \A x : x \in Dimensions(g, a) <=>
              x # a /\ \E p : Route(Nodes(g), DOMAIN g.edges, p, a, x)
<1> DEFINE V == Nodes(g)
           L == DOMAIN g.edges
           n == AllHops(g)
           C == Closure(g, a, n, L)
<1>1. /\ IsFiniteSet(V) /\ n \in Nat /\ n = Cardinality(V)
      /\ \A l \in L : l = << l[1], l[2] >> /\ l[2] \in V
    <2>1. /\ IsFiniteSet(V)
          /\ \A l \in L : l = << l[1], l[2] >> /\ l[2] \in V
        BY FiniteNodes
    <2> QED  BY <2>1, FS_CardinalityType DEF AllHops
<1>2. Dimensions(g, a) = UNION Range(C)
    BY DEF Dimensions, ReachableFrom
<1> HIDE DEF n
<1>3. /\ DOMAIN C = 1..n
      /\ \A d \in 1..n : \A x : x \in C[d] <=> \E p : Shortest(V, L, p, a, x) /\ Len(p) = d + 1
    BY <1>1, ClosureIsAway
<1> HIDE DEF C
<1>4. \A x : x \in Dimensions(g, a) <=> \E d \in 1..n : x \in C[d]
    BY <1>2, <1>3 DEF Range
<1> HIDE DEF L
<1>5. Route(V, L, << a >>, a, a) /\ Len(<< a >>) = 1
    BY DEF Route
<1>6. ASSUME NEW x, x \in Dimensions(g, a) PROVE x # a /\ \E p : Route(V, L, p, a, x)
    <2>1. PICK d \in 1..n : x \in C[d]
        BY <1>4, <1>6
    <2>2. PICK p : Shortest(V, L, p, a, x) /\ Len(p) = d + 1
        BY <1>3, <2>1
    <2>3. x = a => Len(p) <= 1
        BY <1>5, <2>2 DEF Shortest
    <2>4. ~ (Len(p) <= 1)
        BY <2>2
    <2> QED  BY <2>2, <2>3, <2>4 DEF Shortest
<1>7. ASSUME NEW x, x # a, NEW p, Route(V, L, p, a, x) PROVE x \in Dimensions(g, a)
    <2>1. PICK q : Shortest(V, L, q, a, x)
        BY <1>7, SomeShortest
    <2>2. Len(q) \in Nat /\ Len(q) <= n
        BY <1>1, <2>1, ShortestIsShort, RouteEnds DEF Shortest
    <2>3. q[1] = a /\ q[Len(q)] = x /\ Len(q) >= 1
        BY <2>1 DEF Shortest, Route
    <2>4. Len(q) # 1
        BY <1>7, <2>3
    <2> DEFINE d == Len(q) - 1
    <2>5. d \in 1..n /\ Len(q) = d + 1
        <3>1. \A k \in Nat : k <= n /\ k >= 1 /\ k # 1 => k - 1 \in 1..n /\ k = k - 1 + 1
            BY <1>1
        <3> QED  BY <2>2, <2>3, <2>4, <3>1
    <2> HIDE DEF d
    <2>6. x \in C[d]
        BY <1>3, <2>1, <2>5
    <2> QED  BY <1>4, <2>5, <2>6
<1> QED  BY <1>6, <1>7 DEF L

(* What is a dimension of a dimension is one.                              *)
LEMMA DimensionsFollow ==
    ASSUME NEW g, NEW ts, WellBuilt(g, ts), NEW a \in Nodes(g), NEW b \in Dimensions(g, a),
           NEW c \in Dimensions(g, b), c # a
    PROVE  c \in Dimensions(g, a)
<1> DEFINE V == Nodes(g)
           L == DOMAIN g.edges
<1>1. PICK p : Route(V, L, p, a, b)
    BY DimensionsAre
<1>2. b \in V
    BY <1>1, RouteEnds
<1>3. PICK q : Route(V, L, q, b, c)
    BY <1>2, DimensionsAre
<1>4. \E r : Route(V, L, r, a, c)
    BY <1>1, <1>3, JoinedRoutes
<1> QED  BY <1>4, DimensionsAre

(* Where no two facts are dimensions of each other, each is a root or a    *)
(* dimension of one: the one with the fewest facts behind it.              *)
LEMMA SomeRoot ==
    ASSUME NEW facts, IsFiniteSet(facts), NEW reach, NEW f \in facts,
           \A x \in facts : x \notin reach[x],
           \A x, y, z \in facts : y \in reach[x] /\ z \in reach[y] /\ z # x => z \in reach[x],
           \A x, y \in facts : x # y => ~ (x \in reach[y] /\ y \in reach[x])
    PROVE  LET root(r) == \A h \in facts \ {r} : r \notin reach[h]
           IN root(f) \/ \E r \in facts : root(r) /\ f \in reach[r]
<1> DEFINE root(r) == \A h \in facts \ {r} : r \notin reach[h]
           behind(r) == {k \in facts : r \in reach[k]}
           above == {h \in facts : f \in reach[h]}
           sizes == {Cardinality(behind(h)) : h \in above}
<1> SUFFICES ASSUME ~ root(f) PROVE \E r \in facts : root(r) /\ f \in reach[r]
    OBVIOUS
<1>1. \A r : IsFiniteSet(behind(r)) /\ Cardinality(behind(r)) \in Nat
    <2> SUFFICES ASSUME NEW r PROVE IsFiniteSet(behind(r)) /\ Cardinality(behind(r)) \in Nat
        OBVIOUS
    <2>1. behind(r) \subseteq facts
        OBVIOUS
    <2>2. IsFiniteSet(behind(r))
        BY <2>1, FS_Subset
    <2> QED  BY <2>2, FS_CardinalityType
<1> HIDE DEF behind
<1>2. PICK n \in sizes : \A m \in sizes : n <= m
    <2>1. sizes \subseteq Nat /\ sizes # {}
        BY <1>1
    <2> HIDE DEF sizes
    <2> QED  BY <2>1, Least
<1>3. PICK r \in above : \A h \in above : Cardinality(behind(r)) <= Cardinality(behind(h))
    <2>1. PICK r \in above : n = Cardinality(behind(r))
        BY <1>2
    <2>2. \A h \in above : Cardinality(behind(h)) \in sizes
        OBVIOUS
    <2> QED  BY <1>2, <2>1, <2>2
<1>4. ASSUME NEW h \in facts \ {r}, r \in reach[h] PROVE FALSE
    <2>1. h # f
        BY <1>3, <1>4
    <2>2. h \in above
        BY <1>3, <1>4, <2>1
    <2>3. behind(h) \subseteq behind(r)
        <3>1. ASSUME NEW k \in behind(h) PROVE k \in behind(r)
            <4>1. k \in facts /\ h \in reach[k]
                BY DEF behind
            <4>2. k # r
                BY <1>3, <1>4, <4>1
            <4> QED  BY <1>3, <1>4, <4>1, <4>2 DEF behind
        <3> QED  BY <3>1
    <2>4. h \in behind(r) /\ h \notin behind(h)
        BY <1>4 DEF behind
    <2>5. behind(h) # behind(r)
        BY <2>4
    <2>6. Cardinality(behind(h)) < Cardinality(behind(r))
        BY <1>1, <2>3, <2>5, FS_Subset
    <2>7. Cardinality(behind(r)) <= Cardinality(behind(h))
        BY <1>3, <2>2
    <2> QED  BY <1>1, <2>6, <2>7
<1>5. root(r) /\ r \in facts /\ f \in reach[r]
    BY <1>3, <1>4
<1> QED  BY <1>5

LEMMA IInvLegsCoverFacts == ASSUME IInv PROVE LegsCoverFacts
<1> DEFINE g == mgr.graph
<1> SUFFICES ASSUME NEW facts \in SUBSET Nodes(g)
             PROVE  LET plan == PlanComposite(g, facts, {})
                        reach == [id \in Nodes(g) |-> Dimensions(g, id)]
                        acyclic == \A f, h \in facts : f # h => ~(f \in reach[h] /\ h \in reach[f])
                    IN /\ acyclic => \A f \in facts : f \in plan.roots
                                       \/ \E r \in plan.roots : f \in plan.legs[r].dimensions
                       /\ \A r \in plan.roots : plan.roots \cap reach[r] \subseteq {r}
                       /\ \A r \in plan.roots : plan.conformed \cap plan.legs[r].nullPad = {}
                       /\ plan.composite => \A f \in facts : \E r \in plan.roots : r # f
    BY DEF LegsCoverFacts
<1> DEFINE plan == PlanComposite(g, facts, {})
           everywhere == [id \in Nodes(g) |-> Dimensions(g, id)]
           reach == [f \in facts |-> Dimensions(g, f)]
           roots == {f \in facts : \A h \in facts \ {f} : f \notin reach[h]}
           asked == UNION Range(reach)
<1>1. WellBuilt(g, Reported) /\ IsFiniteSet(facts)
    <2>1. WellBuilt(g, Reported)
        BY DEF IInv, ManagerIsAsReported
    <2>2. IsFiniteSet(Nodes(g))
        BY <2>1, FiniteNodes
    <2> QED  BY <2>1, <2>2, FS_Subset
<1>2. /\ plan.roots = roots /\ plan.composite = (Cardinality(roots) >= 2)
      /\ plan.conformed = {d \in asked : roots # {} /\ \A r \in roots : d \in reach[r]}
      /\ \A r \in roots : /\ plan.legs[r].dimensions = asked \cap reach[r]
                          /\ plan.legs[r].nullPad = asked \ reach[r]
    BY DEF PlanComposite
<1>3. \A x \in facts : reach[x] = Dimensions(g, x) /\ everywhere[x] = reach[x]
    OBVIOUS
<1>4. \A x \in facts : reach[x] \subseteq asked
    BY DEF Range
<1>5. \A x \in facts : x \notin reach[x]
    BY <1>1, <1>3, DimensionsAre
<1>6. \A x, y, z \in facts : y \in reach[x] /\ z \in reach[y] /\ z # x => z \in reach[x]
    BY <1>1, <1>3, DimensionsFollow
<1> HIDE DEF g, plan, everywhere, reach, asked
<1>7. ASSUME \A f, h \in facts : f # h => ~(f \in reach[h] /\ h \in reach[f]), NEW f \in facts
      PROVE  f \in roots \/ \E r \in roots : f \in plan.legs[r].dimensions
    <2>1. LET root(r) == \A h \in facts \ {r} : r \notin reach[h]
          IN root(f) \/ \E r \in facts : root(r) /\ f \in reach[r]
        BY <1>1, <1>5, <1>6, <1>7, SomeRoot
    <2>2. f \in roots \/ \E r \in roots : f \in reach[r]
        BY <2>1
    <2> QED  BY <1>2, <1>4, <2>2
<1>8. \A r \in roots : roots \cap reach[r] \subseteq {r}
    OBVIOUS
<1>9. \A r \in roots : plan.conformed \cap plan.legs[r].nullPad = {}
    BY <1>2
<1>10. ASSUME Cardinality(roots) >= 2, NEW f \in facts, \A r \in roots : r = f
       PROVE  FALSE
    <2>1. roots \subseteq {f} /\ IsFiniteSet({f}) /\ Cardinality({f}) = 1
        BY <1>10, FS_Singleton
    <2>2. IsFiniteSet(roots) /\ Cardinality(roots) <= 1
        BY <2>1, FS_Subset
    <2>3. Cardinality(roots) \in Nat
        BY <2>2, FS_CardinalityType
    <2> QED  BY <1>10, <2>2, <2>3
<1> HIDE DEF roots
<1>11. LET acyclic == \A f, h \in facts : f # h => ~(f \in everywhere[h] /\ h \in everywhere[f])
       IN /\ acyclic => \A f \in facts : f \in plan.roots
                          \/ \E r \in plan.roots : f \in plan.legs[r].dimensions
          /\ \A r \in plan.roots : plan.roots \cap everywhere[r] \subseteq {r}
          /\ \A r \in plan.roots : plan.conformed \cap plan.legs[r].nullPad = {}
          /\ plan.composite => \A f \in facts : \E r \in plan.roots : r # f
    <2>0. roots \subseteq facts
        BY DEF roots
    <2>1. \A r \in plan.roots : plan.roots \cap everywhere[r] \subseteq {r}
        BY <1>2, <1>3, <1>8, <2>0
    <2>2. \A r \in plan.roots : plan.conformed \cap plan.legs[r].nullPad = {}
        BY <1>2, <1>9
    <2>3. plan.composite => \A f \in facts : \E r \in plan.roots : r # f
        BY <1>2, <1>10
    <2>4. (\A f, h \in facts : f # h => ~(f \in everywhere[h] /\ h \in everywhere[f])) =>
            (\A f, h \in facts : f # h => ~(f \in reach[h] /\ h \in reach[f]))
        BY <1>3
    <2> QED  BY <1>2, <1>7, <2>1, <2>2, <2>3, <2>4
<1> QED  BY <1>11 DEF g, plan, everywhere

(* Grouping and aggregating are two readings of the same keys, and a plan  *)
(* over several facts leaves none out and counts none twice, for every     *)
(* graph the reports leave and every choice of facts.                      *)
THEOREM PlansStaySound == Spec => []PlansAreSound
<1>1. IInv => PlansAreSound
    BY IInvGrainsAreDual, IInvLegsCoverFacts DEF PlansAreSound
<1> QED  BY <1>1, GraphInvariant, PTL
=============================================================================
