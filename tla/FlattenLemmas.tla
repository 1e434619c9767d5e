---------------------------- MODULE FlattenLemmas ----------------------------
(***************************************************************************)
(* What FlattenSeq of SequencesExt does to a sequence that grows at its end. *)
(* It is defined by a recursive function; that such a function exists and    *)
(* what it returns is shown by induction over the natural numbers, in the    *)
(* form that speaks of a set of numbers.                                     *)
(***************************************************************************)
EXTENDS Integers, SequencesExt, SequenceTheorems, WellFoundedInduction, TLAPS

\* A set that has zero, and with each number the next, has every natural number.
LEMMA NatSetInduction ==
    ASSUME NEW T, 0 \in T, \A n \in Nat : n \in T => n + 1 \in T
    PROVE  Nat \subseteq T
<1> DEFINE D == Nat \ T
<1>1. IsWellFoundedOn(OpToRel(<, Nat), Nat)
  BY NatLessThanWellFounded
<1>2. ASSUME D # {} PROVE FALSE
  <2>1. PICK x \in D : \A y \in D : ~ (<<y, x>> \in OpToRel(<, Nat))
    BY <1>1, <1>2, WFMin, D \subseteq Nat, Zenon
  <2>2. x \in Nat /\ x \notin T /\ x # 0
    BY <2>1
  <2>3. x - 1 \in Nat /\ x - 1 < x
    BY <2>2
  <2>4. x - 1 \notin D
    BY <2>1, <2>2, <2>3 DEF OpToRel
  <2> QED BY <2>2, <2>3, <2>4
<1> QED BY <1>2

\* f joins the first n sequences of s, one after the other.
Joins(f, s, n) == f = [i \in 1..n |-> IF i = 1 THEN s[i] ELSE f[i - 1] \o s[i]]

\* There is such a function.
LEMMA JoinsExists ==
    ASSUME NEW s
    PROVE  \A n \in Nat : \E f : Joins(f, s, n)
<1> DEFINE T == {n \in Nat : \E f : Joins(f, s, n)}
<1>1. 0 \in T
  <2>1. Joins([i \in 1..0 |-> 0], s, 0)
    BY DEF Joins
  <2> QED BY <2>1
<1>2. ASSUME NEW n \in Nat, n \in T PROVE n + 1 \in T
  <2>1. PICK f : Joins(f, s, n)
    BY <1>2
  <2> DEFINE g == [i \in 1..(n + 1) |->
                      IF i = n + 1 THEN IF i = 1 THEN s[i] ELSE f[i - 1] \o s[i] ELSE f[i]]
  <2>2. \A i \in 1..n : f[i] = IF i = 1 THEN s[i] ELSE f[i - 1] \o s[i]
    BY <2>1, Zenon DEF Joins
  <2>3. \A i \in 1..(n + 1) : g[i] = IF i = 1 THEN s[i] ELSE g[i - 1] \o s[i]
    BY <2>2
  <2>4. g = [i \in 1..(n + 1) |-> IF i = 1 THEN s[i] ELSE g[i - 1] \o s[i]]
    <3> HIDE DEF g
    <3>1. DOMAIN g = 1..(n + 1) /\ g = [i \in 1..(n + 1) |-> g[i]]
      BY DEF g
    <3> QED BY <2>3, <3>1
  <2>5. Joins(g, s, n + 1)
    <3> HIDE DEF g
    <3> QED BY <2>4 DEF Joins
  <2>6. \E h : Joins(h, s, n + 1)
    <3> HIDE DEF g
    <3> QED BY <2>5
  <2> QED BY <2>6
<1>3. Nat \subseteq T
  <2> HIDE DEF T
  <2> QED BY <1>1, <1>2, NatSetInduction
<1> QED BY <1>3

\* What it joins depends on the sequences joined alone.
LEMMA JoinsAgree ==
    ASSUME NEW n \in Nat, NEW m \in Nat, NEW f, NEW g, NEW s, NEW t, n <= m,
           Joins(f, s, n), Joins(g, t, m), \A i \in 1..n : s[i] = t[i]
    PROVE  \A i \in 1..n : f[i] = g[i]
<1> DEFINE T == {i \in Nat : i \in 1..n => f[i] = g[i]}
<1>1. 0 \in T
  OBVIOUS
<1>2. ASSUME NEW k \in Nat, k \in T PROVE k + 1 \in T
  <2> SUFFICES ASSUME k + 1 \in 1..n PROVE f[k + 1] = g[k + 1]
    OBVIOUS
  <2>1. k + 1 \in 1..m
    OBVIOUS
  <2>2. f[k + 1] = IF k + 1 = 1 THEN s[k + 1] ELSE f[(k + 1) - 1] \o s[k + 1]
    BY Zenon DEF Joins
  <2>3. g[k + 1] = IF k + 1 = 1 THEN t[k + 1] ELSE g[(k + 1) - 1] \o t[k + 1]
    BY <2>1, Zenon DEF Joins
  <2>4. k # 0 => f[k] = g[k]
    BY <1>2
  <2> QED BY <2>2, <2>3, <2>4
<1>3. Nat \subseteq T
  <2> HIDE DEF T
  <2> QED BY <1>1, <1>2, NatSetInduction
<1> QED BY <1>3

\* FlattenSeq is what it joins in the end.
LEMMA FlattenJoins ==
    ASSUME NEW S, NEW s \in Seq(Seq(S)), s # << >>
    PROVE  \E f : Joins(f, s, Len(s)) /\ FlattenSeq(s) = f[Len(s)]
<1> DEFINE g == CHOOSE f : f = [i \in 1..Len(s) |-> IF i = 1 THEN s[i] ELSE f[i-1] \o s[i]]
<1>1. Len(s) \in Nat /\ Len(s) # 0
   BY EmptySeq
<1>2. FlattenSeq(s) = g[Len(s)]
   BY <1>1 DEF FlattenSeq
<1>3. \E f : f = [i \in 1..Len(s) |-> IF i = 1 THEN s[i] ELSE f[i-1] \o s[i]]
   BY <1>1, JoinsExists, Zenon DEF Joins
<1>4. g = [i \in 1..Len(s) |-> IF i = 1 THEN s[i] ELSE g[i-1] \o s[i]]
   BY <1>3
<1> HIDE DEF g
<1> QED BY <1>2, <1>4 DEF Joins

\* Of no sequences it is empty.
LEMMA FlattenEmpty == FlattenSeq(<< >>) = << >>
BY DEF FlattenSeq

\* Joined sequences over a set are one over that set.
LEMMA JoinsType ==
    ASSUME NEW S, NEW s \in Seq(Seq(S)), NEW f, Joins(f, s, Len(s))
    PROVE  \A i \in 1..Len(s) : f[i] \in Seq(S)
<1> DEFINE n == Len(s)
<1> DEFINE T == {i \in Nat : i \in 1..n => f[i] \in Seq(S)}
<1>1. 0 \in T
  OBVIOUS
<1>2. ASSUME NEW k \in Nat, k \in T PROVE k + 1 \in T
  <2> SUFFICES ASSUME k + 1 \in 1..n PROVE f[k + 1] \in Seq(S)
    OBVIOUS
  <2>2. f[k + 1] = IF k + 1 = 1 THEN s[k + 1] ELSE f[(k + 1) - 1] \o s[k + 1]
    BY Zenon DEF Joins
  <2>3. s[k + 1] \in Seq(S)
    OBVIOUS
  <2>4. k # 0 => f[k] \in Seq(S)
    BY <1>2
  <2>5. k # 0 => f[k] \o s[k + 1] \in Seq(S)
    BY <2>3, <2>4
  <2> QED BY <2>2, <2>3, <2>5
<1>3. Nat \subseteq T
  <2> HIDE DEF T
  <2> QED BY <1>1, <1>2, NatSetInduction
<1> QED BY <1>3

\* So FlattenSeq keeps to the set of the elements.
LEMMA FlattenType ==
    ASSUME NEW S, NEW s \in Seq(Seq(S))
    PROVE  FlattenSeq(s) \in Seq(S)
<1>1. CASE s = << >>
  BY <1>1, FlattenEmpty, EmptySeq
<1>2. CASE s # << >>
  BY <1>2, FlattenJoins, JoinsType, EmptySeq, LenProperties
<1> QED BY <1>1, <1>2

\* A sequence more at the end comes out at the end: what is appended to a stream
\* leaves alone what is there.
LEMMA FlattenAppend ==
    ASSUME NEW S, NEW s \in Seq(Seq(S)), NEW x \in Seq(S)
    PROVE  FlattenSeq(Append(s, x)) = FlattenSeq(s) \o x
<1> DEFINE t == Append(s, x)
           n == Len(s)
<1>1. t \in Seq(Seq(S)) /\ t # << >> /\ Len(t) = n + 1 /\ n \in Nat /\ t[n + 1] = x
  BY AppendProperties, LenProperties
<1>1a. \A i \in 1..n : s[i] = t[i]
  BY AppendProperties
<1> HIDE DEF t, n
<1>2. PICK g : Joins(g, t, n + 1) /\ FlattenSeq(t) = g[n + 1]
  BY <1>1, FlattenJoins
<1>3. g[n + 1] = IF n + 1 = 1 THEN t[n + 1] ELSE g[(n + 1) - 1] \o t[n + 1]
  <2>1. n + 1 \in 1..(n + 1)
    BY <1>1
  <2> QED BY <2>1, <1>2, Zenon DEF Joins
<1>4. CASE s = << >>
  <2>1. n = 0 /\ FlattenSeq(s) = << >>
    BY <1>4, FlattenEmpty DEF n
  <2> QED BY <2>1, <1>2, <1>3, <1>1, ConcatEmptySeq DEF t
<1>5. CASE s # << >>
  <2>1. PICK f : Joins(f, s, n) /\ FlattenSeq(s) = f[n]
    BY <1>5, FlattenJoins DEF n
  <2>2. n # 0
    BY <1>5, EmptySeq DEF n
  <2>3. \A i \in 1..n : f[i] = g[i]
    <3>1. n <= n + 1 /\ n + 1 \in Nat
      BY <1>1
    <3> DEFINE m == n + 1
    <3>2. n \in Nat /\ m \in Nat /\ n <= m /\ Joins(f, s, n) /\ Joins(g, t, m)
      BY <3>1, <1>1, <1>2, <2>1
    <3> HIDE DEF m
    <3> QED BY <3>2, <1>1a, JoinsAgree
  <2>4. f[n] = g[n]
    <3>1. n \in 1..n
      BY <2>2, <1>1
    <3> QED BY <3>1, <2>3, Zenon
  <2> QED BY <2>1, <2>2, <2>4, <1>1, <1>2, <1>3 DEF t
<1> QED BY <1>4, <1>5
=============================================================================
