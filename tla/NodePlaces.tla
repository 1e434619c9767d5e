----------------------------- MODULE NodePlaces ------------------------------
(***************************************************************************)
(* Proofs about the network of `Node`: what is in one place only.  A message *)
(* is in one place from the time it is sent, the right to use an end of a    *)
(* pipe is held by one handle or carried by one message, and each end of a   *)
(* pipe has one home.  Here are the invariant, what moving things from place *)
(* to place does to it, and the steps, one after the other; that they all    *)
(* keep the invariant, and what follows from it, is in NodePlaceProofs.      *)
(***************************************************************************)
EXTENDS NodeProofs
-----------------------------------------------------------------------------
(* Things in boxes.  V is a function from boxes to sequences of things, and  *)
(* a thing is the set of its marks.  When things are moved from box to box,  *)
(* a mark that was in one place is in one place still, and none is lost.     *)

\* Boxes B, for things with marks in M.
Shelves(B, M) == [B -> Seq(SUBSET M)]

\* No mark is in two places.
Once(V) ==
    \A b, c \in DOMAIN V : \A i \in DOMAIN V[b], j \in DOMAIN V[c] :
        V[b][i] \cap V[c][j] # {} => b = c /\ i = j

\* All the marks of a sequence of things,
MarksIn(s) == UNION {s[i] : i \in DOMAIN s}

\* and of all boxes.
Marks(V) == UNION {MarksIn(V[b]) : b \in DOMAIN V}

\* A mark is somewhere.
LEMMA MarksSomewhere ==
    ASSUME NEW V, NEW k
    PROVE  k \in Marks(V) <=> \E b \in DOMAIN V : \E i \in DOMAIN V[b] : k \in V[b][i]
BY DEF Marks, MarksIn

\* A thing is put at the end of box c.
Post(V, c, a) == [V EXCEPT ![c] = Append(@, a)]

\* If its marks are new, they are in one place.
LEMMA PostOnce ==
    ASSUME NEW M, NEW B, NEW V \in Shelves(B, M), Once(V),
           NEW c \in B, NEW a \in SUBSET M, a \cap Marks(V) = {}
    PROVE  /\ Post(V, c, a) \in Shelves(B, M) /\ Once(Post(V, c, a))
           /\ Marks(Post(V, c, a)) = Marks(V) \cup a
<1>t. V \in [B -> Seq(SUBSET M)]
  BY DEF Shelves
<1> DEFINE V2 == Post(V, c, a)
<1>a. V2 = [V EXCEPT ![c] = Append(@, a)]
  BY DEF Post
<1> HIDE DEF V2
<1> USE <1>a, <1>t
<1> DEFINE n == Len(V[c])
<1>0. \A k : k \in Marks(V2) <=> \E b1 \in DOMAIN V2 : \E i1 \in DOMAIN V2[b1] : k \in V2[b1][i1]
  BY DEF Marks, MarksIn
<1>1. V[c] \in Seq(SUBSET M) /\ n \in Nat /\ DOMAIN V = B /\ DOMAIN V2 = B
  OBVIOUS
<1>2. V2[c] = Append(V[c], a) /\ \A b \in B : b # c => V2[b] = V[b]
  OBVIOUS
<1>3. DOMAIN V2[c] = 1..(n + 1) /\ V2[c][n + 1] = a /\ DOMAIN V[c] = 1..n
  BY <1>1, <1>2
<1>4. \A i \in 1..n : V2[c][i] = V[c][i]
  BY <1>1, <1>2
<1>5. V2 \in Shelves(B, M)
  BY <1>1 DEF Shelves
<1>6. ASSUME NEW b \in B, NEW i \in DOMAIN V2[b]
      PROVE  \/ b = c /\ i = n + 1 /\ V2[b][i] = a
             \/ i \in DOMAIN V[b] /\ V2[b][i] = V[b][i] /\ V2[b][i] \subseteq Marks(V)
  <2>1. i \in DOMAIN V[b] => V[b][i] \subseteq Marks(V)
    BY <1>1 DEF Marks, MarksIn
  <2>2. CASE b # c
    BY <2>1, <2>2, <1>2
  <2>3. CASE b = c /\ i # n + 1
    <3>1. i \in 1..n
      BY <2>3, <1>3, <1>1
    <3> QED BY <3>1, <2>1, <2>3, <1>3, <1>4
  <2>4. CASE b = c /\ i = n + 1
    BY <2>4, <1>3
  <2> QED BY <2>2, <2>3, <2>4
<1> HIDE DEF n
<1>7. Once(V2)
  <2> SUFFICES ASSUME NEW b \in B, NEW d \in B, NEW i \in DOMAIN V2[b], NEW j \in DOMAIN V2[d],
                      V2[b][i] \cap V2[d][j] # {}
               PROVE  b = d /\ i = j
    BY <1>1 DEF Once
  <2>1. CASE i \in DOMAIN V[b] /\ j \in DOMAIN V[d] /\ V2[b][i] = V[b][i] /\ V2[d][j] = V[d][j]
    BY <2>1, <1>1 DEF Once
  <2> QED BY <2>1, <1>6
<1>8. ASSUME NEW k \in Marks(V) PROVE k \in Marks(V2)
  <2>0. PICK b \in B : \E i \in DOMAIN V[b] : k \in V[b][i]
    BY <1>1, <1>8, MarksSomewhere
  <2>1. PICK i \in DOMAIN V[b] : k \in V[b][i]
    BY <2>0
  <2>2. i \in DOMAIN V2[b] /\ V2[b][i] = V[b][i]
    BY <2>1, <1>1, <1>2, <1>3, <1>4
  <2> QED BY <2>1, <2>2, <1>1, MarksSomewhere
<1>9. ASSUME NEW k \in a PROVE k \in Marks(V2)
  <2>1. n + 1 \in DOMAIN V2[c]
    BY <1>1, <1>3
  <2> QED BY <2>1, <1>1, <1>3, MarksSomewhere
<1>10. ASSUME NEW k \in Marks(V2) PROVE k \in Marks(V) \cup a
  <2>0. PICK b \in B : \E i \in DOMAIN V2[b] : k \in V2[b][i]
    BY <1>0, <1>1, <1>10
  <2>1. PICK i \in DOMAIN V2[b] : k \in V2[b][i]
    BY <2>0
  <2> QED BY <2>1, <1>6
<1> QED BY <1>5, <1>7, <1>8, <1>9, <1>10 DEF V2

\* The first thing of box b is taken away.
Drop(V, b) == [V EXCEPT ![b] = Tail(@)]

\* Its marks are gone.
LEMMA DropOnce ==
    ASSUME NEW M, NEW B, NEW V \in Shelves(B, M), Once(V),
           NEW b \in B, V[b] # << >>
    PROVE  Drop(V, b) \in Shelves(B, M) /\ Once(Drop(V, b)) /\ Marks(Drop(V, b)) = Marks(V) \ Head(V[b])
<1>t. V \in [B -> Seq(SUBSET M)]
  BY DEF Shelves
<1> DEFINE V2 == Drop(V, b)
<1>a. V2 = [V EXCEPT ![b] = Tail(@)]
  BY DEF Drop
<1> HIDE DEF V2
<1> USE <1>a, <1>t
<1> DEFINE n == Len(V[b])
<1>0. \A k : k \in Marks(V2) <=> \E b1 \in DOMAIN V2 : \E i1 \in DOMAIN V2[b1] : k \in V2[b1][i1]
  BY DEF Marks, MarksIn
<1>1. V[b] \in Seq(SUBSET M) /\ n \in Nat \ {0} /\ DOMAIN V = B /\ DOMAIN V2 = B
  OBVIOUS
<1>2. V2[b] = Tail(V[b]) /\ \A c \in B : c # b => V2[c] = V[c]
  OBVIOUS
<1>3. /\ DOMAIN V2[b] = 1..(n - 1) /\ DOMAIN V[b] = 1..n
      /\ \A i \in 1..(n - 1) : V2[b][i] = V[b][i + 1]
      /\ Head(V[b]) = V[b][1]
  BY <1>1, <1>2
<1>4. V2 \in Shelves(B, M)
  BY <1>1 DEF Shelves
<1> HIDE DEF n
<1>5. ASSUME NEW c \in B, NEW i \in DOMAIN V2[c]
      PROVE  \/ c = b /\ i \in Nat /\ i + 1 \in DOMAIN V[c] /\ i + 1 # 1 /\ V2[c][i] = V[c][i + 1]
             \/ c # b /\ i \in DOMAIN V[c] /\ V2[c][i] = V[c][i]
  BY <1>1, <1>2, <1>3
<1>6. Once(V2)
  <2> SUFFICES ASSUME NEW c \in B, NEW d \in B, NEW i \in DOMAIN V2[c], NEW j \in DOMAIN V2[d],
                      V2[c][i] \cap V2[d][j] # {}
               PROVE  c = d /\ i = j
    BY <1>1 DEF Once
  <2>1. \A x, y \in B : \A k \in DOMAIN V[x], l \in DOMAIN V[y] :
            V[x][k] \cap V[y][l] # {} => x = y /\ k = l
    BY <1>1 DEF Once
  <2>2. CASE c = b /\ d = b
    BY <2>1, <2>2, <1>5
  <2>3. CASE c # b /\ d # b
    BY <2>1, <2>3, <1>5
  <2>4. CASE c = b /\ d # b
    BY <2>1, <2>4, <1>5
  <2>5. CASE c # b /\ d = b
    BY <2>1, <2>5, <1>5
  <2> QED BY <2>2, <2>3, <2>4, <2>5
<1>7. ASSUME NEW k \in Marks(V), k \notin Head(V[b]) PROVE k \in Marks(V2)
  <2>0. PICK c \in B : \E i \in DOMAIN V[c] : k \in V[c][i]
    BY <1>1, <1>7, MarksSomewhere
  <2>1. PICK i \in DOMAIN V[c] : k \in V[c][i]
    BY <2>0
  <2>2. CASE c # b
    BY <2>1, <2>2, <1>1, <1>2, MarksSomewhere
  <2>3. CASE c = b
    <3>1. i # 1
      BY <2>1, <2>3, <1>3, <1>7
    <3>2. i - 1 \in 1..(n - 1) /\ (i - 1) + 1 = i
      BY <3>1, <2>1, <2>3, <1>1, <1>3
    <3>3. i - 1 \in DOMAIN V2[b] /\ k \in V2[b][i - 1]
      BY <3>2, <2>1, <2>3, <1>3
    <3> QED BY <3>3, <1>1, MarksSomewhere
  <2> QED BY <2>2, <2>3
<1>8. ASSUME NEW k \in Marks(V2) PROVE k \in Marks(V) /\ k \notin Head(V[b])
  <2>0. PICK c \in B : \E i \in DOMAIN V2[c] : k \in V2[c][i]
    BY <1>0, <1>1, <1>8
  <2>1. PICK i \in DOMAIN V2[c] : k \in V2[c][i]
    BY <2>0
  <2>2. 1 \in DOMAIN V[b]
    BY <1>1, <1>3
  <2>3. PICK j \in DOMAIN V[c] : k \in V[c][j] /\ (c = b => j # 1)
    BY <2>1, <1>5
  <2>4. k \notin V[b][1]
    <3> SUFFICES ASSUME k \in V[b][1] PROVE FALSE
      OBVIOUS
    <3>1. V[b][1] \cap V[c][j] # {}
      BY <2>3
    <3> QED BY <3>1, <2>2, <2>3, <1>1 DEF Once
  <2> QED BY <2>3, <2>4, <1>1, <1>3, MarksSomewhere
<1> QED BY <1>4, <1>6, <1>7, <1>8 DEF V2

\* All of box b is put at the end of box c.
Pour(V, b, c) == [V EXCEPT ![b] = << >>, ![c] = @ \o V[b]]

\* No mark is lost or doubled.
LEMMA PourOnce ==
    ASSUME NEW M, NEW B, NEW V \in Shelves(B, M), Once(V),
           NEW b \in B, NEW c \in B, b # c
    PROVE  Pour(V, b, c) \in Shelves(B, M) /\ Once(Pour(V, b, c)) /\ Marks(Pour(V, b, c)) = Marks(V)
<1>t. V \in [B -> Seq(SUBSET M)]
  BY DEF Shelves
<1> DEFINE V2 == Pour(V, b, c)
<1>a. V2 = [V EXCEPT ![b] = << >>, ![c] = @ \o V[b]]
  BY DEF Pour
<1> HIDE DEF V2
<1>0. \A k : k \in Marks(V2) <=> \E b1 \in DOMAIN V2 : \E i1 \in DOMAIN V2[b1] : k \in V2[b1][i1]
  BY DEF Marks, MarksIn
<1> DEFINE n == Len(V[c])
           m == Len(V[b])
<1>1. /\ V[c] \in Seq(SUBSET M) /\ V[b] \in Seq(SUBSET M) /\ n \in Nat /\ m \in Nat
      /\ DOMAIN V = B /\ DOMAIN V2 = B
  BY <1>a, <1>t
<1>2. V2[b] = << >> /\ V2[c] = V[c] \o V[b] /\ \A d \in B : d # b /\ d # c => V2[d] = V[d]
  BY <1>a, <1>1, <1>t
<1>3. /\ DOMAIN V2[c] = 1..(n + m) /\ DOMAIN V[c] = 1..n /\ DOMAIN V[b] = 1..m /\ DOMAIN V2[b] = {}
      /\ \A i \in 1..(n + m) : V2[c][i] = IF i <= n THEN V[c][i] ELSE V[b][i - n]
  BY <1>1, <1>2
<1>4. V2 \in Shelves(B, M)
  <2>1. V[c] \o V[b] \in Seq(SUBSET M) /\ << >> \in Seq(SUBSET M)
    BY <1>1
  <2> QED BY <2>1, <1>1, <1>a, <1>t DEF Shelves
<1> HIDE DEF n, m
<1>5. ASSUME NEW d \in B, NEW i \in DOMAIN V2[d]
      PROVE  \/ /\ d = c /\ i \in Nat /\ i > n /\ i - n \in DOMAIN V[b]
                /\ V2[d][i] = V[b][i - n]
             \/ /\ d # b /\ i \in DOMAIN V[d] /\ V2[d][i] = V[d][i]
                /\ d = c => i \in Nat /\ i <= n
  <2>1. CASE d = c
    BY <2>1, <1>1, <1>3
  <2>2. CASE d # c
    BY <2>2, <1>1, <1>2, <1>3
  <2> QED BY <2>1, <2>2
<1>6. Once(V2)
  <2> SUFFICES ASSUME NEW x \in B, NEW y \in B, NEW i \in DOMAIN V2[x], NEW j \in DOMAIN V2[y],
                      V2[x][i] \cap V2[y][j] # {}
               PROVE  x = y /\ i = j
    BY <1>1 DEF Once
  <2>1. \A u, v \in B : \A k \in DOMAIN V[u], l \in DOMAIN V[v] :
            V[u][k] \cap V[v][l] # {} => u = v /\ k = l
    BY <1>1 DEF Once
  <2> DEFINE New(d, k) == /\ d = c /\ k \in Nat /\ k > n /\ k - n \in DOMAIN V[b]
                          /\ V2[d][k] = V[b][k - n]
             Old(d, k) == /\ d # b /\ k \in DOMAIN V[d] /\ V2[d][k] = V[d][k]
                          /\ d = c => k \in Nat /\ k <= n
  <2>2. (New(x, i) \/ Old(x, i)) /\ (New(y, j) \/ Old(y, j))
    BY <1>5
  <2>3. CASE Old(x, i) /\ Old(y, j)
    BY <2>1, <2>3
  <2>4. CASE New(x, i) /\ New(y, j)
    <3>1. i - n = j - n
      BY <2>1, <2>4
    <3> QED BY <3>1, <2>4, <1>1
  <2>5. CASE New(x, i) /\ Old(y, j)
    BY <2>1, <2>5
  <2>6. CASE Old(x, i) /\ New(y, j)
    BY <2>1, <2>6
  <2> QED BY <2>2, <2>3, <2>4, <2>5, <2>6
<1>7. ASSUME NEW k \in Marks(V) PROVE k \in Marks(V2)
  <2>0. PICK d \in B : \E i \in DOMAIN V[d] : k \in V[d][i]
    BY <1>1, <1>7, MarksSomewhere
  <2>1. PICK i \in DOMAIN V[d] : k \in V[d][i]
    BY <2>0
  <2>2. CASE d = c
    <3>1. i \in 1..(n + m) /\ i <= n
      BY <2>1, <2>2, <1>1, <1>3
    <3>2. k \in V2[c][i] /\ i \in DOMAIN V2[c]
      BY <3>1, <2>1, <2>2, <1>3
    <3> QED BY <3>2, <1>1, MarksSomewhere
  <2>3. CASE d = b
    <3>1. n + i \in 1..(n + m) /\ ~(n + i <= n) /\ (n + i) - n = i
      BY <2>1, <2>3, <1>1, <1>3
    <3>2. k \in V2[c][n + i] /\ n + i \in DOMAIN V2[c]
      BY <3>1, <2>1, <2>3, <1>3
    <3> QED BY <3>2, <1>1, MarksSomewhere
  <2>4. CASE d # c /\ d # b
    BY <2>1, <2>4, <1>1, <1>2, MarksSomewhere
  <2> QED BY <2>2, <2>3, <2>4
<1>8. ASSUME NEW k \in Marks(V2) PROVE k \in Marks(V)
  <2>0. PICK d \in B : \E i \in DOMAIN V2[d] : k \in V2[d][i]
    BY <1>0, <1>1, <1>8
  <2>1. PICK i \in DOMAIN V2[d] : k \in V2[d][i]
    BY <2>0
  <2>2. \E x \in B : \E j \in DOMAIN V[x] : k \in V[x][j]
    BY <2>1, <1>5
  <2> QED BY <2>2, <1>1, MarksSomewhere
<1> QED BY <1>4, <1>6, <1>7, <1>8 DEF V2

\* The first k of the boxes bs are poured into box c, one after the other.
Poured(V, bs, c, k) ==
    [x \in DOMAIN V |->
        IF x = c THEN V[c] \o FlattenSeq([i \in 1..k |-> V[bs[i]]])
        ELSE IF \E i \in 1..k : bs[i] = x THEN << >> ELSE V[x]]

\* No mark is lost or doubled, when each box is poured once.
LEMMA PouredOnce ==
    ASSUME NEW M, NEW B, NEW V \in Shelves(B, M), Once(V),
           NEW n \in Nat, NEW bs \in [1..n -> B], NEW c \in B,
           \A i \in 1..n : bs[i] # c, \A i, j \in 1..n : bs[i] = bs[j] => i = j
    PROVE  LET V2 == Poured(V, bs, c, n)
           IN V2 \in Shelves(B, M) /\ Once(V2) /\ Marks(V2) = Marks(V)
<1>t. V \in [B -> Seq(SUBSET M)]
  BY DEF Shelves
<1> DEFINE W(k) == Poured(V, bs, c, k)
           Good(k) == W(k) \in Shelves(B, M) /\ Once(W(k)) /\ Marks(W(k)) = Marks(V)
           T == {k \in Nat : k <= n => Good(k)}
<1>0. DOMAIN V = B /\ \A b \in B : V[b] \in Seq(SUBSET M)
  BY <1>t
<1>1. 0 \in T
  <2>1. [i \in 1..0 |-> V[bs[i]]] = << >>
    OBVIOUS
  <2>2. FlattenSeq([i \in 1..0 |-> V[bs[i]]]) = << >>
    BY <2>1, FlattenEmpty
  <2>3. V[c] \o << >> = V[c]
    BY <1>0, ConcatEmptySeq
  <2>4. W(0) = [x \in B |-> V[x]]
    BY <2>2, <2>3, <1>0 DEF Poured
  <2>5. W(0) = V
    BY <2>4, <1>t
  <2> HIDE DEF W
  <2> QED BY <2>5
<1>2. ASSUME NEW k \in Nat, k \in T PROVE k + 1 \in T
  <2> SUFFICES ASSUME k + 1 <= n PROVE Good(k + 1)
    OBVIOUS
  <2>1. Good(k) /\ k + 1 \in 1..n /\ 1..k \subseteq 1..n
    BY <1>2
  <2> DEFINE b == bs[k + 1]
             s == [i \in 1..k |-> V[bs[i]]]
             t == [i \in 1..(k + 1) |-> V[bs[i]]]
  <2>2. b \in B /\ b # c /\ \A i \in 1..k : bs[i] # b
    BY <2>1
  <2>3. s \in Seq(Seq(SUBSET M)) /\ V[b] \in Seq(SUBSET M) /\ Len(s) = k
    BY <2>1, <2>2, <1>0
  <2>4. t = Append(s, V[b])
    BY <2>3
  <2>5. FlattenSeq(t) = FlattenSeq(s) \o V[b] /\ FlattenSeq(s) \in Seq(SUBSET M)
    BY <2>3, <2>4, FlattenAppend, FlattenType
  <2>6. V[c] \o FlattenSeq(t) = (V[c] \o FlattenSeq(s)) \o V[b]
    <3>1. V[c] \in Seq(SUBSET M)
      BY <1>0
    <3>2. FlattenSeq(s) \in Seq(SUBSET M) /\ V[b] \in Seq(SUBSET M)
      BY <2>3, <2>5
    <3> DEFINE u == V[c]
               v == FlattenSeq(s)
               w == V[b]
    <3>3. u \in Seq(SUBSET M) /\ v \in Seq(SUBSET M) /\ w \in Seq(SUBSET M)
      BY <3>1, <3>2
    <3>4. FlattenSeq(t) = v \o w
      BY <2>5
    <3> HIDE DEF u, v, w
    <3>5. u \o (v \o w) = (u \o v) \o w
      BY <3>3, ConcatAssociative
    <3> HIDE DEF s, t, b
    <3> QED BY <3>4, <3>5 DEF u, v, w
  <2>7. W(k)[b] = V[b] /\ W(k)[c] = V[c] \o FlattenSeq(s)
    BY <2>2, <1>0 DEF Poured
  <2>8. W(k + 1) = [W(k) EXCEPT ![b] = << >>, ![c] = @ \o W(k)[b]]
    <3>1. DOMAIN W(k) = B /\ DOMAIN W(k + 1) = B
      BY <1>0 DEF Poured
    <3> DEFINE U == [W(k) EXCEPT ![b] = << >>, ![c] = @ \o W(k)[b]]
    <3>2. ASSUME NEW x \in B PROVE W(k + 1)[x] = U[x]
      <4>1. CASE x = c
        <5>1. W(k + 1)[c] = V[c] \o FlattenSeq(t)
          BY <1>0 DEF Poured
        <5>2. U[c] = W(k)[c] \o W(k)[b]
          BY <2>2, <3>1
        <5> QED BY <4>1, <5>1, <5>2, <2>6, <2>7
      <4>2. CASE x = b
        <5>1. W(k + 1)[b] = << >>
          BY <2>1, <2>2, <1>0 DEF Poured
        <5>2. U[b] = << >>
          BY <2>2, <3>1
        <5> QED BY <4>2, <5>1, <5>2
      <4>3. CASE x # c /\ x # b
        <5>1. (\E i \in 1..(k + 1) : bs[i] = x) <=> \E i \in 1..k : bs[i] = x
          BY <4>3
        <5>2. W(k + 1)[x] = W(k)[x]
          BY <4>3, <5>1, <1>0 DEF Poured
        <5>3. U[x] = W(k)[x]
          BY <4>3, <3>1
        <5> QED BY <5>2, <5>3
      <4> QED BY <4>1, <4>2, <4>3
    <3>3. DOMAIN U = B
      BY <3>1
    <3> DEFINE w2 == W(k + 1)
    <3>4. w2 = [x \in B |-> w2[x]]
      BY <1>0 DEF Poured
    <3>5. U = [x \in B |-> U[x]]
      BY <3>1
    <3>6. \A x \in B : w2[x] = U[x]
      BY <3>2
    <3> HIDE DEF w2, U
    <3>7. w2 = U
      BY <3>4, <3>5, <3>6
    <3> QED BY <3>7 DEF w2, U
  <2> DEFINE w == W(k)
             w2 == W(k + 1)
  <2>9. w \in Shelves(B, M) /\ Once(w) /\ w2 = Pour(w, b, c)
    BY <2>1, <2>8 DEF Pour
  <2> HIDE DEF w, w2, b
  <2>10. w2 \in Shelves(B, M) /\ Once(w2) /\ Marks(w2) = Marks(w)
    BY <2>2, <2>9, PourOnce
  <2> QED BY <2>1, <2>10 DEF w, w2
<1>3. Nat \subseteq T
  <2> HIDE DEF T
  <2> QED BY <1>1, <1>2, NatSetInduction
<1>4. Good(n)
  <2>1. n \in T
    BY <1>3
  <2> HIDE DEF Good
  <2> QED BY <2>1
<1> QED BY <1>4
-----------------------------------------------------------------------------
(* The places.  A message is marked with its number and with the ends whose  *)
(* handles it carries; an invitation and its answer with the name they will  *)
(* end, and the invitation with the end of the pipe it hands over.           *)

EndMark(e) == <<"end", e>>
MailMark(id) == <<"mail", id>>
InviteMark(k) == <<"invite", k>>

AllMarks ==
    {EndMark(e) : e \in Ends} \cup {MailMark(id) : id \in Ids}
    \cup {InviteMark(k) : k \in Keys}

\* The ends that descriptors hand over.
DescMarks(descs) == {EndMark(EndOf(d.name)) : d \in ToSet(descs)}

MailMarks(msg) == {MailMark(msg.id)} \cup DescMarks(msg.descs)

WireMarks(msg) ==
    IF msg.type = "USER" THEN MailMarks(msg)
    ELSE {InviteMark(msg.temporary)}
         \cup IF msg.type = "INVITE" THEN {EndMark(Partner(EndOf(msg.peer)))} ELSE {}

\* Who joins a network gets the end of the pipe to its inviter.
TaskMarks(task) ==
    IF task.op = "message" THEN MailMarks(task.msg)
    ELSE IF task.op = "joined" THEN {EndMark(EndOf(task.ep))} ELSE {}

GotMarks(id) == {MailMark(id)}

OnWire(w) == [i \in DOMAIN w |-> WireMarks(w[i])]
InMail(s) == [i \in DOMAIN s |-> MailMarks(s[i])]
InTasks(s) == [i \in DOMAIN s |-> TaskMarks(s[i])]
InGot(s) == [i \in DOMAIN s |-> GotMarks(s[i])]

\* What is queued on endpoint x of n, if there is one.
QueueOf(E, n, x) == IF x \in DOMAIN E[n] THEN E[n][x].queue ELSE << >>

WireBox(m, n) == <<"wire", m, n>>
QueueBox(n, x) == <<"queue", n, x>>
CallBox(n, t) == <<"call", n, t>>
TaskBox(n, t) == <<"task", n, t>>
GotBox(e) == <<"got", e, 0>>

Boxes ==
    ({"wire"} \X Nodes \X Nodes) \cup ({"queue"} \X Nodes \X Names)
    \cup ({"call"} \X Nodes \X AllThreads) \cup ({"task"} \X Nodes \X Threads)
    \cup ({"got"} \X Ends \X {0})

\* What is in them.
Contents(E, W, K, T, G) ==
    [b \in Boxes |->
        IF b[1] = "wire" THEN OnWire(W[b[2]][b[3]])
        ELSE IF b[1] = "queue" THEN InMail(QueueOf(E, b[2], b[3]))
        ELSE IF b[1] = "call" THEN InMail(K[b[2]][b[3]].msgs)
        ELSE IF b[1] = "task" THEN InTasks(T[b[2]][b[3]])
        ELSE InGot(G[b[2]])]

Stored == Contents(endpoints, wire, call, tasks, got)
-----------------------------------------------------------------------------
(* Endpoints.  E is the table of endpoints, P the pending invitations.      *)

\* Endpoint x of n is its end's present one: neither a proxy nor reserved.
Available(E, P, n, x) ==
    /\ x \in DOMAIN E[n]
    /\ E[n][x].state # "proxying"
    /\ \A k \in DOMAIN P[n] : P[n][k] # x

\* No endpoint has this name yet.
Unborn(E, y) == \A n \in Nodes : y \notin DOMAIN E[n]

\* The handles in msg are of different ends, and stay handles of their ends.
DistinctEnds(msg) ==
    /\ \A i, j \in DOMAIN msg.descs :
          EndOf(msg.descs[i].name) = EndOf(msg.descs[j].name) => i = j
    /\ \A d \in ToSet(msg.descs) : EndOf(d.cross) = EndOf(d.name)

\* The descriptors of msg are endpoints of n that are ready to be moved.
Fresh(E, P, n, msg) ==
    \A d \in ToSet(msg.descs) :
        Available(E, P, n, d.name) /\ E[n][d.name].state = "queueing" /\ Unborn(E, d.cross)

\* The descriptors of msg are endpoints of another node: msg was received.
Stale(E, n, msg) ==
    /\ msg.descs # << >>
    /\ \A d \in ToSet(msg.descs) : \E m \in Nodes \ {n} : d.name \in DOMAIN E[m]

\* The pipes recovered from the descriptors of msg are n's, and can be used.
PipesReady(E, P, n, msg) ==
    /\ DOMAIN msg.pipes = DOMAIN msg.descs
    /\ \A i \in DOMAIN msg.pipes :
          EndOf(msg.pipes[i]) = EndOf(msg.descs[i].name) /\ Available(E, P, n, msg.pipes[i])

\* End e is in a message or an invitation on a wire.
Travels(W, e) == \E m, n \in Nodes : EndMark(e) \in MarksIn(OnWire(W[m][n]))
-----------------------------------------------------------------------------
(* The parts of the invariant.  W is what is on the wires, C the channels,   *)
(* K the calls, T the tasks, H the handles held, V what is in the boxes.     *)

\* The messages sent are the ones that are somewhere.
Accounted(V, sentBy) ==
    \A id \in Ids : MailMark(id) \in Marks(V) <=> id[3] <= sentBy[EndOf(id)]

\* An end that is carried has been named.
EndsNamed(V, N) == \A e \in Ends : EndMark(e) \in Marks(V) => N[e] > 0

\* An end that is held is not carried, and is held once.
HeldOnce(E, P, H, V) ==
    \A n \in Nodes : \A x \in H[n] :
        /\ Available(E, P, n, x)
        /\ EndMark(EndOf(x)) \notin Marks(V)
        /\ \A m \in Nodes : \A y \in H[m] : EndOf(y) = EndOf(x) => y = x

\* A name is one node's.
NamesApart(E) == \A m, n \in Nodes : m # n => DOMAIN E[m] \cap DOMAIN E[n] = {}

\* What n may write: endpoints of its own that are ready to be moved, or, for
\* a received message that never left, endpoints of somebody else.
CallReady(E, P, n, msg) == DistinctEnds(msg) /\ (Fresh(E, P, n, msg) \/ Stale(E, n, msg))

\* What may wait on an endpoint of n.
QueueReady(E, P, n, msg) == CallReady(E, P, n, msg) /\ PipesReady(E, P, n, msg)

\* What a thread of n may run.
TaskReady(E, P, n, task) ==
    /\ task.op = "message" => DistinctEnds(task.msg) /\ PipesReady(E, P, n, task.msg)
    /\ task.op = "joined" => Available(E, P, n, task.ep)

\* What m may have written.
WireReady(E, m, msg) ==
    msg.type = "USER" =>
        /\ DistinctEnds(msg)
        /\ \A d \in ToSet(msg.descs) : d.name \in DOMAIN E[m] /\ Unborn(E, d.cross)

\* All that waits, is written, run and read is such.
QueuesReady(E, P) ==
    \A n \in Nodes : \A x \in DOMAIN E[n] : \A i \in DOMAIN E[n][x].queue :
        QueueReady(E, P, n, E[n][x].queue[i])

CallsReady(E, P, K) ==
    \A n \in Nodes : \A t \in AllThreads : \A i \in DOMAIN K[n][t].msgs :
        CallReady(E, P, n, K[n][t].msgs[i])

TasksReady(E, P, T) ==
    \A n \in Nodes : \A t \in Threads : \A i \in DOMAIN T[n][t] :
        TaskReady(E, P, n, T[n][t][i])

WiresReady(E, W) ==
    \A m, n \in Nodes : \A i \in DOMAIN W[m][n] : WireReady(E, m, W[m][n][i])

\* A thread with something to write is in a call, and has a channel for it.
CallsBound(C, K) ==
    \A n \in Nodes : \A t \in AllThreads :
        K[n][t].msgs # << >> => K[n][t].op # "idle" /\ K[n][t].dest \in DOMAIN C[n]

\* An invitation is pending until it has been answered.
InvitesPending(P, W) ==
    \A m, n \in Nodes : \A i \in DOMAIN W[m][n] :
        /\ W[m][n][i].type = "INVITE" => W[m][n][i].temporary \in DOMAIN P[m]
        /\ W[m][n][i].type = "ACCEPT" => W[m][n][i].temporary \in DOMAIN P[n]

\* An endpoint is reserved once, and left alone.
PendingReady(E, C, P) ==
    \A n \in Nodes : \A k \in DOMAIN P[n] :
        /\ k \in DOMAIN C[n]
        /\ P[n][k] \in DOMAIN E[n] /\ E[n][P[n][k]].state = "queueing"
        /\ \A l \in DOMAIN P[n] : P[n][l] = P[n][k] => l = k

\* A proxy has a channel to its target.
ProxiesReady(E, C) ==
    \A n \in Nodes : \A x \in DOMAIN E[n] :
        E[n][x].state = "proxying" => E[n][x].target.node \in DOMAIN C[n]

\* A node meets its inviter by its invitation.
Introductions(C, W) ==
    \A n, m \in Nodes :
        /\ Temporary(m) \in DOMAIN C[n] => <<n, m>> \in Invitations
        /\ <<m, n>> \in Invitations /\ m \in DOMAIN C[n] =>
              /\ Engaged(C, m, n)
              /\ \A i \in DOMAIN W[m][n] : W[m][n][i].type # "INVITE"

\* End e is on a wire, or at one endpoint of one node.
AtHome(E, P, W, e) ==
    \/ /\ Travels(W, e)
       /\ \A n \in Nodes : \A x \in DOMAIN E[n] : EndOf(x) = e => ~Available(E, P, n, x)
    \/ /\ ~Travels(W, e)
       /\ \E n \in Nodes : \E x \in DOMAIN E[n] :
             /\ Available(E, P, n, x) /\ EndOf(x) = e
             /\ \A m \in Nodes : \A y \in DOMAIN E[m] :
                   Available(E, P, m, y) /\ EndOf(y) = e => m = n /\ y = x

\* Every end of every pipe is.
AllAtHome(E, P, W, p) == \A e \in Ends : e[1] <= p => AtHome(E, P, W, e)

\* The inductive invariant, beside IndInv.
PlaceInv ==
    /\ Once(Stored)
    /\ Accounted(Stored, sent)
    /\ EndsNamed(Stored, names)
    /\ HeldOnce(endpoints, pending, held, Stored)
    /\ NamesApart(endpoints)
    /\ QueuesReady(endpoints, pending)
    /\ CallsReady(endpoints, pending, call)
    /\ TasksReady(endpoints, pending, tasks)
    /\ WiresReady(endpoints, wire)
    /\ CallsBound(channels, call)
    /\ InvitesPending(pending, wire)
    /\ PendingReady(endpoints, channels, pending)
    /\ ProxiesReady(endpoints, channels)
    /\ Introductions(channels, wire)
    /\ AllAtHome(endpoints, pending, wire, pipes)
-----------------------------------------------------------------------------
(* What a step does to the endpoints, in general: only ends in S are moved,  *)
(* and nothing else that waits hands over one of them.                      *)

OnlyMoves(E, P, E2, P2, S) ==
    \A n \in Nodes :
        /\ DOMAIN E[n] \subseteq DOMAIN E2[n]
        /\ \A x \in DOMAIN E2[n] : EndOf(x) \notin S =>
              /\ x \in DOMAIN E[n]
              /\ Available(E2, P2, n, x) <=> Available(E, P, n, x)
              /\ Available(E, P, n, x) /\ E[n][x].state = "queueing" =>
                    E2[n][x].state = "queueing"

\* msg hands over no end in S.
Clear(msg, S) == \A d \in ToSet(msg.descs) : EndOf(d.name) \notin S

\* Nothing that waits, is written, run or read does.
QueuesClear(E, S) ==
    \A n \in Nodes : \A x \in DOMAIN E[n] : \A i \in DOMAIN E[n][x].queue :
        Clear(E[n][x].queue[i], S)

CallsClear(K, S) ==
    \A n \in Nodes : \A t \in AllThreads : \A i \in DOMAIN K[n][t].msgs :
        Clear(K[n][t].msgs[i], S)

TasksClear(T, S) ==
    \A n \in Nodes : \A t \in Threads : \A i \in DOMAIN T[n][t] :
        /\ T[n][t][i].op = "message" => Clear(T[n][t][i].msg, S)
        /\ T[n][t][i].op = "joined" => EndOf(T[n][t][i].ep) \notin S

WiresClear(W, S) ==
    \A m, n \in Nodes : \A i \in DOMAIN W[m][n] :
        W[m][n][i].type = "USER" => Clear(W[m][n][i], S)

\* Where the marks of S are not, no end in S is handed over.
LEMMA AllClear ==
    ASSUME NEW E, NEW W, NEW K, NEW T, NEW G, NEW S,
           \A n \in Nodes : DOMAIN E[n] \subseteq Names,
           \A e \in S : EndMark(e) \notin Marks(Contents(E, W, K, T, G))
    PROVE  QueuesClear(E, S) /\ CallsClear(K, S) /\ TasksClear(T, S) /\ WiresClear(W, S)
<1> DEFINE V == Contents(E, W, K, T, G)
<1>1. ASSUME NEW b \in Boxes, NEW i \in DOMAIN V[b], NEW e \in S
      PROVE  EndMark(e) \notin V[b][i]
  <2>1. DOMAIN V = Boxes
    BY DEF Contents
  <2> HIDE DEF V
  <2>2. EndMark(e) \notin Marks(V)
    BY DEF V
  <2> QED BY <2>1, <2>2, MarksSomewhere
<1>2. ASSUME NEW msg, \A e \in S : EndMark(e) \notin MailMarks(msg)
      PROVE  Clear(msg, S)
  BY <1>2 DEF Clear, MailMarks, DescMarks
<1>3. QueuesClear(E, S)
  <2> SUFFICES ASSUME NEW n \in Nodes, NEW x \in DOMAIN E[n], NEW i \in DOMAIN E[n][x].queue
               PROVE  Clear(E[n][x].queue[i], S)
    BY DEF QueuesClear
  <2>1. QueueBox(n, x) \in Boxes
    BY DEF QueueBox, Boxes
  <2>2. V[QueueBox(n, x)] = InMail(E[n][x].queue)
    BY <2>1 DEF Contents, QueueBox, QueueOf
  <2> HIDE DEF V
  <2>3. i \in DOMAIN V[QueueBox(n, x)] /\ V[QueueBox(n, x)][i] = MailMarks(E[n][x].queue[i])
    BY <2>2 DEF InMail
  <2> QED BY <2>1, <2>3, <1>1, <1>2
<1>4. CallsClear(K, S)
  <2> SUFFICES ASSUME NEW n \in Nodes, NEW t \in AllThreads, NEW i \in DOMAIN K[n][t].msgs
               PROVE  Clear(K[n][t].msgs[i], S)
    BY DEF CallsClear
  <2>1. CallBox(n, t) \in Boxes
    BY DEF CallBox, Boxes
  <2>2. V[CallBox(n, t)] = InMail(K[n][t].msgs)
    BY <2>1 DEF Contents, CallBox
  <2> HIDE DEF V
  <2>3. i \in DOMAIN V[CallBox(n, t)] /\ V[CallBox(n, t)][i] = MailMarks(K[n][t].msgs[i])
    BY <2>2 DEF InMail
  <2> QED BY <2>1, <2>3, <1>1, <1>2
<1>5. TasksClear(T, S)
  <2> SUFFICES ASSUME NEW n \in Nodes, NEW t \in Threads, NEW i \in DOMAIN T[n][t]
               PROVE  /\ T[n][t][i].op = "message" => Clear(T[n][t][i].msg, S)
                      /\ T[n][t][i].op = "joined" => EndOf(T[n][t][i].ep) \notin S
    BY DEF TasksClear
  <2>1. TaskBox(n, t) \in Boxes
    BY DEF TaskBox, Boxes
  <2>2. V[TaskBox(n, t)] = InTasks(T[n][t])
    BY <2>1 DEF Contents, TaskBox
  <2> HIDE DEF V
  <2>3. i \in DOMAIN V[TaskBox(n, t)] /\ V[TaskBox(n, t)][i] = TaskMarks(T[n][t][i])
    BY <2>2 DEF InTasks
  <2>4. \A e \in S : EndMark(e) \notin TaskMarks(T[n][t][i])
    BY <2>1, <2>3, <1>1
  <2>5. ASSUME T[n][t][i].op = "message" PROVE Clear(T[n][t][i].msg, S)
    BY <2>4, <2>5, <1>2 DEF TaskMarks
  <2>6. ASSUME T[n][t][i].op = "joined" PROVE EndOf(T[n][t][i].ep) \notin S
    BY <2>4, <2>6 DEF TaskMarks
  <2> QED BY <2>5, <2>6
<1>6. WiresClear(W, S)
  <2> SUFFICES ASSUME NEW m \in Nodes, NEW n \in Nodes, NEW i \in DOMAIN W[m][n],
                      W[m][n][i].type = "USER"
               PROVE  Clear(W[m][n][i], S)
    BY DEF WiresClear
  <2>1. WireBox(m, n) \in Boxes
    BY DEF WireBox, Boxes
  <2>2. V[WireBox(m, n)] = OnWire(W[m][n])
    BY <2>1 DEF Contents, WireBox
  <2> HIDE DEF V
  <2>3. i \in DOMAIN V[WireBox(m, n)] /\ V[WireBox(m, n)][i] = WireMarks(W[m][n][i])
    BY <2>2 DEF OnWire
  <2>4. WireMarks(W[m][n][i]) = MailMarks(W[m][n][i])
    BY DEF WireMarks
  <2> QED BY <2>1, <2>3, <2>4, <1>1, <1>2
<1> QED BY <1>3, <1>4, <1>5, <1>6

\* What hands over no end in S stays ready when only ends in S are moved.
LEMMA MessageStays ==
    ASSUME NEW E, NEW P, NEW E2, NEW P2, NEW S, OnlyMoves(E, P, E2, P2, S),
           NEW n \in Nodes, NEW msg, DistinctEnds(msg), Clear(msg, S)
    PROVE  /\ Fresh(E, P, n, msg) => Fresh(E2, P2, n, msg)
           /\ Stale(E, n, msg) => Stale(E2, n, msg)
           /\ PipesReady(E, P, n, msg) => PipesReady(E2, P2, n, msg)
           /\ \A d \in ToSet(msg.descs) : Unborn(E, d.cross) => Unborn(E2, d.cross)
<1>1. \A d \in ToSet(msg.descs) : EndOf(d.name) \notin S /\ EndOf(d.cross) \notin S
  BY DEF DistinctEnds, Clear
<1>2. \A y : EndOf(y) \notin S /\ Unborn(E, y) => Unborn(E2, y)
  BY DEF OnlyMoves, Unborn
<1>3. \A y : EndOf(y) \notin S /\ Available(E, P, n, y) =>
          /\ Available(E2, P2, n, y)
          /\ E[n][y].state = "queueing" => E2[n][y].state = "queueing"
  <2> SUFFICES ASSUME NEW y, EndOf(y) \notin S, Available(E, P, n, y)
               PROVE  /\ Available(E2, P2, n, y)
                      /\ E[n][y].state = "queueing" => E2[n][y].state = "queueing"
    OBVIOUS
  <2>1. y \in DOMAIN E[n]
    BY DEF Available
  <2>2. y \in DOMAIN E2[n]
    BY <2>1 DEF OnlyMoves
  <2> QED BY <2>1, <2>2 DEF OnlyMoves
<1>4. Fresh(E, P, n, msg) => Fresh(E2, P2, n, msg)
  BY <1>1, <1>2, <1>3 DEF Fresh
<1>5. Stale(E, n, msg) => Stale(E2, n, msg)
  BY DEF Stale, OnlyMoves
<1>6. PipesReady(E, P, n, msg) => PipesReady(E2, P2, n, msg)
  <2> SUFFICES ASSUME PipesReady(E, P, n, msg), NEW i \in DOMAIN msg.pipes
               PROVE  EndOf(msg.pipes[i]) = EndOf(msg.descs[i].name)
                      /\ Available(E2, P2, n, msg.pipes[i])
    BY DEF PipesReady
  <2>1. EndOf(msg.pipes[i]) = EndOf(msg.descs[i].name) /\ Available(E, P, n, msg.pipes[i])
        /\ i \in DOMAIN msg.descs
    BY DEF PipesReady
  <2>2. msg.descs[i] \in ToSet(msg.descs)
    BY <2>1 DEF ToSet
  <2>3. EndOf(msg.pipes[i]) \notin S
    BY <2>1, <2>2, <1>1
  <2> QED BY <2>1, <2>3, <1>3
<1> QED BY <1>1, <1>2, <1>4, <1>5, <1>6

\* What is new in the queues, in the calls, in the tasks and on the wires is
\* ready.
QueuesGain(E, E2, P2) ==
    \A n \in Nodes : \A x \in DOMAIN E2[n] : \A i \in DOMAIN E2[n][x].queue :
        \/ /\ x \in DOMAIN E[n]
           /\ \E j \in DOMAIN E[n][x].queue : E2[n][x].queue[i] = E[n][x].queue[j]
        \/ QueueReady(E2, P2, n, E2[n][x].queue[i])

CallsGain(E2, P2, K, K2) ==
    \A n \in Nodes : \A t \in AllThreads : \A i \in DOMAIN K2[n][t].msgs :
        \/ \E j \in DOMAIN K[n][t].msgs : K2[n][t].msgs[i] = K[n][t].msgs[j]
        \/ CallReady(E2, P2, n, K2[n][t].msgs[i])

TasksGain(E2, P2, T, T2) ==
    \A n \in Nodes : \A t \in Threads : \A i \in DOMAIN T2[n][t] :
        \/ \E j \in DOMAIN T[n][t] : T2[n][t][i] = T[n][t][j]
        \/ TaskReady(E2, P2, n, T2[n][t][i])

WiresGain(E2, W, W2) ==
    \A m, n \in Nodes : \A i \in DOMAIN W2[m][n] :
        \/ \E j \in DOMAIN W[m][n] : W2[m][n][i] = W[m][n][j]
        \/ WireReady(E2, m, W2[m][n][i])

\* So the queues stay ready,
LEMMA QueuesStayReady ==
    ASSUME NEW E, NEW P, NEW E2, NEW P2, NEW S, OnlyMoves(E, P, E2, P2, S),
           QueuesReady(E, P), QueuesClear(E, S), QueuesGain(E, E2, P2)
    PROVE  QueuesReady(E2, P2)
<1> SUFFICES ASSUME NEW n \in Nodes, NEW x \in DOMAIN E2[n], NEW i \in DOMAIN E2[n][x].queue
             PROVE  QueueReady(E2, P2, n, E2[n][x].queue[i])
  BY DEF QueuesReady
<1>1. CASE /\ x \in DOMAIN E[n]
           /\ \E j \in DOMAIN E[n][x].queue : E2[n][x].queue[i] = E[n][x].queue[j]
  <2>1. PICK j \in DOMAIN E[n][x].queue : E2[n][x].queue[i] = E[n][x].queue[j]
    BY <1>1
  <2> DEFINE msg == E[n][x].queue[j]
  <2>2. QueueReady(E, P, n, msg) /\ Clear(msg, S)
    BY <1>1 DEF QueuesReady, QueuesClear
  <2> HIDE DEF msg
  <2>3. QueueReady(E2, P2, n, msg)
    BY <2>2, MessageStays DEF QueueReady, CallReady
  <2> QED BY <2>1, <2>3 DEF msg
<1>2. CASE QueueReady(E2, P2, n, E2[n][x].queue[i])
  BY <1>2
<1> QED BY <1>1, <1>2 DEF QueuesGain

\* the calls,
LEMMA CallsStayReady ==
    ASSUME NEW E, NEW P, NEW E2, NEW P2, NEW S, OnlyMoves(E, P, E2, P2, S),
           NEW K, NEW K2, CallsReady(E, P, K), CallsClear(K, S),
           CallsGain(E2, P2, K, K2)
    PROVE  CallsReady(E2, P2, K2)
<1> SUFFICES ASSUME NEW n \in Nodes, NEW t \in AllThreads, NEW i \in DOMAIN K2[n][t].msgs
             PROVE  CallReady(E2, P2, n, K2[n][t].msgs[i])
  BY DEF CallsReady
<1>1. CASE \E j \in DOMAIN K[n][t].msgs : K2[n][t].msgs[i] = K[n][t].msgs[j]
  <2>1. PICK j \in DOMAIN K[n][t].msgs : K2[n][t].msgs[i] = K[n][t].msgs[j]
    BY <1>1
  <2> DEFINE msg == K[n][t].msgs[j]
  <2>2. CallReady(E, P, n, msg) /\ Clear(msg, S)
    BY DEF CallsReady, CallsClear
  <2> HIDE DEF msg
  <2>3. CallReady(E2, P2, n, msg)
    BY <2>2, MessageStays DEF CallReady
  <2> QED BY <2>1, <2>3 DEF msg
<1>2. CASE CallReady(E2, P2, n, K2[n][t].msgs[i])
  BY <1>2
<1> QED BY <1>1, <1>2 DEF CallsGain

\* the tasks,
LEMMA TasksStayReady ==
    ASSUME NEW E, NEW P, NEW E2, NEW P2, NEW S, OnlyMoves(E, P, E2, P2, S),
           NEW T, NEW T2, TasksReady(E, P, T), TasksClear(T, S),
           TasksGain(E2, P2, T, T2)
    PROVE  TasksReady(E2, P2, T2)
<1> SUFFICES ASSUME NEW n \in Nodes, NEW t \in Threads, NEW i \in DOMAIN T2[n][t]
             PROVE  TaskReady(E2, P2, n, T2[n][t][i])
  BY DEF TasksReady
<1>1. CASE \E j \in DOMAIN T[n][t] : T2[n][t][i] = T[n][t][j]
  <2>1. PICK j \in DOMAIN T[n][t] : T2[n][t][i] = T[n][t][j]
    BY <1>1
  <2> DEFINE task == T[n][t][j]
  <2>2. /\ TaskReady(E, P, n, task)
        /\ task.op = "message" => Clear(task.msg, S)
        /\ task.op = "joined" => EndOf(task.ep) \notin S
    BY DEF TasksReady, TasksClear
  <2> HIDE DEF task
  <2>3. ASSUME task.op = "message"
        PROVE  DistinctEnds(task.msg) /\ PipesReady(E2, P2, n, task.msg)
    BY <2>2, <2>3, MessageStays DEF TaskReady
  <2>4. ASSUME task.op = "joined" PROVE Available(E2, P2, n, task.ep)
    <3>1. Available(E, P, n, task.ep) /\ EndOf(task.ep) \notin S
      BY <2>2, <2>4 DEF TaskReady
    <3>2. task.ep \in DOMAIN E[n] /\ task.ep \in DOMAIN E2[n]
      BY <3>1 DEF Available, OnlyMoves
    <3> QED BY <3>1, <3>2 DEF OnlyMoves
  <2> QED BY <2>1, <2>3, <2>4 DEF task, TaskReady
<1>2. CASE TaskReady(E2, P2, n, T2[n][t][i])
  BY <1>2
<1> QED BY <1>1, <1>2 DEF TasksGain

\* and the wires.
LEMMA WiresStayReady ==
    ASSUME NEW E, NEW P, NEW E2, NEW P2, NEW S, OnlyMoves(E, P, E2, P2, S),
           NEW W, NEW W2, WiresReady(E, W), WiresClear(W, S),
           WiresGain(E2, W, W2)
    PROVE  WiresReady(E2, W2)
<1> SUFFICES ASSUME NEW m \in Nodes, NEW n \in Nodes, NEW i \in DOMAIN W2[m][n]
             PROVE  WireReady(E2, m, W2[m][n][i])
  BY DEF WiresReady
<1>1. CASE \E j \in DOMAIN W[m][n] : W2[m][n][i] = W[m][n][j]
  <2>1. PICK j \in DOMAIN W[m][n] : W2[m][n][i] = W[m][n][j]
    BY <1>1
  <2> DEFINE msg == W[m][n][j]
  <2>2. WireReady(E, m, msg) /\ (msg.type = "USER" => Clear(msg, S))
    BY DEF WiresReady, WiresClear
  <2> HIDE DEF msg
  <2>3. ASSUME msg.type = "USER" PROVE WireReady(E2, m, msg)
    <3>1. DistinctEnds(msg) /\ Clear(msg, S)
          /\ \A d \in ToSet(msg.descs) : d.name \in DOMAIN E[m] /\ Unborn(E, d.cross)
      BY <2>2, <2>3 DEF WireReady
    <3>2. \A d \in ToSet(msg.descs) : Unborn(E, d.cross) => Unborn(E2, d.cross)
      BY <3>1, MessageStays
    <3>3. DOMAIN E[m] \subseteq DOMAIN E2[m]
      BY DEF OnlyMoves
    <3> QED BY <3>1, <3>2, <3>3 DEF WireReady
  <2>4. WireReady(E2, m, msg)
    BY <2>3 DEF WireReady
  <2> QED BY <2>1, <2>4 DEF msg
<1>2. CASE WireReady(E2, m, W2[m][n][i])
  BY <1>2
<1> QED BY <1>1, <1>2 DEF WiresGain

\* Node n may gain the handles in X; the others may be given up.
HandsOver(E2, P2, H, H2, V2, n, X) ==
    /\ \A m \in Nodes : m # n => H2[m] = H[m]
    /\ H2[n] \subseteq H[n] \cup X
    /\ \A m \in Nodes : \A x \in H[m] : x \in H2[m] =>
          Available(E2, P2, m, x) /\ EndMark(EndOf(x)) \notin Marks(V2)
    /\ \A x \in X :
          /\ Available(E2, P2, n, x) /\ EndMark(EndOf(x)) \notin Marks(V2)
          /\ \A m \in Nodes : \A y \in H[m] : EndOf(y) # EndOf(x)
          /\ \A y \in X : EndOf(y) = EndOf(x) => y = x

\* Each end is still held once.
LEMMA HeldStays ==
    ASSUME NEW E, NEW P, NEW H, NEW V, HeldOnce(E, P, H, V),
           NEW E2, NEW P2, NEW H2, NEW V2, NEW n \in Nodes, NEW X,
           HandsOver(E2, P2, H, H2, V2, n, X)
    PROVE  HeldOnce(E2, P2, H2, V2)
<1> SUFFICES ASSUME NEW k \in Nodes, NEW x \in H2[k]
             PROVE  /\ Available(E2, P2, k, x)
                    /\ EndMark(EndOf(x)) \notin Marks(V2)
                    /\ \A m \in Nodes : \A y \in H2[m] : EndOf(y) = EndOf(x) => y = x
  BY DEF HeldOnce
<1>1. Available(E2, P2, k, x) /\ EndMark(EndOf(x)) \notin Marks(V2)
  BY DEF HandsOver
<1>2. ASSUME NEW m \in Nodes, NEW y \in H2[m], EndOf(y) = EndOf(x) PROVE y = x
  <2>1. \/ x \in H[k]
        \/ k = n /\ x \in X
    BY DEF HandsOver
  <2>2. \/ y \in H[m]
        \/ m = n /\ y \in X
    BY DEF HandsOver
  <2> QED BY <1>2, <2>1, <2>2 DEF HeldOnce, HandsOver
<1> QED BY <1>1, <1>2

\* What is written is ready when nothing is new.
LEMMA NothingNew ==
    ASSUME NEW E, NEW P, NEW K, NEW T, NEW W
    PROVE  QueuesGain(E, E, P) /\ CallsGain(E, P, K, K) /\ TasksGain(E, P, T, T) /\ WiresGain(E, W, W)
BY DEF QueuesGain, CallsGain, TasksGain, WiresGain

\* Where the marks of what is moved are not, all that is ready stays ready.
LEMMA AllStayReady ==
    ASSUME NEW E, NEW P, NEW W, NEW K, NEW T, NEW G, NEW E2, NEW P2, NEW W2, NEW K2, NEW T2, NEW S,
           \A n \in Nodes : DOMAIN E[n] \subseteq Names,
           \A e \in S : EndMark(e) \notin Marks(Contents(E, W, K, T, G)),
           OnlyMoves(E, P, E2, P2, S),
           QueuesReady(E, P), CallsReady(E, P, K), TasksReady(E, P, T), WiresReady(E, W),
           QueuesGain(E, E2, P2), CallsGain(E2, P2, K, K2), TasksGain(E2, P2, T, T2),
           WiresGain(E2, W, W2)
    PROVE  /\ QueuesReady(E2, P2) /\ CallsReady(E2, P2, K2)
           /\ TasksReady(E2, P2, T2) /\ WiresReady(E2, W2)
<1>1. QueuesClear(E, S) /\ CallsClear(K, S) /\ TasksClear(T, S) /\ WiresClear(W, S)
  BY AllClear
<1>2. QueuesReady(E2, P2)
  BY <1>1, QueuesStayReady
<1>3. CallsReady(E2, P2, K2)
  BY <1>1, CallsStayReady
<1>4. TasksReady(E2, P2, T2)
  BY <1>1, TasksStayReady
<1>5. WiresReady(E2, W2)
  BY <1>1, WiresStayReady
<1> QED BY <1>2, <1>3, <1>4, <1>5

\* The ends in S and those of new pipes are at home again; nothing is done
\* to the others.
HomesMove(E2, P2, W, W2, p, p2, S) ==
    /\ \A e \in Ends : e[1] <= p2 => e[1] <= p \/ e \in S
    /\ \A e \in Ends \ S : Travels(W2, e) <=> Travels(W, e)
    /\ \A e \in S \cap Ends : AtHome(E2, P2, W2, e)

\* An end that is not moved, by an endpoint or on a wire, stays at home.
LEMMA HomesStay ==
    ASSUME NEW E, NEW P, NEW W, NEW p, AllAtHome(E, P, W, p),
           NEW E2, NEW P2, NEW W2, NEW p2, NEW S, OnlyMoves(E, P, E2, P2, S),
           HomesMove(E2, P2, W, W2, p, p2, S)
    PROVE  AllAtHome(E2, P2, W2, p2)
<1> SUFFICES ASSUME NEW e \in Ends, e[1] <= p2, e \notin S
             PROVE  AtHome(E2, P2, W2, e)
  BY DEF AllAtHome, HomesMove
<1>1. AtHome(E, P, W, e) /\ (Travels(W2, e) <=> Travels(W, e))
  BY DEF AllAtHome, HomesMove
<1>2. \A n \in Nodes : \A x \in DOMAIN E2[n] : EndOf(x) = e =>
          x \in DOMAIN E[n] /\ (Available(E2, P2, n, x) <=> Available(E, P, n, x))
  BY DEF OnlyMoves
<1>3. \A n \in Nodes : DOMAIN E[n] \subseteq DOMAIN E2[n]
  BY DEF OnlyMoves
<1>4. CASE Travels(W, e)
  BY <1>1, <1>2, <1>4 DEF AtHome
<1>5. CASE ~Travels(W, e)
  <2>1. PICK n \in Nodes : \E x \in DOMAIN E[n] :
             /\ Available(E, P, n, x) /\ EndOf(x) = e
             /\ \A m \in Nodes : \A y \in DOMAIN E[m] :
                   Available(E, P, m, y) /\ EndOf(y) = e => m = n /\ y = x
    BY <1>1, <1>5 DEF AtHome
  <2>2. PICK x \in DOMAIN E[n] :
             /\ Available(E, P, n, x) /\ EndOf(x) = e
             /\ \A m \in Nodes : \A y \in DOMAIN E[m] :
                   Available(E, P, m, y) /\ EndOf(y) = e => m = n /\ y = x
    BY <2>1
  <2>3. x \in DOMAIN E2[n] /\ Available(E2, P2, n, x)
    BY <2>2, <1>2, <1>3
  <2>4. \A m \in Nodes : \A y \in DOMAIN E2[m] :
            Available(E2, P2, m, y) /\ EndOf(y) = e => m = n /\ y = x
    BY <2>2, <1>2
  <2> QED BY <1>1, <1>5, <2>2, <2>3, <2>4 DEF AtHome
<1> QED BY <1>4, <1>5
-----------------------------------------------------------------------------
(* The boxes.                                                               *)

\* Every mark of a message is a mark,
LEMMA MailMarked ==
    ASSUME NEW E, NEW N, NEW msg \in Mail(E, N)
    PROVE  MailMarks(msg) \in SUBSET AllMarks
<1>1. msg.id \in Ids /\ msg.descs \in Seq(Carried(E, N))
  BY DEF Mail
<1>2. ToSet(msg.descs) \subseteq Carried(E, N)
  BY <1>1, ToSetFacts
<1>3. \A d \in ToSet(msg.descs) : EndOf(d.name) \in Ends
  BY <1>2, EndsFit DEF Carried
<1> QED BY <1>1, <1>3 DEF MailMarks, DescMarks, AllMarks

\* on a wire
LEMMA TrafficMarked ==
    ASSUME NEW E, NEW N, NEW C, NEW P, NEW m \in Nodes, NEW n \in Nodes,
           \A k \in Nodes : DOMAIN E[k] \subseteq Names,
           NEW msg \in Traffic(E, N, C, P, m, n)
    PROVE  WireMarks(msg) \in SUBSET AllMarks
<1>1. CASE msg \in RoutedMail(E, N)
  <2>1. msg \in Mail(E, N) /\ msg.type = "USER"
    BY <1>1 DEF RoutedMail, Mail
  <2> QED BY <2>1, MailMarked DEF WireMarks
<1>2. CASE msg \in Invites(E, N, C, P, m, n)
  <2>1. msg.type = "INVITE" /\ msg.temporary = Temporary(n) /\ msg.peer \in DOMAIN E[m]
    BY <1>2 DEF Invites
  <2>2. Temporary(n) \in Keys /\ Partner(EndOf(msg.peer)) \in Ends
    BY <2>1, EndsFit, TemporaryFacts
  <2>3. WireMarks(msg) = {InviteMark(Temporary(n)), EndMark(Partner(EndOf(msg.peer)))}
    BY <2>1 DEF WireMarks
  <2> QED BY <2>2, <2>3 DEF AllMarks
<1>3. CASE msg \in Accepts(E, C, P, n, m)
  <2>1. msg.type = "ACCEPT" /\ msg.temporary = Temporary(m)
    BY <1>3 DEF Accepts
  <2>2. Temporary(m) \in Keys
    BY TemporaryFacts
  <2>3. WireMarks(msg) = {InviteMark(Temporary(m))}
    BY <2>1 DEF WireMarks
  <2> QED BY <2>2, <2>3 DEF AllMarks
<1> QED BY <1>1, <1>2, <1>3 DEF Traffic

\* and in a task.
LEMMA TaskMarked ==
    ASSUME NEW E, NEW N, NEW n \in Nodes, DOMAIN E[n] \subseteq Names,
           NEW task \in Tasks(E, N, n)
    PROVE  TaskMarks(task) \in SUBSET AllMarks
<1>1. CASE task.op = "message"
  <2>1. task.msg \in Mail(E, N)
    BY <1>1 DEF Tasks
  <2> QED BY <1>1, <2>1, MailMarked DEF TaskMarks
<1>2. CASE task.op = "joined"
  <2>1. task.ep \in Names
    BY <1>2 DEF Tasks
  <2>2. EndOf(task.ep) \in Ends
    BY <2>1, EndsFit
  <2> QED BY <1>2, <2>2 DEF TaskMarks, AllMarks
<1>3. CASE task.op # "message" /\ task.op # "joined"
  BY <1>3 DEF TaskMarks
<1> QED BY <1>1, <1>2, <1>3

\* What is on a wire or waits is a sequence, and so is what is in its box.
LEMMA InBoxes ==
    ASSUME NEW S, NEW s \in Seq(S)
    PROVE  /\ (\A x \in S : WireMarks(x) \in SUBSET AllMarks) => OnWire(s) \in Seq(SUBSET AllMarks)
           /\ (\A x \in S : MailMarks(x) \in SUBSET AllMarks) => InMail(s) \in Seq(SUBSET AllMarks)
           /\ (\A x \in S : TaskMarks(x) \in SUBSET AllMarks) => InTasks(s) \in Seq(SUBSET AllMarks)
           /\ S \subseteq Ids => InGot(s) \in Seq(SUBSET AllMarks)
<1>1. Len(s) \in Nat /\ DOMAIN s = 1..Len(s) /\ \A i \in 1..Len(s) : s[i] \in S
  OBVIOUS
<1>2. ASSUME NEW f, DOMAIN f = 1..Len(s), f = [i \in DOMAIN f |-> f[i]],
             \A i \in 1..Len(s) : f[i] \in SUBSET AllMarks
      PROVE  f \in Seq(SUBSET AllMarks)
  <2>1. f \in [1..Len(s) -> SUBSET AllMarks]
    BY <1>2
  <2> QED BY <1>1, <2>1
<1>3. ASSUME \A x \in S : WireMarks(x) \in SUBSET AllMarks PROVE OnWire(s) \in Seq(SUBSET AllMarks)
  <2>1. /\ DOMAIN OnWire(s) = 1..Len(s) /\ OnWire(s) = [i \in DOMAIN OnWire(s) |-> OnWire(s)[i]]
        /\ \A i \in 1..Len(s) : OnWire(s)[i] = WireMarks(s[i])
    BY <1>1 DEF OnWire
  <2> QED BY <1>1, <1>2, <1>3, <2>1
<1>4. ASSUME \A x \in S : MailMarks(x) \in SUBSET AllMarks PROVE InMail(s) \in Seq(SUBSET AllMarks)
  <2>1. /\ DOMAIN InMail(s) = 1..Len(s) /\ InMail(s) = [i \in DOMAIN InMail(s) |-> InMail(s)[i]]
        /\ \A i \in 1..Len(s) : InMail(s)[i] = MailMarks(s[i])
    BY <1>1 DEF InMail
  <2> QED BY <1>1, <1>2, <1>4, <2>1
<1>5. ASSUME \A x \in S : TaskMarks(x) \in SUBSET AllMarks PROVE InTasks(s) \in Seq(SUBSET AllMarks)
  <2>1. /\ DOMAIN InTasks(s) = 1..Len(s) /\ InTasks(s) = [i \in DOMAIN InTasks(s) |-> InTasks(s)[i]]
        /\ \A i \in 1..Len(s) : InTasks(s)[i] = TaskMarks(s[i])
    BY <1>1 DEF InTasks
  <2> QED BY <1>1, <1>2, <1>5, <2>1
<1>6. ASSUME S \subseteq Ids PROVE InGot(s) \in Seq(SUBSET AllMarks)
  <2>1. /\ DOMAIN InGot(s) = 1..Len(s) /\ InGot(s) = [i \in DOMAIN InGot(s) |-> InGot(s)[i]]
        /\ \A i \in 1..Len(s) : InGot(s)[i] = {MailMark(s[i])} /\ s[i] \in Ids
    BY <1>1, <1>6 DEF InGot, GotMarks
  <2>2. \A i \in 1..Len(s) : InGot(s)[i] \in SUBSET AllMarks
    BY <2>1 DEF AllMarks
  <2> QED BY <1>2, <2>1, <2>2
<1> QED BY <1>3, <1>4, <1>5, <1>6

\* What waits is mail.
LEMMA QueueTyped ==
    ASSUME IndInv, NEW n \in Nodes, NEW x
    PROVE  /\ QueueOf(endpoints, n, x) \in Seq(Mail(endpoints, names))
           /\ x \in DOMAIN endpoints[n] => QueueOf(endpoints, n, x) = endpoints[n][x].queue
<1>1. CASE x \in DOMAIN endpoints[n]
  <2>1. endpoints[n][x].queue \in Seq(QueuedMail(endpoints, names, n, EndOf(x)))
    BY <1>1, EndpointFacts DEF SoundEndpoints
  <2>2. QueuedMail(endpoints, names, n, EndOf(x)) \subseteq Mail(endpoints, names)
    BY DEF QueuedMail
  <2>3. endpoints[n][x].queue \in Seq(Mail(endpoints, names))
    BY <2>1, <2>2
  <2> QED BY <1>1, <2>3 DEF QueueOf
<1>2. CASE x \notin DOMAIN endpoints[n]
  <2>1. << >> \in Seq(Mail(endpoints, names))
    OBVIOUS
  <2> QED BY <1>2, <2>1 DEF QueueOf
<1> QED BY <1>1, <1>2

\* The boxes hold things with marks.
LEMMA StoredTyped ==
    ASSUME IndInv
    PROVE  /\ Stored \in Shelves(Boxes, AllMarks)
           /\ \A n \in Nodes : DOMAIN endpoints[n] \subseteq Names
<1>0. \A n \in Nodes : DOMAIN endpoints[n] \subseteq Names
  BY DEF IndInv, EndpointsSound, Given
<1>1. ASSUME NEW b \in Boxes PROVE Stored[b] \in Seq(SUBSET AllMarks)
  <2>0. \/ \E m, n \in Nodes : b = WireBox(m, n)
        \/ \E n \in Nodes : \E x \in Names : b = QueueBox(n, x)
        \/ \E n \in Nodes : \E t \in AllThreads : b = CallBox(n, t)
        \/ \E n \in Nodes : \E t \in Threads : b = TaskBox(n, t)
        \/ \E e \in Ends : b = GotBox(e)
    BY DEF Boxes, WireBox, QueueBox, CallBox, TaskBox, GotBox
  <2>1. ASSUME NEW m \in Nodes, NEW n \in Nodes, b = WireBox(m, n)
        PROVE  Stored[b] \in Seq(SUBSET AllMarks)
    <3>1. Stored[b] = OnWire(wire[m][n])
      BY <2>1 DEF Stored, Contents, WireBox
    <3>2. wire[m][n] \in Seq(Traffic(endpoints, names, channels, pending, m, n))
      BY WireIsSeq DEF IndInv
    <3>3. \A x \in Traffic(endpoints, names, channels, pending, m, n) :
              WireMarks(x) \in SUBSET AllMarks
      BY <1>0, TrafficMarked
    <3> QED BY <3>1, <3>2, <3>3, InBoxes
  <2>2. ASSUME NEW n \in Nodes, NEW x \in Names, b = QueueBox(n, x)
        PROVE  Stored[b] \in Seq(SUBSET AllMarks)
    <3>1. Stored[b] = InMail(QueueOf(endpoints, n, x))
      BY <2>2 DEF Stored, Contents, QueueBox
    <3>2. \A y \in Mail(endpoints, names) : MailMarks(y) \in SUBSET AllMarks
      BY MailMarked
    <3> QED BY <3>1, <3>2, QueueTyped, InBoxes
  <2>3. ASSUME NEW n \in Nodes, NEW t \in AllThreads, b = CallBox(n, t)
        PROVE  Stored[b] \in Seq(SUBSET AllMarks)
    <3>1. Stored[b] = InMail(call[n][t].msgs)
      BY <2>3 DEF Stored, Contents, CallBox
    <3>2. call[n][t].msgs \in Seq(RoutedMail(endpoints, names))
      BY DEF IndInv, CallsSound, Calls
    <3>3. \A y \in RoutedMail(endpoints, names) : MailMarks(y) \in SUBSET AllMarks
      BY MailMarked DEF RoutedMail
    <3> QED BY <3>1, <3>2, <3>3, InBoxes
  <2>4. ASSUME NEW n \in Nodes, NEW t \in Threads, b = TaskBox(n, t)
        PROVE  Stored[b] \in Seq(SUBSET AllMarks)
    <3>1. Stored[b] = InTasks(tasks[n][t])
      BY <2>4 DEF Stored, Contents, TaskBox
    <3>2. tasks[n][t] \in Seq(Tasks(endpoints, names, n))
      BY DEF IndInv, TasksSound
    <3>3. \A y \in Tasks(endpoints, names, n) : TaskMarks(y) \in SUBSET AllMarks
      BY <1>0, TaskMarked
    <3> QED BY <3>1, <3>2, <3>3, InBoxes
  <2>5. ASSUME NEW e \in Ends, b = GotBox(e)
        PROVE  Stored[b] \in Seq(SUBSET AllMarks)
    <3>1. Stored[b] = InGot(got[e])
      BY <2>5 DEF Stored, Contents, GotBox
    <3>2. got[e] \in Seq(SentTo(e)) /\ SentTo(e) \subseteq Ids
      BY DEF IndInv, GotSound, SentTo
    <3> QED BY <3>1, <3>2, InBoxes
  <2> QED BY <2>0, <2>1, <2>2, <2>3, <2>4, <2>5
<1>2. Stored \in [Boxes -> Seq(SUBSET AllMarks)]
  <2>1. Stored = [b \in Boxes |-> Stored[b]]
    BY DEF Stored, Contents
  <2> HIDE DEF Stored
  <2> QED BY <1>1, <2>1
<1> QED BY <1>0, <1>2 DEF Shelves

\* A step that changes what is in one box alone.
LEMMA OneBox ==
    ASSUME NEW E, NEW W, NEW K, NEW T, NEW G, NEW E2, NEW W2, NEW K2, NEW T2, NEW G2,
           NEW b \in Boxes,
           \A m, n \in Nodes : WireBox(m, n) # b => W2[m][n] = W[m][n],
           \A n \in Nodes : \A x \in Names :
               QueueBox(n, x) # b => QueueOf(E2, n, x) = QueueOf(E, n, x),
           \A n \in Nodes : \A t \in AllThreads :
               CallBox(n, t) # b => K2[n][t].msgs = K[n][t].msgs,
           \A n \in Nodes : \A t \in Threads : TaskBox(n, t) # b => T2[n][t] = T[n][t],
           \A e \in Ends : GotBox(e) # b => G2[e] = G[e]
    PROVE  Contents(E2, W2, K2, T2, G2) =
               [Contents(E, W, K, T, G) EXCEPT ![b] = Contents(E2, W2, K2, T2, G2)[b]]
<1> DEFINE V == Contents(E, W, K, T, G)
           V2 == Contents(E2, W2, K2, T2, G2)
<1>1. ASSUME NEW c \in Boxes, c # b PROVE V2[c] = V[c]
  <2>0. \/ \E m, n \in Nodes : c = WireBox(m, n)
        \/ \E n \in Nodes : \E x \in Names : c = QueueBox(n, x)
        \/ \E n \in Nodes : \E t \in AllThreads : c = CallBox(n, t)
        \/ \E n \in Nodes : \E t \in Threads : c = TaskBox(n, t)
        \/ \E e \in Ends : c = GotBox(e)
    BY DEF Boxes, WireBox, QueueBox, CallBox, TaskBox, GotBox
  <2>1. ASSUME NEW m \in Nodes, NEW n \in Nodes, c = WireBox(m, n) PROVE V2[c] = V[c]
    <3>1. V2[c] = OnWire(W2[m][n]) /\ V[c] = OnWire(W[m][n])
      BY <2>1 DEF Contents, WireBox
    <3> QED BY <3>1, <2>1, <1>1
  <2>2. ASSUME NEW n \in Nodes, NEW x \in Names, c = QueueBox(n, x) PROVE V2[c] = V[c]
    <3>1. V2[c] = InMail(QueueOf(E2, n, x)) /\ V[c] = InMail(QueueOf(E, n, x))
      BY <2>2 DEF Contents, QueueBox
    <3> QED BY <3>1, <2>2, <1>1
  <2>3. ASSUME NEW n \in Nodes, NEW t \in AllThreads, c = CallBox(n, t) PROVE V2[c] = V[c]
    <3>1. V2[c] = InMail(K2[n][t].msgs) /\ V[c] = InMail(K[n][t].msgs)
      BY <2>3 DEF Contents, CallBox
    <3> QED BY <3>1, <2>3, <1>1
  <2>4. ASSUME NEW n \in Nodes, NEW t \in Threads, c = TaskBox(n, t) PROVE V2[c] = V[c]
    <3>1. V2[c] = InTasks(T2[n][t]) /\ V[c] = InTasks(T[n][t])
      BY <2>4 DEF Contents, TaskBox
    <3> QED BY <3>1, <2>4, <1>1
  <2>5. ASSUME NEW e \in Ends, c = GotBox(e) PROVE V2[c] = V[c]
    <3>1. V2[c] = InGot(G2[e]) /\ V[c] = InGot(G[e])
      BY <2>5 DEF Contents, GotBox
    <3> QED BY <3>1, <2>5, <1>1
  <2> QED BY <2>0, <2>1, <2>2, <2>3, <2>4, <2>5
<1>2. V2 = [c \in Boxes |-> V2[c]] /\ V = [c \in Boxes |-> V[c]] /\ DOMAIN V = Boxes
  BY DEF Contents
<1> HIDE DEF V, V2
<1>3. V2 = [V EXCEPT ![b] = V2[b]]
  BY <1>1, <1>2
<1> QED BY <1>3 DEF V, V2

\* What is in each box: that of a wire,
LEMMA InWireBox ==
    ASSUME NEW E, NEW W, NEW K, NEW T, NEW G, NEW m \in Nodes, NEW n \in Nodes
    PROVE  /\ WireBox(m, n) \in Boxes /\ WireBox(m, n) \in DOMAIN Contents(E, W, K, T, G)
           /\ Contents(E, W, K, T, G)[WireBox(m, n)] = OnWire(W[m][n])
BY DEF Contents, Boxes, WireBox

\* The box of an endpoint's queue,
LEMMA InQueueBox ==
    ASSUME NEW E, NEW W, NEW K, NEW T, NEW G, NEW n \in Nodes, NEW x \in Names
    PROVE  /\ QueueBox(n, x) \in Boxes /\ QueueBox(n, x) \in DOMAIN Contents(E, W, K, T, G)
           /\ Contents(E, W, K, T, G)[QueueBox(n, x)] = InMail(QueueOf(E, n, x))
BY DEF Contents, Boxes, QueueBox

\* of a call,
LEMMA InCallBox ==
    ASSUME NEW E, NEW W, NEW K, NEW T, NEW G, NEW n \in Nodes, NEW t \in AllThreads
    PROVE  /\ CallBox(n, t) \in Boxes /\ CallBox(n, t) \in DOMAIN Contents(E, W, K, T, G)
           /\ Contents(E, W, K, T, G)[CallBox(n, t)] = InMail(K[n][t].msgs)
BY DEF Contents, Boxes, CallBox

\* of a thread's tasks,
LEMMA InTaskBox ==
    ASSUME NEW E, NEW W, NEW K, NEW T, NEW G, NEW n \in Nodes, NEW t \in Threads
    PROVE  /\ TaskBox(n, t) \in Boxes /\ TaskBox(n, t) \in DOMAIN Contents(E, W, K, T, G)
           /\ Contents(E, W, K, T, G)[TaskBox(n, t)] = InTasks(T[n][t])
BY DEF Contents, Boxes, TaskBox

\* and of a receiver.
LEMMA InGotBox ==
    ASSUME NEW E, NEW W, NEW K, NEW T, NEW G, NEW e \in Ends
    PROVE  /\ GotBox(e) \in Boxes /\ GotBox(e) \in DOMAIN Contents(E, W, K, T, G)
           /\ Contents(E, W, K, T, G)[GotBox(e)] = InGot(G[e])
BY DEF Contents, Boxes, GotBox

-----------------------------------------------------------------------------
(* How messages come into boxes and out of them.                            *)

\* What a sequence with one more element, or one less, is.
LEMMA AppendedIs ==
    ASSUME NEW n \in Nat, NEW f, NEW g, NEW x, f = [i \in 1..n |-> f[i]],
           g = [i \in 1..(n + 1) |-> g[i]],
           \A i \in 1..n : g[i] = f[i], g[n + 1] = x
    PROVE  g = Append(f, x)
<1> DEFINE R == {f[i] : i \in 1..n} \cup {x}
<1>1. \A i \in 1..n : f[i] \in R /\ x \in R
  OBVIOUS
<1>2. x \in R
  OBVIOUS
<1> HIDE DEF R
<1>3. f \in Seq(R) /\ Len(f) = n
  <2>1. f \in [1..n -> R] /\ f \in Seq(R)
    BY <1>1
  <2>2. Len(f) \in Nat /\ DOMAIN f = 1..Len(f) /\ DOMAIN f = 1..n
    BY <2>1, LenProperties
  <2>3. \A i \in Nat : i \in 1..Len(f) <=> i \in 1..n
    BY <2>2
  <2> QED BY <2>1, <2>2, <2>3
<1>4. g \in Seq(R) /\ Len(g) = n + 1
  <2>1. \A i \in 1..(n + 1) : i \in 1..n \/ i = n + 1
    OBVIOUS
  <2>2. \A i \in 1..(n + 1) : g[i] \in R
    BY <1>1, <1>2, <2>1
  <2>3. g \in [1..(n + 1) -> R]
    BY <2>2
  <2> QED BY <2>3
<1>5. /\ Append(f, x) \in Seq(R) /\ Len(Append(f, x)) = n + 1
      /\ \A i \in 1..n : Append(f, x)[i] = f[i]
      /\ Append(f, x)[n + 1] = x
  BY <1>2, <1>3, AppendProperties
<1>6. \A i \in 1..(n + 1) : g[i] = Append(f, x)[i]
  <2>1. \A i \in 1..(n + 1) : i \in 1..n \/ i = n + 1
    OBVIOUS
  <2> QED BY <2>1, <1>5
<1> QED BY <1>4, <1>5, <1>6, SeqEqual

\* See AppendedIs.
LEMMA TailIs ==
    ASSUME NEW n \in Nat \ {0}, NEW f, NEW g, f = [i \in 1..n |-> f[i]],
           g = [i \in 1..(n - 1) |-> g[i]],
           \A i \in 1..(n - 1) : g[i] = f[i + 1]
    PROVE  f # << >> /\ Head(f) = f[1] /\ g = Tail(f)
<1> DEFINE R == {f[i] : i \in 1..n}
<1>1. \A i \in 1..n : f[i] \in R
  OBVIOUS
<1> HIDE DEF R
<1>2. f \in Seq(R) /\ Len(f) = n
  <2>1. f \in [1..n -> R]
    BY <1>1
  <2> QED BY <2>1
<1>3. f # << >> /\ Head(f) = f[1]
  BY <1>2
<1>4. /\ Tail(f) \in Seq(R) /\ Len(Tail(f)) = n - 1
      /\ \A i \in 1..(n - 1) : Tail(f)[i] = f[i + 1]
  BY <1>2, <1>3, HeadTailProperties
<1>5. g \in Seq(R) /\ Len(g) = n - 1
  <2>1. \A i \in 1..(n - 1) : i + 1 \in 1..n
    OBVIOUS
  <2>2. \A i \in 1..(n - 1) : g[i] \in R
    BY <1>1, <2>1
  <2>3. g \in [1..(n - 1) -> R] /\ n - 1 \in Nat
    BY <2>2
  <2> QED BY <2>3
<1>6. g = Tail(f)
  BY <1>4, <1>5, SeqEqual
<1> QED BY <1>3, <1>6

\* What is in a box grows and shrinks with what the box is for.
LEMMA InBoxSteps ==
    ASSUME NEW S, NEW s \in Seq(S), NEW a
    PROVE  /\ OnWire(Append(s, a)) = Append(OnWire(s), WireMarks(a))
           /\ InMail(Append(s, a)) = Append(InMail(s), MailMarks(a))
           /\ InTasks(Append(s, a)) = Append(InTasks(s), TaskMarks(a))
           /\ InGot(Append(s, a)) = Append(InGot(s), GotMarks(a))
<1>1. /\ DOMAIN s = 1..Len(s) /\ Len(s) \in Nat
      /\ DOMAIN Append(s, a) = 1..(Len(s) + 1)
      /\ \A i \in 1..Len(s) : Append(s, a)[i] = s[i]
      /\ Append(s, a)[Len(s) + 1] = a
  OBVIOUS
<1>3. OnWire(Append(s, a)) = Append(OnWire(s), WireMarks(a))
  <2>1. /\ OnWire(s) = [i \in 1..Len(s) |-> OnWire(s)[i]]
        /\ \A i \in 1..Len(s) : OnWire(s)[i] = WireMarks(s[i])
    BY <1>1 DEF OnWire
  <2>2. /\ OnWire(Append(s, a)) = [i \in 1..(Len(s) + 1) |-> OnWire(Append(s, a))[i]]
        /\ \A i \in 1..(Len(s) + 1) : OnWire(Append(s, a))[i] = WireMarks(Append(s, a)[i])
    BY <1>1 DEF OnWire
  <2>3. \A i \in 1..Len(s) : i \in 1..(Len(s) + 1)
    BY <1>1
  <2>4. Len(s) + 1 \in 1..(Len(s) + 1)
    BY <1>1
  <2> QED BY <1>1, AppendedIs, <2>1, <2>2, <2>3, <2>4
<1>4. InMail(Append(s, a)) = Append(InMail(s), MailMarks(a))
  <2>1. /\ InMail(s) = [i \in 1..Len(s) |-> InMail(s)[i]]
        /\ \A i \in 1..Len(s) : InMail(s)[i] = MailMarks(s[i])
    BY <1>1 DEF InMail
  <2>2. /\ InMail(Append(s, a)) = [i \in 1..(Len(s) + 1) |-> InMail(Append(s, a))[i]]
        /\ \A i \in 1..(Len(s) + 1) : InMail(Append(s, a))[i] = MailMarks(Append(s, a)[i])
    BY <1>1 DEF InMail
  <2>3. \A i \in 1..Len(s) : i \in 1..(Len(s) + 1)
    BY <1>1
  <2>4. Len(s) + 1 \in 1..(Len(s) + 1)
    BY <1>1
  <2> QED BY <1>1, AppendedIs, <2>1, <2>2, <2>3, <2>4
<1>5. InTasks(Append(s, a)) = Append(InTasks(s), TaskMarks(a))
  <2>1. /\ InTasks(s) = [i \in 1..Len(s) |-> InTasks(s)[i]]
        /\ \A i \in 1..Len(s) : InTasks(s)[i] = TaskMarks(s[i])
    BY <1>1 DEF InTasks
  <2>2. /\ InTasks(Append(s, a)) = [i \in 1..(Len(s) + 1) |-> InTasks(Append(s, a))[i]]
        /\ \A i \in 1..(Len(s) + 1) : InTasks(Append(s, a))[i] = TaskMarks(Append(s, a)[i])
    BY <1>1 DEF InTasks
  <2>3. \A i \in 1..Len(s) : i \in 1..(Len(s) + 1)
    BY <1>1
  <2>4. Len(s) + 1 \in 1..(Len(s) + 1)
    BY <1>1
  <2> QED BY <1>1, AppendedIs, <2>1, <2>2, <2>3, <2>4
<1>6. InGot(Append(s, a)) = Append(InGot(s), GotMarks(a))
  <2>1. /\ InGot(s) = [i \in 1..Len(s) |-> InGot(s)[i]]
        /\ \A i \in 1..Len(s) : InGot(s)[i] = GotMarks(s[i])
    BY <1>1 DEF InGot
  <2>2. /\ InGot(Append(s, a)) = [i \in 1..(Len(s) + 1) |-> InGot(Append(s, a))[i]]
        /\ \A i \in 1..(Len(s) + 1) : InGot(Append(s, a))[i] = GotMarks(Append(s, a)[i])
    BY <1>1 DEF InGot
  <2>3. \A i \in 1..Len(s) : i \in 1..(Len(s) + 1)
    BY <1>1
  <2>4. Len(s) + 1 \in 1..(Len(s) + 1)
    BY <1>1
  <2>5. \A i \in 1..Len(s) : InGot(Append(s, a))[i] = InGot(s)[i]
    BY <1>1, <2>1, <2>2, <2>3
  <2>6. InGot(Append(s, a))[Len(s) + 1] = GotMarks(a)
    BY <1>1, <2>2, <2>4
  <2> HIDE DEF InGot
  <2> QED BY <1>1, <2>1, <2>2, <2>5, <2>6, AppendedIs
<1> QED BY <1>3, <1>4, <1>5, <1>6

\* See InBoxSteps.
LEMMA OutOfBoxSteps ==
    ASSUME NEW S, NEW s \in Seq(S), s # << >>
    PROVE  /\ OnWire(s) # << >> /\ Head(OnWire(s)) = WireMarks(Head(s))
           /\ OnWire(Tail(s)) = Tail(OnWire(s))
           /\ InMail(s) # << >> /\ Head(InMail(s)) = MailMarks(Head(s))
           /\ InMail(Tail(s)) = Tail(InMail(s))
           /\ InTasks(s) # << >> /\ Head(InTasks(s)) = TaskMarks(Head(s))
           /\ InTasks(Tail(s)) = Tail(InTasks(s))
<1>1. /\ DOMAIN s = 1..Len(s) /\ Len(s) \in Nat \ {0}
      /\ DOMAIN Tail(s) = 1..(Len(s) - 1)
      /\ \A i \in 1..(Len(s) - 1) : Tail(s)[i] = s[i + 1]
      /\ Head(s) = s[1]
  OBVIOUS
<1>3. /\ OnWire(s) # << >> /\ Head(OnWire(s)) = WireMarks(Head(s))
      /\ OnWire(Tail(s)) = Tail(OnWire(s))
  <2>1. /\ OnWire(s) = [i \in 1..Len(s) |-> OnWire(s)[i]]
        /\ \A i \in 1..Len(s) : OnWire(s)[i] = WireMarks(s[i])
    BY <1>1 DEF OnWire
  <2>2. /\ OnWire(Tail(s)) = [i \in 1..(Len(s) - 1) |-> OnWire(Tail(s))[i]]
        /\ \A i \in 1..(Len(s) - 1) : OnWire(Tail(s))[i] = WireMarks(Tail(s)[i])
    BY <1>1 DEF OnWire
  <2>3. \A i \in 1..(Len(s) - 1) : i + 1 \in 1..Len(s)
    BY <1>1
  <2>4. 1 \in 1..Len(s)
    BY <1>1
  <2> QED BY <1>1, TailIs, <2>1, <2>2, <2>3, <2>4
<1>4. /\ InMail(s) # << >> /\ Head(InMail(s)) = MailMarks(Head(s))
      /\ InMail(Tail(s)) = Tail(InMail(s))
  <2>1. /\ InMail(s) = [i \in 1..Len(s) |-> InMail(s)[i]]
        /\ \A i \in 1..Len(s) : InMail(s)[i] = MailMarks(s[i])
    BY <1>1 DEF InMail
  <2>2. /\ InMail(Tail(s)) = [i \in 1..(Len(s) - 1) |-> InMail(Tail(s))[i]]
        /\ \A i \in 1..(Len(s) - 1) : InMail(Tail(s))[i] = MailMarks(Tail(s)[i])
    BY <1>1 DEF InMail
  <2>3. \A i \in 1..(Len(s) - 1) : i + 1 \in 1..Len(s)
    BY <1>1
  <2>4. 1 \in 1..Len(s)
    BY <1>1
  <2> QED BY <1>1, TailIs, <2>1, <2>2, <2>3, <2>4
<1>5. /\ InTasks(s) # << >> /\ Head(InTasks(s)) = TaskMarks(Head(s))
      /\ InTasks(Tail(s)) = Tail(InTasks(s))
  <2>1. /\ InTasks(s) = [i \in 1..Len(s) |-> InTasks(s)[i]]
        /\ \A i \in 1..Len(s) : InTasks(s)[i] = TaskMarks(s[i])
    BY <1>1 DEF InTasks
  <2>2. /\ InTasks(Tail(s)) = [i \in 1..(Len(s) - 1) |-> InTasks(Tail(s))[i]]
        /\ \A i \in 1..(Len(s) - 1) : InTasks(Tail(s))[i] = TaskMarks(Tail(s)[i])
    BY <1>1 DEF InTasks
  <2>3. \A i \in 1..(Len(s) - 1) : i + 1 \in 1..Len(s)
    BY <1>1
  <2>4. 1 \in 1..Len(s)
    BY <1>1
  <2> QED BY <1>1, TailIs, <2>1, <2>2, <2>3, <2>4
<1> QED BY <1>3, <1>4, <1>5

\* Box b of W2, the contents after a step, is that of W with a at its end.
LEMMA Posted ==
    ASSUME NEW V, NEW V2, NEW b \in DOMAIN V, NEW a,
           V2 = [V EXCEPT ![b] = V2[b]], V2[b] = Append(V[b], a)
    PROVE  V2 = Post(V, b, a)
BY DEF Post

\* Or without its first.
LEMMA Dropped ==
    ASSUME NEW V, NEW V2, NEW b \in DOMAIN V,
           V2 = [V EXCEPT ![b] = V2[b]], V2[b] = Tail(V[b])
    PROVE  V2 = Drop(V, b)
BY DEF Drop

\* A message is written,
LEMMA WirePosted ==
    ASSUME NEW E, NEW W, NEW K, NEW T, NEW G, NEW W2, NEW S, NEW m \in Nodes, NEW n \in Nodes,
           W[m][n] \in Seq(S), NEW msg, Append(W[m][n], msg) = W2[m][n],
           \A k, l \in Nodes : k # m \/ l # n => W2[k][l] = W[k][l]
    PROVE  Contents(E, W2, K, T, G) = Post(Contents(E, W, K, T, G), WireBox(m, n), WireMarks(msg))
<1> DEFINE V == Contents(E, W, K, T, G)
           V2 == Contents(E, W2, K, T, G)
           b == WireBox(m, n)
<1>1. \A k, l \in Nodes : WireBox(k, l) # b => W2[k][l] = W[k][l]
  BY DEF WireBox
<1>2. b \in Boxes /\ b \in DOMAIN V /\ V[b] = OnWire(W[m][n]) /\ V2[b] = OnWire(W2[m][n])
  BY InWireBox
<1>3. V2 = [V EXCEPT ![b] = V2[b]]
  <2> HIDE DEF b
  <2> QED BY <1>1, <1>2, OneBox
<1>4. V2[b] = Append(V[b], WireMarks(msg))
  <2> HIDE DEF V, V2, b
  <2>1. OnWire(Append(W[m][n], msg)) = Append(OnWire(W[m][n]), WireMarks(msg))
    BY InBoxSteps
  <2> QED BY <1>2, <2>1
<1> HIDE DEF V, V2, b
<1>5. V2 = Post(V, b, WireMarks(msg))
  BY <1>2, <1>3, <1>4, Posted
<1> QED BY <1>5 DEF V, V2, b

\* read,
LEMMA WireDropped ==
    ASSUME NEW E, NEW W, NEW K, NEW T, NEW G, NEW W2, NEW S, NEW m \in Nodes, NEW n \in Nodes,
           W[m][n] \in Seq(S), W[m][n] # << >>, Tail(W[m][n]) = W2[m][n],
           \A k, l \in Nodes : k # m \/ l # n => W2[k][l] = W[k][l]
    PROVE  /\ Contents(E, W2, K, T, G) = Drop(Contents(E, W, K, T, G), WireBox(m, n))
           /\ WireBox(m, n) \in Boxes /\ Contents(E, W, K, T, G)[WireBox(m, n)] # << >>
           /\ Head(Contents(E, W, K, T, G)[WireBox(m, n)]) = WireMarks(Head(W[m][n]))
<1> DEFINE V == Contents(E, W, K, T, G)
           V2 == Contents(E, W2, K, T, G)
           b == WireBox(m, n)
<1>1. \A k, l \in Nodes : WireBox(k, l) # b => W2[k][l] = W[k][l]
  BY DEF WireBox
<1>2. b \in Boxes /\ b \in DOMAIN V /\ V[b] = OnWire(W[m][n]) /\ V2[b] = OnWire(W2[m][n])
  BY InWireBox
<1>3. V2 = [V EXCEPT ![b] = V2[b]]
  <2> HIDE DEF b
  <2> QED BY <1>1, <1>2, OneBox
<1>4. V2[b] = Tail(V[b]) /\ V[b] # << >> /\ Head(V[b]) = WireMarks(Head(W[m][n]))
  <2> HIDE DEF V, V2, b
  <2> QED BY <1>2, OutOfBoxSteps
<1> HIDE DEF V, V2, b
<1>5. V2 = Drop(V, b)
  BY <1>2, <1>3, <1>4, Dropped
<1> QED BY <1>2, <1>4, <1>5 DEF V, V2, b

\* put in a call,
LEMMA CallPosted ==
    ASSUME NEW E, NEW W, NEW K, NEW T, NEW G, NEW K2, NEW S, NEW n \in Nodes, NEW t \in AllThreads,
           K[n][t].msgs \in Seq(S), NEW msg, Append(K[n][t].msgs, msg) = K2[n][t].msgs,
           \A k \in Nodes : \A u \in AllThreads : k # n \/ u # t => K2[k][u].msgs = K[k][u].msgs
    PROVE  Contents(E, W, K2, T, G) = Post(Contents(E, W, K, T, G), CallBox(n, t), MailMarks(msg))
<1> DEFINE V == Contents(E, W, K, T, G)
           V2 == Contents(E, W, K2, T, G)
           b == CallBox(n, t)
<1>1. \A k \in Nodes : \A u \in AllThreads : CallBox(k, u) # b => K2[k][u].msgs = K[k][u].msgs
  BY DEF CallBox
<1>2. b \in Boxes /\ b \in DOMAIN V /\ V[b] = InMail(K[n][t].msgs) /\ V2[b] = InMail(K2[n][t].msgs)
  BY InCallBox
<1>3. V2 = [V EXCEPT ![b] = V2[b]]
  <2> HIDE DEF b
  <2> QED BY <1>1, <1>2, OneBox
<1>4. V2[b] = Append(V[b], MailMarks(msg))
  <2> HIDE DEF V, V2, b
  <2> QED BY <1>2, InBoxSteps, ZenonT(30)
<1> HIDE DEF V, V2, b
<1>5. V2 = Post(V, b, MailMarks(msg))
  BY <1>2, <1>3, <1>4, Posted
<1> QED BY <1>5 DEF V, V2, b

\* taken out of it,
LEMMA CallDropped ==
    ASSUME NEW E, NEW W, NEW K, NEW T, NEW G, NEW K2, NEW S, NEW n \in Nodes, NEW t \in AllThreads,
           K[n][t].msgs \in Seq(S), K[n][t].msgs # << >>, Tail(K[n][t].msgs) = K2[n][t].msgs,
           \A k \in Nodes : \A u \in AllThreads : k # n \/ u # t => K2[k][u].msgs = K[k][u].msgs
    PROVE  /\ Contents(E, W, K2, T, G) = Drop(Contents(E, W, K, T, G), CallBox(n, t))
           /\ CallBox(n, t) \in Boxes /\ Contents(E, W, K, T, G)[CallBox(n, t)] # << >>
           /\ Head(Contents(E, W, K, T, G)[CallBox(n, t)]) = MailMarks(Head(K[n][t].msgs))
<1> DEFINE V == Contents(E, W, K, T, G)
           V2 == Contents(E, W, K2, T, G)
           b == CallBox(n, t)
<1>1. \A k \in Nodes : \A u \in AllThreads : CallBox(k, u) # b => K2[k][u].msgs = K[k][u].msgs
  BY DEF CallBox
<1>2. b \in Boxes /\ b \in DOMAIN V /\ V[b] = InMail(K[n][t].msgs) /\ V2[b] = InMail(K2[n][t].msgs)
  BY InCallBox
<1>3. V2 = [V EXCEPT ![b] = V2[b]]
  <2> HIDE DEF b
  <2> QED BY <1>1, <1>2, OneBox
<1>4. V2[b] = Tail(V[b]) /\ V[b] # << >> /\ Head(V[b]) = MailMarks(Head(K[n][t].msgs))
  <2> HIDE DEF V, V2, b
  <2> QED BY <1>2, OutOfBoxSteps
<1> HIDE DEF V, V2, b
<1>5. V2 = Drop(V, b)
  BY <1>2, <1>3, <1>4, Dropped
<1> QED BY <1>2, <1>4, <1>5 DEF V, V2, b

\* posted as a task,
LEMMA TaskPosted ==
    ASSUME NEW E, NEW W, NEW K, NEW T, NEW G, NEW T2, NEW S, NEW n \in Nodes, NEW t \in Threads,
           T[n][t] \in Seq(S), NEW task, Append(T[n][t], task) = T2[n][t],
           \A k \in Nodes : \A u \in Threads : k # n \/ u # t => T2[k][u] = T[k][u]
    PROVE  Contents(E, W, K, T2, G) = Post(Contents(E, W, K, T, G), TaskBox(n, t), TaskMarks(task))
<1> DEFINE V == Contents(E, W, K, T, G)
           V2 == Contents(E, W, K, T2, G)
           b == TaskBox(n, t)
<1>1. \A k \in Nodes : \A u \in Threads : TaskBox(k, u) # b => T2[k][u] = T[k][u]
  BY DEF TaskBox
<1>2. b \in Boxes /\ b \in DOMAIN V /\ V[b] = InTasks(T[n][t]) /\ V2[b] = InTasks(T2[n][t])
  <2>1. /\ TaskBox(n, t) \in Boxes /\ TaskBox(n, t) \in DOMAIN Contents(E, W, K, T, G)
        /\ Contents(E, W, K, T, G)[TaskBox(n, t)] = InTasks(T[n][t])
    BY InTaskBox
  <2>2. Contents(E, W, K, T2, G)[TaskBox(n, t)] = InTasks(T2[n][t])
    BY InTaskBox
  <2> QED BY <2>1, <2>2
<1>3. V2 = [V EXCEPT ![b] = V2[b]]
  <2> HIDE DEF b
  <2> QED BY <1>1, <1>2, OneBox
<1>4. V2[b] = Append(V[b], TaskMarks(task))
  <2> HIDE DEF V, V2, b
  <2>1. InTasks(Append(T[n][t], task)) = Append(InTasks(T[n][t]), TaskMarks(task))
    BY InBoxSteps
  <2> QED BY <1>2, <2>1
<1> HIDE DEF V, V2, b
<1>5. V2 = Post(V, b, TaskMarks(task))
  BY <1>2, <1>3, <1>4, Posted
<1> QED BY <1>5 DEF V, V2, b

\* run,
LEMMA TaskDropped ==
    ASSUME NEW E, NEW W, NEW K, NEW T, NEW G, NEW T2, NEW S, NEW n \in Nodes, NEW t \in Threads,
           T[n][t] \in Seq(S), T[n][t] # << >>, Tail(T[n][t]) = T2[n][t],
           \A k \in Nodes : \A u \in Threads : k # n \/ u # t => T2[k][u] = T[k][u]
    PROVE  /\ Contents(E, W, K, T2, G) = Drop(Contents(E, W, K, T, G), TaskBox(n, t))
           /\ TaskBox(n, t) \in Boxes /\ Contents(E, W, K, T, G)[TaskBox(n, t)] # << >>
           /\ Head(Contents(E, W, K, T, G)[TaskBox(n, t)]) = TaskMarks(Head(T[n][t]))
<1> DEFINE V == Contents(E, W, K, T, G)
           V2 == Contents(E, W, K, T2, G)
           b == TaskBox(n, t)
<1>1. \A k \in Nodes : \A u \in Threads : TaskBox(k, u) # b => T2[k][u] = T[k][u]
  BY DEF TaskBox
<1>2. b \in Boxes /\ b \in DOMAIN V /\ V[b] = InTasks(T[n][t]) /\ V2[b] = InTasks(T2[n][t])
  BY InTaskBox
<1>3. V2 = [V EXCEPT ![b] = V2[b]]
  <2> HIDE DEF b
  <2> QED BY <1>1, <1>2, OneBox
<1>4. V2[b] = Tail(V[b]) /\ V[b] # << >> /\ Head(V[b]) = TaskMarks(Head(T[n][t]))
  <2> HIDE DEF V, V2, b
  <2> QED BY <1>2, OutOfBoxSteps
<1> HIDE DEF V, V2, b
<1>5. V2 = Drop(V, b)
  BY <1>2, <1>3, <1>4, Dropped
<1> QED BY <1>2, <1>4, <1>5 DEF V, V2, b

\* queued on an endpoint,
LEMMA QueuePosted ==
    ASSUME NEW E, NEW W, NEW K, NEW T, NEW G, NEW E2, NEW S, NEW n \in Nodes, NEW x \in Names,
           QueueOf(E, n, x) \in Seq(S), NEW msg,
           Append(QueueOf(E, n, x), msg) = QueueOf(E2, n, x),
           \A k \in Nodes : \A y \in Names :
               k # n \/ y # x => QueueOf(E2, k, y) = QueueOf(E, k, y)
    PROVE  Contents(E2, W, K, T, G) = Post(Contents(E, W, K, T, G), QueueBox(n, x), MailMarks(msg))
<1> DEFINE V == Contents(E, W, K, T, G)
           V2 == Contents(E2, W, K, T, G)
           b == QueueBox(n, x)
<1>1. \A k \in Nodes : \A y \in Names : QueueBox(k, y) # b => QueueOf(E2, k, y) = QueueOf(E, k, y)
  BY DEF QueueBox
<1>2. /\ b \in Boxes /\ b \in DOMAIN V
      /\ V[b] = InMail(QueueOf(E, n, x)) /\ V2[b] = InMail(QueueOf(E2, n, x))
  BY InQueueBox
<1>3. V2 = [V EXCEPT ![b] = V2[b]]
  <2> HIDE DEF b
  <2> QED BY <1>1, <1>2, OneBox
<1>4. V2[b] = Append(V[b], MailMarks(msg))
  <2> HIDE DEF V, V2, b
  <2> QED BY <1>2, InBoxSteps, ZenonT(30)
<1> HIDE DEF V, V2, b
<1>5. V2 = Post(V, b, MailMarks(msg))
  BY <1>2, <1>3, <1>4, Posted
<1> QED BY <1>5 DEF V, V2, b

\* and given to a receiver.
LEMMA GotPosted ==
    ASSUME NEW E, NEW W, NEW K, NEW T, NEW G, NEW G2, NEW S, NEW e \in Ends,
           G[e] \in Seq(S), NEW id, Append(G[e], id) = G2[e],
           \A f \in Ends : f # e => G2[f] = G[f]
    PROVE  Contents(E, W, K, T, G2) = Post(Contents(E, W, K, T, G), GotBox(e), GotMarks(id))
<1> DEFINE V == Contents(E, W, K, T, G)
           V2 == Contents(E, W, K, T, G2)
           b == GotBox(e)
<1>1. \A f \in Ends : GotBox(f) # b => G2[f] = G[f]
  BY DEF GotBox
<1>2. b \in Boxes /\ b \in DOMAIN V /\ V[b] = InGot(G[e]) /\ V2[b] = InGot(G2[e])
  BY InGotBox
<1>3. V2 = [V EXCEPT ![b] = V2[b]]
  <2> HIDE DEF b
  <2> QED BY <1>1, <1>2, OneBox
<1>4. V2[b] = Append(V[b], GotMarks(id))
  <2> HIDE DEF V, V2, b
  <2> QED BY <1>2, InBoxSteps, ZenonT(30)
<1> DEFINE a == GotMarks(id)
<1>5. V2[b] = Append(V[b], a)
  BY <1>4
<1> HIDE DEF V, V2, b, a
<1>6. V2 = Post(V, b, a)
  BY <1>2, <1>3, <1>5, Posted
<1> QED BY <1>6 DEF V, V2, b, a
-----------------------------------------------------------------------------
(* The steps.  First, marks and boxes once more.                            *)

\* Marks of different things differ.
LEMMA MarksDiffer ==
    /\ \A e, f : EndMark(e) = EndMark(f) => e = f
    /\ \A i, j : MailMark(i) = MailMark(j) => i = j
    /\ \A k, l : InviteMark(k) = InviteMark(l) => k = l
    /\ \A e, i : EndMark(e) # MailMark(i)
    /\ \A e, k : EndMark(e) # InviteMark(k)
    /\ \A i, k : MailMark(i) # InviteMark(k)
BY DEF EndMark, MailMark, InviteMark

\* What is marked on a message.
LEMMA MailMarksAre ==
    ASSUME NEW msg
    PROVE  /\ \A i : MailMark(i) \in MailMarks(msg) <=> i = msg.id
           /\ \A e : EndMark(e) \in MailMarks(msg) <=> \E d \in ToSet(msg.descs) : e = EndOf(d.name)
           /\ \A k : InviteMark(k) \notin MailMarks(msg)
BY MarksDiffer DEF MailMarks, DescMarks

\* What has not changed is in the same boxes.
LEMMA SameContents ==
    ASSUME NEW E, NEW W, NEW K, NEW T, NEW G, NEW E2, NEW K2,
           \A n \in Nodes : \A x \in Names : QueueOf(E2, n, x) = QueueOf(E, n, x),
           \A n \in Nodes : \A t \in AllThreads : K2[n][t].msgs = K[n][t].msgs
    PROVE  Contents(E2, W, K2, T, G) = Contents(E, W, K, T, G)
<1> DEFINE V == Contents(E, W, K, T, G)
           V2 == Contents(E2, W, K2, T, G)
<1>1. ASSUME NEW c \in Boxes PROVE V2[c] = V[c]
  <2>0. \/ \E m, n \in Nodes : c = WireBox(m, n)
        \/ \E n \in Nodes : \E x \in Names : c = QueueBox(n, x)
        \/ \E n \in Nodes : \E t \in AllThreads : c = CallBox(n, t)
        \/ \E n \in Nodes : \E t \in Threads : c = TaskBox(n, t)
        \/ \E e \in Ends : c = GotBox(e)
    BY DEF Boxes, WireBox, QueueBox, CallBox, TaskBox, GotBox
  <2>1. ASSUME NEW m \in Nodes, NEW n \in Nodes, c = WireBox(m, n) PROVE V2[c] = V[c]
    <3>1. V2[c] = OnWire(W[m][n]) /\ V[c] = OnWire(W[m][n])
      BY <2>1 DEF Contents, WireBox
    <3> QED BY <3>1
  <2>2. ASSUME NEW n \in Nodes, NEW x \in Names, c = QueueBox(n, x) PROVE V2[c] = V[c]
    <3>1. V2[c] = InMail(QueueOf(E2, n, x)) /\ V[c] = InMail(QueueOf(E, n, x))
      BY <2>2 DEF Contents, QueueBox
    <3> QED BY <3>1
  <2>3. ASSUME NEW n \in Nodes, NEW t \in AllThreads, c = CallBox(n, t) PROVE V2[c] = V[c]
    <3>1. V2[c] = InMail(K2[n][t].msgs) /\ V[c] = InMail(K[n][t].msgs)
      BY <2>3 DEF Contents, CallBox
    <3> QED BY <3>1
  <2>4. ASSUME NEW n \in Nodes, NEW t \in Threads, c = TaskBox(n, t) PROVE V2[c] = V[c]
    <3>1. V2[c] = InTasks(T[n][t]) /\ V[c] = InTasks(T[n][t])
      BY <2>4 DEF Contents, TaskBox
    <3> QED BY <3>1
  <2>5. ASSUME NEW e \in Ends, c = GotBox(e) PROVE V2[c] = V[c]
    <3>1. V2[c] = InGot(G[e]) /\ V[c] = InGot(G[e])
      BY <2>5 DEF Contents, GotBox
    <3> QED BY <3>1
  <2> QED BY <2>0, <2>1, <2>2, <2>3, <2>4, <2>5
<1>2. V2 = [c \in Boxes |-> V2[c]] /\ V = [c \in Boxes |-> V[c]]
  BY DEF Contents
<1> HIDE DEF V, V2
<1>3. V2 = V
  BY <1>1, <1>2
<1> QED BY <1>3 DEF V, V2

\* An application accepts its invitation.
LEMMA AcceptInvitationPlaces ==
    ASSUME IndInv, PlaceInv, NEW n \in Nodes, NEW t \in Threads, AcceptInvitation(n, t)
    PROVE  PlaceInv'
<1>1. /\ endpoints' = endpoints /\ pending' = pending /\ wire' = wire /\ call' = call
      /\ tasks' = tasks /\ got' = got /\ held' = held /\ names' = names /\ sent' = sent
      /\ pipes' = pipes
  BY DEF AcceptInvitation, appVars
<1>2. PICK m \in Nodes : channels' = [channels EXCEPT ![n] = Insert(@, InitialChannel, m)]
  <2>1. PICK i \in Invitations : channels' = [channels EXCEPT ![n] = Insert(@, InitialChannel, i[1])]
    BY DEF AcceptInvitation
  <2>2. i[1] \in Nodes
    BY NodesAssumption
  <2> QED BY <2>1, <2>2
<1>3. DOMAIN channels = Nodes
  BY DEF IndInv, ChannelsSound
<1>4. /\ \A k \in Nodes : DOMAIN channels[k] \subseteq DOMAIN channels'[k]
      /\ \A k \in Nodes : DOMAIN channels'[k] \subseteq DOMAIN channels[k] \cup {InitialChannel}
  <2>1. DOMAIN Insert(channels[n], InitialChannel, m) = DOMAIN channels[n] \cup {InitialChannel}
    BY DEF Insert, InsertAll
  <2> QED BY <1>2, <1>3, <2>1
<1>5. \A k \in Nodes : k # InitialChannel /\ Temporary(k) # InitialChannel
  BY NodesAssumption, TemporaryFacts
<1>6. CallsBound(channels', call')
  BY <1>1, <1>4 DEF PlaceInv, CallsBound
<1>7. PendingReady(endpoints', channels', pending')
  BY <1>1, <1>4 DEF PlaceInv, PendingReady
<1>8. ProxiesReady(endpoints', channels')
  BY <1>1, <1>4 DEF PlaceInv, ProxiesReady
<1>9. Introductions(channels', wire')
  <2>1. Introductions(channels, wire)
    BY DEF PlaceInv
  <2>2. \A k, l \in Nodes : /\ l \in DOMAIN channels'[k] <=> l \in DOMAIN channels[k]
                            /\ Temporary(l) \in DOMAIN channels'[k] <=> Temporary(l) \in DOMAIN channels[k]
    BY <1>4, <1>5
  <2>3. \A k, l \in Nodes : Engaged(channels', k, l) <=> Engaged(channels, k, l)
    BY <2>2 DEF Engaged
  <2> QED BY <1>1, <2>1, <2>2, <2>3, ZenonT(30) DEF Introductions
<1> QED BY <1>1, <1>6, <1>7, <1>8, <1>9 DEF PlaceInv, Stored

\* The marks of what a thread n, t has yet to run change by one task.
LEMMA TaskRun ==
    ASSUME IndInv, PlaceInv, NEW n \in Nodes, NEW t \in Threads, tasks[n][t] # << >>,
           Tail(tasks[n][t]) = tasks'[n][t],
           \A k \in Nodes : \A u \in Threads : k # n \/ u # t => tasks'[k][u] = tasks[k][u]
    PROVE  LET task == Head(tasks[n][t])
               V == Contents(endpoints, wire, call, tasks', got)
           IN /\ V \in Shelves(Boxes, AllMarks) /\ Once(V)
              /\ Marks(V) = Marks(Stored) \ TaskMarks(task)
              /\ TaskMarks(task) \subseteq Marks(Stored)
              /\ task \in Tasks(endpoints, names, n) /\ TaskReady(endpoints, pending, n, task)
              /\ TasksReady(endpoints, pending, tasks')
<1> DEFINE task == Head(tasks[n][t])
           V == Contents(endpoints, wire, call, tasks', got)
           b == TaskBox(n, t)
<1>1. tasks[n][t] \in Seq(Tasks(endpoints, names, n)) /\ DOMAIN tasks = Nodes /\ DOMAIN tasks[n] = Threads
  BY DEF IndInv, TasksSound
<1>3. V = Drop(Stored, b) /\ b \in Boxes /\ Stored[b] # << >> /\ Head(Stored[b]) = TaskMarks(task)
  <2> DEFINE S == Tasks(endpoints, names, n)
  <2>1. tasks[n][t] \in Seq(S)
    BY <1>1
  <2> HIDE DEF S
  <2>2. /\ V = Drop(Contents(endpoints, wire, call, tasks, got), TaskBox(n, t))
        /\ TaskBox(n, t) \in Boxes
        /\ Contents(endpoints, wire, call, tasks, got)[TaskBox(n, t)] # << >>
        /\ Head(Contents(endpoints, wire, call, tasks, got)[TaskBox(n, t)]) = TaskMarks(Head(tasks[n][t]))
    BY <2>1, TaskDropped
  <2> HIDE DEF V
  <2> QED BY <2>2 DEF Stored
<1>4. Stored \in Shelves(Boxes, AllMarks) /\ Once(Stored)
  BY StoredTyped DEF PlaceInv
<1>5. V \in Shelves(Boxes, AllMarks) /\ Once(V) /\ Marks(V) = Marks(Stored) \ TaskMarks(task)
  <2> HIDE DEF V, b, task
  <2> QED BY <1>3, <1>4, DropOnce
<1>6. TaskMarks(task) \subseteq Marks(Stored)
  <2>1. Stored \in [Boxes -> Seq(SUBSET AllMarks)]
    BY <1>4 DEF Shelves
  <2> HIDE DEF b, task
  <2>2. 1 \in DOMAIN Stored[b] /\ Stored[b][1] = TaskMarks(task) /\ b \in DOMAIN Stored
    BY <1>3, <2>1
  <2> QED BY <2>2, MarksSomewhere
<1>7. 1 \in DOMAIN tasks[n][t] /\ task = tasks[n][t][1] /\ task \in Tasks(endpoints, names, n)
  BY <1>1
<1>8. TaskReady(endpoints, pending, n, task)
  BY <1>7 DEF PlaceInv, TasksReady
<1>9. TasksReady(endpoints, pending, tasks')
  <2> SUFFICES ASSUME NEW k \in Nodes, NEW u \in Threads, NEW i \in DOMAIN tasks'[k][u]
               PROVE  TaskReady(endpoints, pending, k, tasks'[k][u][i])
    BY DEF TasksReady
  <2>1. CASE k = n /\ u = t
    <3>1. i + 1 \in DOMAIN tasks[n][t] /\ tasks'[n][t][i] = tasks[n][t][i + 1]
      BY <1>1, <2>1
    <3> QED BY <2>1, <3>1 DEF PlaceInv, TasksReady
  <2>2. CASE k # n \/ u # t
    BY <2>2 DEF PlaceInv, TasksReady
  <2> QED BY <2>1, <2>2
<1> HIDE DEF V, task
<1>10. /\ V \in Shelves(Boxes, AllMarks) /\ Once(V)
       /\ Marks(V) = Marks(Stored) \ TaskMarks(task)
       /\ TaskMarks(task) \subseteq Marks(Stored)
       /\ task \in Tasks(endpoints, names, n) /\ TaskReady(endpoints, pending, n, task)
       /\ TasksReady(endpoints, pending, tasks')
  BY <1>5, <1>6, <1>7, <1>8, <1>9
<1> QED BY <1>10 DEF V, task

\* A thread that runs a task for a receiver takes the handles in its message.
LEMMA TaskHandles ==
    ASSUME IndInv, PlaceInv, NEW n \in Nodes, NEW task \in Tasks(endpoints, names, n),
           TaskReady(endpoints, pending, n, task), TaskMarks(task) \subseteq Marks(Stored),
           NEW X, \/ task.op = "message" /\ X = ToSet(task.msg.pipes)
                  \/ task.op = "joined" /\ X = {task.ep}
                  \/ task.op = "accepted" /\ X = {},
           NEW H2, \A m \in Nodes : m # n => H2[m] = held[m], H2[n] \subseteq held[n] \cup X,
           NEW V2, \A e \in Ends : EndMark(e) \in Marks(V2) =>
                       EndMark(e) \in Marks(Stored) \ TaskMarks(task)
    PROVE  HeldOnce(endpoints, pending, H2, V2)
<1>1. HeldOnce(endpoints, pending, held, Stored)
  BY DEF PlaceInv
<1>2. \A m \in Nodes : \A x \in DOMAIN endpoints[m] : EndOf(x) \in Ends
  BY EndpointFacts
<1>3. \A m \in Nodes : \A x : Available(endpoints, pending, m, x) => x \in DOMAIN endpoints[m]
  BY DEF Available
<1>4. \A x \in X : /\ Available(endpoints, pending, n, x)
                   /\ EndMark(EndOf(x)) \in TaskMarks(task)
                   /\ \A y \in X : EndOf(y) = EndOf(x) => y = x
  <2>1. ASSUME task.op = "message", X = ToSet(task.msg.pipes), NEW x \in X
        PROVE  /\ Available(endpoints, pending, n, x)
               /\ EndMark(EndOf(x)) \in TaskMarks(task)
               /\ \A y \in X : EndOf(y) = EndOf(x) => y = x
    <3> DEFINE msg == task.msg
    <3>1. DistinctEnds(msg) /\ PipesReady(endpoints, pending, n, msg)
      BY <2>1 DEF TaskReady
    <3>2. TaskMarks(task) = MailMarks(msg)
      BY <2>1 DEF TaskMarks
    <3> HIDE DEF msg
    <3>3. ASSUME NEW z \in X
          PROVE  \E i \in DOMAIN msg.descs : i \in DOMAIN msg.pipes /\ z = msg.pipes[i]
                    /\ EndOf(z) = EndOf(msg.descs[i].name) /\ Available(endpoints, pending, n, z)
      BY <2>1, <3>1 DEF ToSet, PipesReady, msg
    <3>4. PICK i \in DOMAIN msg.descs : i \in DOMAIN msg.pipes /\ x = msg.pipes[i]
                    /\ EndOf(x) = EndOf(msg.descs[i].name) /\ Available(endpoints, pending, n, x)
      BY <3>3
    <3>5. EndMark(EndOf(x)) \in MailMarks(msg)
      BY <3>4 DEF MailMarks, DescMarks, ToSet
    <3>6. ASSUME NEW y \in X, EndOf(y) = EndOf(x) PROVE y = x
      <4>1. PICK j \in DOMAIN msg.descs : j \in DOMAIN msg.pipes /\ y = msg.pipes[j]
                    /\ EndOf(y) = EndOf(msg.descs[j].name) /\ Available(endpoints, pending, n, y)
        BY <3>3
      <4>2. i = j
        BY <3>1, <3>4, <3>6, <4>1 DEF DistinctEnds
      <4> QED BY <3>4, <4>1, <4>2
    <3> QED BY <3>2, <3>4, <3>5, <3>6
  <2>2. ASSUME task.op = "joined", X = {task.ep}, NEW x \in X
        PROVE  /\ Available(endpoints, pending, n, x)
               /\ EndMark(EndOf(x)) \in TaskMarks(task)
               /\ \A y \in X : EndOf(y) = EndOf(x) => y = x
    BY <2>2 DEF TaskReady, TaskMarks
  <2> QED BY <2>1, <2>2
<1>5. \A x \in X : EndMark(EndOf(x)) \in Marks(Stored) /\ EndMark(EndOf(x)) \notin Marks(V2)
  BY <1>2, <1>3, <1>4
<1>6. \A x \in X : \A m \in Nodes : \A y \in held[m] : EndOf(y) # EndOf(x)
  BY <1>1, <1>5 DEF HeldOnce
<1>7. \A m \in Nodes : \A x \in held[m] : x \in H2[m] =>
          Available(endpoints, pending, m, x) /\ EndMark(EndOf(x)) \notin Marks(V2)
  BY <1>1, <1>2, <1>3 DEF HeldOnce
<1>8. \A x \in X :
          /\ Available(endpoints, pending, n, x) /\ EndMark(EndOf(x)) \notin Marks(V2)
          /\ \A m \in Nodes : \A y \in held[m] : EndOf(y) # EndOf(x)
          /\ \A y \in X : EndOf(y) = EndOf(x) => y = x
  BY <1>4, <1>5, <1>6
<1>9. HandsOver(endpoints, pending, held, H2, V2, n, X)
  BY <1>7, <1>8 DEF HandsOver
<1> QED BY <1>1, <1>9, HeldStays

\* A thread runs its next task.
LEMMA RunTaskPlaces ==
    ASSUME IndInv, PlaceInv, NEW n \in Nodes, NEW t \in Threads, RunTask(n, t)
    PROVE  PlaceInv'
<1> DEFINE task == Head(tasks[n][t])
           V == Contents(endpoints, wire, call, tasks', got)
<1>1. /\ endpoints' = endpoints /\ pending' = pending /\ wire' = wire /\ call' = call
      /\ names' = names /\ sent' = sent /\ pipes' = pipes /\ channels' = channels
  BY ZenonT(30) DEF RunTask
<1>2. DOMAIN tasks = Nodes /\ DOMAIN held = Nodes /\ DOMAIN got = Ends
      /\ \A k \in Nodes : DOMAIN tasks[k] = Threads
  BY ZenonT(30) DEF IndInv, TasksSound, HeldSound, GotSound
<1>3. /\ tasks[n][t] # << >>
      /\ Tail(tasks[n][t]) = tasks'[n][t]
      /\ \A k \in Nodes : \A u \in Threads : k # n \/ u # t => tasks'[k][u] = tasks[k][u]
  BY <1>2 DEF RunTask
<1>4. /\ V \in Shelves(Boxes, AllMarks) /\ Once(V)
      /\ Marks(V) = Marks(Stored) \ TaskMarks(task)
      /\ TaskMarks(task) \subseteq Marks(Stored)
      /\ task \in Tasks(endpoints, names, n) /\ TaskReady(endpoints, pending, n, task)
      /\ TasksReady(endpoints, pending, tasks')
  BY <1>3, TaskRun
<1> HIDE DEF V
<1>5. ASSUME Once(Stored'), \A id \in Ids : MailMark(id) \in Marks(Stored') <=> MailMark(id) \in Marks(Stored),
             \A e \in Ends : EndMark(e) \in Marks(Stored') => EndMark(e) \in Marks(Stored) \ TaskMarks(task),
             NEW X, \/ task.op = "message" /\ X = ToSet(task.msg.pipes)
                    \/ task.op = "joined" /\ X = {task.ep}
                    \/ task.op = "accepted" /\ X = {},
             \A m \in Nodes : m # n => held'[m] = held[m], held'[n] \subseteq held[n] \cup X
      PROVE  PlaceInv'
  <2> HIDE DEF task
  <2>1. HeldOnce(endpoints, pending, held', Stored')
    BY <1>4, <1>5, TaskHandles
  <2>2. Accounted(Stored', sent)
    BY <1>5 DEF PlaceInv, Accounted
  <2>3. EndsNamed(Stored', names)
    BY <1>5 DEF PlaceInv, EndsNamed
  <2> QED BY <1>1, <1>4, <1>5, <2>1, <2>2, <2>3 DEF PlaceInv
<1>6. CASE task.op = "message"
  <2> DEFINE e == EndOf(task.ep)
             id == task.msg.id
  <2>1. got' = [got EXCEPT ![e] = Append(@, id)]
        /\ held' = [held EXCEPT ![n] = @ \cup ToSet(task.msg.pipes)]
    BY <1>6, ZenonT(30) DEF RunTask
  <2>2. task.ep \in DOMAIN endpoints[n] /\ id \in Ids
    BY <1>4, <1>6 DEF Tasks, Mail
  <2>3. e \in Ends
    BY <2>2, EndpointFacts
  <2>4. got[e] \in Seq(SentTo(e))
    BY <2>3 DEF IndInv, GotSound
  <2>5. Append(got[e], id) = got'[e] /\ \A f \in Ends : f # e => got'[f] = got[f]
    BY <1>2, <2>1, <2>3
  <2>6. \A m \in Nodes : m # n => held'[m] = held[m]
    BY <1>2, <2>1
  <2>7. held'[n] \subseteq held[n] \cup ToSet(task.msg.pipes)
    BY <1>2, <2>1
  <2>8. TaskMarks(task) = MailMarks(task.msg)
    BY <1>6 DEF TaskMarks
  <2> HIDE DEF e, id
  <2>9. Stored' = Post(V, GotBox(e), GotMarks(id))
    <3> DEFINE S == SentTo(e)
    <3>1. got[e] \in Seq(S)
      BY <2>4
    <3> HIDE DEF S
    <3>2. Contents(endpoints, wire, call, tasks', got')
              = Post(Contents(endpoints, wire, call, tasks', got), GotBox(e), GotMarks(id))
      BY <2>3, <3>1, <2>5, GotPosted
    <3> QED BY <1>1, <3>2 DEF Stored, V
  <2>10. MailMark(id) \in TaskMarks(task) /\ GotBox(e) \in Boxes /\ GotMarks(id) \in SUBSET AllMarks
    <3>1. GotBox(e) \in Boxes
      BY <2>3, InGotBox
    <3> QED BY <2>2, <2>8, <3>1, MailMarksAre DEF AllMarks, GotMarks, id
  <2>11. Once(Stored') /\ Marks(Stored') = Marks(V) \cup GotMarks(id)
    <3> DEFINE a == GotMarks(id)
    <3>1. a \cap Marks(V) = {} /\ a \in SUBSET AllMarks
      BY <1>4, <2>10 DEF GotMarks
    <3> HIDE DEF a
    <3>2. Once(Post(V, GotBox(e), a)) /\ Marks(Post(V, GotBox(e), a)) = Marks(V) \cup a
      BY <1>4, <2>10, <3>1, PostOnce
    <3> QED BY <2>9, <3>2 DEF a
  <2>12. \A j \in Ids : MailMark(j) \in Marks(Stored') <=> MailMark(j) \in Marks(Stored)
    <3>1. \A j : MailMark(j) \in TaskMarks(task) <=> j = id
      BY <2>8, MailMarksAre DEF id
    <3>2. MailMark(id) \in Marks(Stored)
      BY <1>4, <2>10
    <3> HIDE DEF task
    <3> QED BY <1>4, <2>11, <3>1, <3>2, MarksDiffer DEF GotMarks
  <2>13. \A f \in Ends : EndMark(f) \in Marks(Stored') => EndMark(f) \in Marks(Stored) \ TaskMarks(task)
    BY <1>4, <2>11, MarksDiffer DEF GotMarks
  <2> QED BY <1>5, <1>6, <2>6, <2>7, <2>11, <2>12, <2>13
<1>7. ASSUME got' = got, Stored' = V, \A id : MailMark(id) \notin TaskMarks(task)
      PROVE  /\ Once(Stored')
             /\ \A id \in Ids : MailMark(id) \in Marks(Stored') <=> MailMark(id) \in Marks(Stored)
             /\ \A e \in Ends : EndMark(e) \in Marks(Stored') => EndMark(e) \in Marks(Stored) \ TaskMarks(task)
  BY <1>4, <1>7
<1>8. CASE task.op = "joined"
  <2>1. got' = got /\ held' = [held EXCEPT ![n] = @ \cup {task.ep}]
    BY <1>8, ZenonT(30) DEF RunTask
  <2>2. Stored' = V
    BY <1>1, <2>1 DEF Stored, V
  <2>3. \A id : MailMark(id) \notin TaskMarks(task)
    BY <1>8, MarksDiffer DEF TaskMarks
  <2>4. \A m \in Nodes : m # n => held'[m] = held[m]
    BY <1>2, <2>1
  <2> DEFINE X == {task.ep}
  <2>5. held'[n] \subseteq held[n] \cup X /\ X = {task.ep}
    BY <1>2, <2>1
  <2> HIDE DEF X, task
  <2> QED BY <1>5, <1>7, <1>8, <2>1, <2>2, <2>3, <2>4, <2>5, ZenonT(30)
<1>9. CASE task.op = "accepted"
  <2>1. got' = got /\ held' = held
    BY <1>9, ZenonT(30) DEF RunTask
  <2>2. Stored' = V
    BY <1>1, <2>1 DEF Stored, V
  <2>3. \A id : MailMark(id) \notin TaskMarks(task)
    BY <1>9 DEF TaskMarks
  <2> DEFINE X == {}
  <2>4. held'[n] \subseteq held[n] \cup X /\ X = {} /\ \A m \in Nodes : held'[m] = held[m]
    BY <2>1
  <2> HIDE DEF X, task
  <2> QED BY <1>5, <1>7, <1>9, <2>1, <2>2, <2>3, <2>4, ZenonT(30)
<1> QED BY <1>6, <1>8, <1>9, ZenonT(30) DEF RunTask

\* What a sequence with one more element holds.
LEMMA OneMore ==
    ASSUME NEW S, NEW s \in Seq(S), NEW x, NEW i \in DOMAIN Append(s, x)
    PROVE  (i \in DOMAIN s /\ Append(s, x)[i] = s[i]) \/ Append(s, x)[i] = x
OBVIOUS

\* A task that is ready can be posted.
LEMMA TaskAppended ==
    ASSUME NEW E, NEW P, NEW T, TasksReady(E, P, T), NEW n \in Nodes, NEW t \in Threads,
           NEW S, T[n][t] \in Seq(S), NEW task, TaskReady(E, P, n, task),
           NEW T2, Append(T[n][t], task) = T2[n][t],
           \A k \in Nodes : \A u \in Threads : k # n \/ u # t => T2[k][u] = T[k][u]
    PROVE  TasksReady(E, P, T2) /\ TasksGain(E, P, T, T2)
<1> SUFFICES ASSUME NEW k \in Nodes, NEW u \in Threads, NEW i \in DOMAIN T2[k][u]
             PROVE  /\ TaskReady(E, P, k, T2[k][u][i])
                    /\ \/ \E j \in DOMAIN T[k][u] : T2[k][u][i] = T[k][u][j]
                       \/ TaskReady(E, P, k, T2[k][u][i])
  BY DEF TasksReady, TasksGain
<1>1. CASE k = n /\ u = t
  <2>1. \/ i \in DOMAIN T[n][t] /\ T2[n][t][i] = T[n][t][i]
        \/ T2[n][t][i] = task
    <3> DEFINE s == T[n][t]
               r == T2[n][t]
    <3>1. s \in Seq(S) /\ Append(s, task) = r /\ i \in DOMAIN r
      BY <1>1
    <3> HIDE DEF s, r
    <3>2. (i \in DOMAIN s /\ r[i] = s[i]) \/ r[i] = task
      BY <3>1, OneMore
    <3> QED BY <3>2 DEF s, r
  <2> QED BY <1>1, <2>1 DEF TasksReady
<1>2. CASE k # n \/ u # t
  BY <1>2 DEF TasksReady
<1> QED BY <1>1, <1>2

\* A thread has written all it had to.
LEMMA FlushDonePlaces ==
    ASSUME IndInv, PlaceInv, NEW n \in Nodes, NEW t \in AllThreads, FlushDone(n, t)
    PROVE  PlaceInv'
<1>1. /\ endpoints' = endpoints /\ pending' = pending /\ wire' = wire /\ got' = got
      /\ names' = names /\ sent' = sent /\ pipes' = pipes /\ channels' = channels /\ held' = held
  BY DEF FlushDone, appVars
<1>2. /\ DOMAIN call = Nodes /\ \A k \in Nodes : DOMAIN call[k] = AllThreads
      /\ DOMAIN tasks = Nodes /\ \A k \in Nodes : DOMAIN tasks[k] = Threads
  BY DEF IndInv, CallsSound, TasksSound
<1>3. \A k \in Nodes : \A u \in AllThreads :
          call'[k][u].msgs = call[k][u].msgs /\ (call'[k][u] = call[k][u] \/ call'[k][u].msgs = << >>)
  BY <1>2 DEF FlushDone, Idle
<1>4. Contents(endpoints, wire, call', tasks, got) = Stored
  BY <1>3, SameContents DEF Stored
<1>5. CallsReady(endpoints, pending, call')
  BY <1>3 DEF PlaceInv, CallsReady
<1>6. CallsBound(channels, call')
  BY <1>3 DEF PlaceInv, CallsBound
<1>7. ASSUME Once(Stored'), Marks(Stored') = Marks(Stored), TasksReady(endpoints, pending, tasks')
      PROVE  PlaceInv'
  <2>1. Accounted(Stored', sent) /\ EndsNamed(Stored', names)
        /\ HeldOnce(endpoints, pending, held, Stored')
    BY <1>7 DEF PlaceInv, Accounted, EndsNamed, HeldOnce
  <2> QED BY <1>1, <1>5, <1>6, <1>7, <2>1 DEF PlaceInv
<1>8. CASE tasks' = tasks
  <2>1. Stored' = Stored
    BY <1>1, <1>4, <1>8 DEF Stored
  <2> QED BY <1>7, <1>8, <2>1 DEF PlaceInv
<1>9. CASE tasks' # tasks
  <2> DEFINE task == [op |-> "accepted", node |-> acceptCallback[n]]
  <2>1. tasks' = [tasks EXCEPT ![n][Origin] = Append(@, task)]
    BY <1>9 DEF FlushDone, Report
  <2>2. Origin \in Threads
    BY ThreadsAssumption
  <2>3. TaskMarks(task) = {}
    BY DEF TaskMarks
  <2>4. TaskReady(endpoints, pending, n, task)
    BY DEF TaskReady
  <2>5. tasks[n][Origin] \in Seq(Tasks(endpoints, names, n))
    BY <2>2 DEF IndInv, TasksSound
  <2> HIDE DEF task
  <2>6. /\ Append(tasks[n][Origin], task) = tasks'[n][Origin]
        /\ \A k \in Nodes : \A u \in Threads : k # n \/ u # Origin => tasks'[k][u] = tasks[k][u]
    BY <1>2, <2>1, <2>2
  <2>7. Contents(endpoints, wire, call, tasks', got) = Post(Stored, TaskBox(n, Origin), TaskMarks(task))
    BY <2>2, <2>5, <2>6, TaskPosted DEF Stored
  <2>8. Contents(endpoints, wire, call', tasks', got) = Contents(endpoints, wire, call, tasks', got)
    BY <1>3, SameContents
  <2>9. Stored' = Post(Stored, TaskBox(n, Origin), TaskMarks(task))
    BY <1>1, <2>7, <2>8 DEF Stored
  <2>10. Once(Stored') /\ Marks(Stored') = Marks(Stored)
    <3>1. TaskBox(n, Origin) \in Boxes
      BY <2>2, InTaskBox
    <3>2. Stored \in Shelves(Boxes, AllMarks) /\ Once(Stored)
      BY StoredTyped DEF PlaceInv
    <3>3. TaskMarks(task) \cap Marks(Stored) = {} /\ TaskMarks(task) \in SUBSET AllMarks
          /\ Marks(Stored) \cup TaskMarks(task) = Marks(Stored)
      BY <2>3
    <3>4. /\ Once(Post(Stored, TaskBox(n, Origin), TaskMarks(task)))
          /\ Marks(Post(Stored, TaskBox(n, Origin), TaskMarks(task))) = Marks(Stored) \cup TaskMarks(task)
      BY <3>1, <3>2, <3>3, PostOnce
    <3> QED BY <2>9, <3>3, <3>4
  <2>11. TasksReady(endpoints, pending, tasks')
    BY <2>2, <2>4, <2>5, <2>6, TaskAppended DEF PlaceInv
  <2> QED BY <1>7, <2>10, <2>11
<1> QED BY <1>8, <1>9
-----------------------------------------------------------------------------
(* Where marks are.                                                         *)

\* The name that an invitation or its answer will end is marked on a wire.
LEMMA InviteMarked ==
    ASSUME NEW E, NEW W, NEW K, NEW T, NEW G, NEW k
    PROVE  InviteMark(k) \in Marks(Contents(E, W, K, T, G)) <=>
               \E m, n \in Nodes : \E i \in DOMAIN W[m][n] :
                   W[m][n][i].type # "USER" /\ W[m][n][i].temporary = k
<1> DEFINE V == Contents(E, W, K, T, G)
<1>0. DOMAIN V = Boxes
  BY DEF Contents
<1>1. \A msg : InviteMark(k) \notin MailMarks(msg)
  BY MailMarksAre
<1>2. \A msg : InviteMark(k) \in WireMarks(msg) <=> msg.type # "USER" /\ msg.temporary = k
  BY <1>1, MarksDiffer DEF WireMarks
<1>3. \A task : InviteMark(k) \notin TaskMarks(task)
  BY <1>1, MarksDiffer DEF TaskMarks
<1>4. \A id : InviteMark(k) \notin GotMarks(id)
  BY MarksDiffer DEF GotMarks
<1> HIDE DEF V
<1>5. ASSUME NEW b \in Boxes, NEW i \in DOMAIN V[b], InviteMark(k) \in V[b][i]
      PROVE  \E m, n \in Nodes : \E j \in DOMAIN W[m][n] :
                   W[m][n][j].type # "USER" /\ W[m][n][j].temporary = k
  <2>0. \/ \E m, n \in Nodes : b = WireBox(m, n)
        \/ \E n \in Nodes : \E x \in Names : b = QueueBox(n, x)
        \/ \E n \in Nodes : \E t \in AllThreads : b = CallBox(n, t)
        \/ \E n \in Nodes : \E t \in Threads : b = TaskBox(n, t)
        \/ \E e \in Ends : b = GotBox(e)
    BY DEF Boxes, WireBox, QueueBox, CallBox, TaskBox, GotBox
  <2>1. ASSUME NEW m \in Nodes, NEW n \in Nodes, b = WireBox(m, n)
        PROVE  \E j \in DOMAIN W[m][n] : W[m][n][j].type # "USER" /\ W[m][n][j].temporary = k
    <3>0. Contents(E, W, K, T, G)[WireBox(m, n)] = OnWire(W[m][n])
      BY InWireBox
    <3>1. V[b] = OnWire(W[m][n])
      BY <2>1, <3>0 DEF V
    <3>2. i \in DOMAIN W[m][n] /\ V[b][i] = WireMarks(W[m][n][i])
      BY <3>1 DEF OnWire
    <3> QED BY <1>2, <1>5, <3>2
  <2>2. ASSUME NEW n \in Nodes, NEW x \in Names, b = QueueBox(n, x) PROVE FALSE
    <3>0. Contents(E, W, K, T, G)[QueueBox(n, x)] = InMail(QueueOf(E, n, x))
      BY InQueueBox
    <3>1. V[b] = InMail(QueueOf(E, n, x))
      BY <2>2, <3>0 DEF V
    <3> QED BY <1>1, <1>5, <3>1 DEF InMail
  <2>3. ASSUME NEW n \in Nodes, NEW t \in AllThreads, b = CallBox(n, t) PROVE FALSE
    <3>0. Contents(E, W, K, T, G)[CallBox(n, t)] = InMail(K[n][t].msgs)
      BY InCallBox
    <3>1. V[b] = InMail(K[n][t].msgs)
      BY <2>3, <3>0 DEF V
    <3> QED BY <1>1, <1>5, <3>1 DEF InMail
  <2>4. ASSUME NEW n \in Nodes, NEW t \in Threads, b = TaskBox(n, t) PROVE FALSE
    <3>0. Contents(E, W, K, T, G)[TaskBox(n, t)] = InTasks(T[n][t])
      BY InTaskBox
    <3>1. V[b] = InTasks(T[n][t])
      BY <2>4, <3>0 DEF V
    <3> QED BY <1>3, <1>5, <3>1 DEF InTasks
  <2>5. ASSUME NEW e \in Ends, b = GotBox(e) PROVE FALSE
    <3>0. Contents(E, W, K, T, G)[GotBox(e)] = InGot(G[e])
      BY InGotBox
    <3>1. V[b] = InGot(G[e])
      BY <2>5, <3>0 DEF V
    <3> QED BY <1>4, <1>5, <3>1 DEF InGot
  <2> QED BY <2>0, <2>1, <2>2, <2>3, <2>4, <2>5
<1>6. ASSUME NEW m \in Nodes, NEW n \in Nodes, NEW i \in DOMAIN W[m][n],
             W[m][n][i].type # "USER", W[m][n][i].temporary = k
      PROVE  InviteMark(k) \in Marks(V)
  <2>0. Contents(E, W, K, T, G)[WireBox(m, n)] = OnWire(W[m][n])
    BY InWireBox
  <2>1. WireBox(m, n) \in Boxes /\ V[WireBox(m, n)] = OnWire(W[m][n])
    BY <2>0, InWireBox DEF V
  <2>2. i \in DOMAIN V[WireBox(m, n)] /\ InviteMark(k) \in V[WireBox(m, n)][i]
    BY <1>2, <1>6, <2>1 DEF OnWire
  <2> QED BY <1>0, <2>1, <2>2, MarksSomewhere
<1>7. ASSUME InviteMark(k) \in Marks(V)
      PROVE  \E m, n \in Nodes : \E j \in DOMAIN W[m][n] :
                   W[m][n][j].type # "USER" /\ W[m][n][j].temporary = k
  BY <1>0, <1>5, <1>7, MarksSomewhere
<1>8. InviteMark(k) \in Marks(V) <=>
          \E m, n \in Nodes : \E j \in DOMAIN W[m][n] :
              W[m][n][j].type # "USER" /\ W[m][n][j].temporary = k
  BY <1>6, <1>7
<1> QED BY <1>8 DEF V

\* What travels is marked.
LEMMA TravelsMarked ==
    ASSUME NEW E, NEW W, NEW K, NEW T, NEW G, NEW e, Travels(W, e)
    PROVE  EndMark(e) \in Marks(Contents(E, W, K, T, G))
<1> DEFINE V == Contents(E, W, K, T, G)
<1>1. PICK m \in Nodes, n \in Nodes : EndMark(e) \in MarksIn(OnWire(W[m][n]))
  BY DEF Travels
<1>2. WireBox(m, n) \in DOMAIN V
  BY InWireBox
<1>4. V[WireBox(m, n)] = OnWire(W[m][n])
  BY InWireBox
<1> HIDE DEF V
<1>3. EndMark(e) \in Marks(V)
  BY <1>1, <1>2, <1>4 DEF Marks
<1> QED BY <1>3 DEF V

\* W2 is W once m has written msg to n.
Wrote(W, W2, S, m, n, msg) ==
    /\ W[m][n] \in Seq(S) /\ Append(W[m][n], msg) = W2[m][n]
    /\ \A k, l \in Nodes : k # m \/ l # n => W2[k][l] = W[k][l]

\* W2 is W once n has read what m wrote first.
HasRead(W, W2, S, m, n) ==
    /\ W[m][n] \in Seq(S) /\ W[m][n] # << >> /\ Tail(W[m][n]) = W2[m][n]
    /\ \A k, l \in Nodes : k # m \/ l # n => W2[k][l] = W[k][l]

\* Taking the head of a sequence leaves the rest.
LEMMA HeadAndTail ==
    ASSUME NEW S, NEW s \in Seq(S), s # << >>, NEW r, Tail(s) = r
    PROVE  /\ \A i \in DOMAIN s : s[i] = Head(s) \/ \E j \in DOMAIN r : r[j] = s[i]
           /\ \A i \in DOMAIN r : \E j \in DOMAIN s : r[i] = s[j]
           /\ \E i \in DOMAIN s : s[i] = Head(s)
<1> DEFINE n == Len(s)
<1>1. n \in Nat /\ n # 0 /\ DOMAIN s = 1..n /\ Head(s) = s[1]
  BY EmptySeq, LenProperties
<1>2. DOMAIN r = 1..(n - 1) /\ \A i \in 1..(n - 1) : r[i] = s[i + 1]
  BY <1>1
<1> HIDE DEF n
<1>3. \A i \in 1..n : i = 1 \/ (i - 1 \in 1..(n - 1) /\ i - 1 + 1 = i)
  BY <1>1
<1>4. \A i \in 1..(n - 1) : i + 1 \in 1..n
  BY <1>1
<1>5. 1 \in 1..n
  BY <1>1
<1>6. ASSUME NEW i \in DOMAIN s PROVE s[i] = Head(s) \/ \E j \in DOMAIN r : r[j] = s[i]
  <2>1. CASE i = 1
    BY <1>1, <2>1
  <2>2. CASE i # 1
    <3>1. i - 1 \in 1..(n - 1) /\ i - 1 + 1 = i
      BY <1>1, <1>3, <2>2
    <3>2. r[i - 1] = s[i]
      BY <1>2, <3>1
    <3> QED BY <1>2, <3>1, <3>2
  <2> QED BY <2>1, <2>2
<1>7. ASSUME NEW i \in DOMAIN r PROVE \E j \in DOMAIN s : r[i] = s[j]
  BY <1>1, <1>2, <1>4
<1> QED BY <1>1, <1>5, <1>6, <1>7

\* What a message or an invitation carries travels when it is written,
LEMMA TravelsPosted ==
    ASSUME NEW W, NEW W2, NEW S, NEW m \in Nodes, NEW n \in Nodes, NEW msg,
           Wrote(W, W2, S, m, n, msg)
    PROVE  \A e : Travels(W2, e) <=> Travels(W, e) \/ EndMark(e) \in WireMarks(msg)
<1> SUFFICES ASSUME NEW e PROVE Travels(W2, e) <=> Travels(W, e) \/ EndMark(e) \in WireMarks(msg)
  OBVIOUS
<1>2. /\ W[m][n] \in Seq(S) /\ Append(W[m][n], msg) = W2[m][n]
      /\ \A k, l \in Nodes : k # m \/ l # n => W2[k][l] = W[k][l]
  BY DEF Wrote
<1>1. EndMark(e) \in MarksIn(OnWire(W2[m][n])) <=>
          EndMark(e) \in MarksIn(OnWire(W[m][n])) \/ EndMark(e) \in WireMarks(msg)
  <2>1. \A s : EndMark(e) \in MarksIn(OnWire(s)) <=> \E i \in DOMAIN s : EndMark(e) \in WireMarks(s[i])
    BY DEF MarksIn, OnWire
  <2>2. \A i \in DOMAIN W2[m][n] : \/ i \in DOMAIN W[m][n] /\ W2[m][n][i] = W[m][n][i]
                                   \/ W2[m][n][i] = msg
    BY <1>2
  <2>3. \A i \in DOMAIN W[m][n] : i \in DOMAIN W2[m][n] /\ W2[m][n][i] = W[m][n][i]
    BY <1>2
  <2>4. \E i \in DOMAIN W2[m][n] : W2[m][n][i] = msg
    <3>1. Len(W[m][n]) \in Nat
      BY <1>2
    <3>2. Len(W[m][n]) + 1 \in DOMAIN W2[m][n] /\ W2[m][n][Len(W[m][n]) + 1] = msg
      BY <1>2
    <3> QED BY <3>2
  <2> QED BY <2>1, <2>2, <2>3, <2>4
<1> QED BY <1>1, <1>2 DEF Travels

\* and no longer when it is read.
LEMMA TravelsDropped ==
    ASSUME NEW W, NEW W2, NEW S, NEW m \in Nodes, NEW n \in Nodes, HasRead(W, W2, S, m, n)
    PROVE  \A e : Travels(W, e) <=> Travels(W2, e) \/ EndMark(e) \in WireMarks(Head(W[m][n]))
<1> SUFFICES ASSUME NEW e
             PROVE Travels(W, e) <=> Travels(W2, e) \/ EndMark(e) \in WireMarks(Head(W[m][n]))
  OBVIOUS
<1>1. EndMark(e) \in MarksIn(OnWire(W[m][n])) <=>
          EndMark(e) \in MarksIn(OnWire(W2[m][n])) \/ EndMark(e) \in WireMarks(Head(W[m][n]))
  <2>1. \A s : EndMark(e) \in MarksIn(OnWire(s)) <=> \E i \in DOMAIN s : EndMark(e) \in WireMarks(s[i])
    BY DEF MarksIn, OnWire
  <2>2. /\ \A i \in DOMAIN W[m][n] : \/ W[m][n][i] = Head(W[m][n])
                                     \/ \E j \in DOMAIN W2[m][n] : W2[m][n][j] = W[m][n][i]
        /\ \A i \in DOMAIN W2[m][n] : \E j \in DOMAIN W[m][n] : W2[m][n][i] = W[m][n][j]
        /\ \E i \in DOMAIN W[m][n] : W[m][n][i] = Head(W[m][n])
    <3> DEFINE s == W[m][n]
               r == W2[m][n]
    <3>1. s \in Seq(S) /\ s # << >> /\ Tail(s) = r
      BY DEF HasRead
    <3> HIDE DEF s, r
    <3>2. /\ \A i \in DOMAIN s : s[i] = Head(s) \/ \E j \in DOMAIN r : r[j] = s[i]
          /\ \A i \in DOMAIN r : \E j \in DOMAIN s : r[i] = s[j]
          /\ \E i \in DOMAIN s : s[i] = Head(s)
      BY <3>1, HeadAndTail
    <3> QED BY <3>2 DEF s, r
  <2> QED BY <2>1, <2>2
<1> QED BY <1>1 DEF Travels, HasRead

\* What it means to write,
LEMMA WroteFacts ==
    ASSUME NEW W, NEW W2, NEW S, NEW m \in Nodes, NEW n \in Nodes, NEW msg,
           Wrote(W, W2, S, m, n, msg)
    PROVE  /\ \A e : Travels(W2, e) <=> Travels(W, e) \/ EndMark(e) \in WireMarks(msg)
           /\ \A k, l \in Nodes : \A i \in DOMAIN W2[k][l] :
                 \/ i \in DOMAIN W[k][l] /\ W2[k][l][i] = W[k][l][i]
                 \/ k = m /\ l = n /\ W2[k][l][i] = msg
<1>1. \A e : Travels(W2, e) <=> Travels(W, e) \/ EndMark(e) \in WireMarks(msg)
  BY TravelsPosted
<1>2. ASSUME NEW k \in Nodes, NEW l \in Nodes, NEW i \in DOMAIN W2[k][l]
      PROVE  \/ i \in DOMAIN W[k][l] /\ W2[k][l][i] = W[k][l][i]
             \/ k = m /\ l = n /\ W2[k][l][i] = msg
  <2>1. CASE k = m /\ l = n
    <3> DEFINE w == W[m][n]
               w2 == W2[m][n]
    <3>1. w \in Seq(S) /\ Append(w, msg) = w2
      BY DEF Wrote
    <3> HIDE DEF w, w2
    <3>2. \A j \in DOMAIN w2 : (j \in DOMAIN w /\ w2[j] = w[j]) \/ w2[j] = msg
      BY <3>1
    <3> QED BY <2>1, <3>2 DEF w, w2
  <2>2. CASE k # m \/ l # n
    BY <2>2 DEF Wrote
  <2> QED BY <2>1, <2>2
<1> QED BY <1>1, <1>2

\* in the boxes,
LEMMA WroteContents ==
    ASSUME NEW E, NEW W, NEW K, NEW T, NEW G, NEW W2, NEW S, NEW m \in Nodes, NEW n \in Nodes,
           NEW msg, Wrote(W, W2, S, m, n, msg)
    PROVE  Contents(E, W2, K, T, G) = Post(Contents(E, W, K, T, G), WireBox(m, n), WireMarks(msg))
BY WirePosted DEF Wrote

\* and for a message that is ready;
LEMMA WroteReady ==
    ASSUME NEW E2, NEW W, NEW W2, NEW S, NEW m \in Nodes, NEW n \in Nodes, NEW msg,
           Wrote(W, W2, S, m, n, msg), WireReady(E2, m, msg)
    PROVE  WiresGain(E2, W, W2)
<1>1. \A k, l \in Nodes : \A i \in DOMAIN W2[k][l] :
          \/ i \in DOMAIN W[k][l] /\ W2[k][l][i] = W[k][l][i]
          \/ k = m /\ l = n /\ W2[k][l][i] = msg
  BY WroteFacts
<1> QED BY <1>1 DEF WiresGain

\* what is on the wires in W2 was there in W;
Remains(W, W2) ==
    \A k, l \in Nodes : \A i \in DOMAIN W2[k][l] :
        \E j \in DOMAIN W[k][l] : W2[k][l][i] = W[k][l][j]

\* and to read,
LEMMA ReadFacts ==
    ASSUME NEW W, NEW W2, NEW S, NEW m \in Nodes, NEW n \in Nodes, HasRead(W, W2, S, m, n)
    PROVE  /\ \A e : Travels(W, e) <=> Travels(W2, e) \/ EndMark(e) \in WireMarks(Head(W[m][n]))
           /\ Remains(W, W2)
<1>1. \A e : Travels(W, e) <=> Travels(W2, e) \/ EndMark(e) \in WireMarks(Head(W[m][n]))
  BY TravelsDropped
<1>2. ASSUME NEW k \in Nodes, NEW l \in Nodes, NEW i \in DOMAIN W2[k][l]
      PROVE  \E j \in DOMAIN W[k][l] : W2[k][l][i] = W[k][l][j]
  <2>1. CASE k = m /\ l = n
    <3> DEFINE w == W[m][n]
               w2 == W2[m][n]
    <3>1. w \in Seq(S) /\ w # << >> /\ Tail(w) = w2
      BY DEF HasRead
    <3> HIDE DEF w, w2
    <3>2. \A r \in DOMAIN w2 : \E j \in DOMAIN w : w2[r] = w[j]
      BY <3>1, HeadAndTail
    <3> QED BY <2>1, <3>2 DEF w, w2
  <2>2. CASE k # m \/ l # n
    BY <2>2 DEF HasRead
  <2> QED BY <2>1, <2>2
<1> QED BY <1>1, <1>2 DEF Remains

\* in the boxes.
LEMMA ReadContents ==
    ASSUME NEW E, NEW W, NEW K, NEW T, NEW G, NEW W2, NEW S, NEW m \in Nodes, NEW n \in Nodes,
           HasRead(W, W2, S, m, n)
    PROVE  /\ Contents(E, W2, K, T, G) = Drop(Contents(E, W, K, T, G), WireBox(m, n))
           /\ WireBox(m, n) \in Boxes /\ Contents(E, W, K, T, G)[WireBox(m, n)] # << >>
           /\ Head(Contents(E, W, K, T, G)[WireBox(m, n)]) = WireMarks(Head(W[m][n]))
BY WireDropped DEF HasRead
-----------------------------------------------------------------------------
(* A new pipe.                                                              *)

EndsOf(p) == {<<p, 1>>, <<p, 2>>}

\* Nothing that is there has an end of a new pipe.
LEMMA NewPipeFacts ==
    ASSUME IndInv, PlaceInv, NEW n \in Nodes, CreatePipe(n)
    PROVE  /\ pipes' = pipes + 1 /\ pipes' \in 1..MaxPipes
           /\ \A m \in Nodes : m # n => endpoints'[m] = endpoints[m]
           /\ DOMAIN endpoints'[n] = DOMAIN endpoints[n] \cup {<<pipes', 1, 0>>, <<pipes', 2, 0>>}
           /\ \A x \in DOMAIN endpoints[n] : endpoints'[n][x] = endpoints[n][x]
           /\ \A s \in {1, 2} : endpoints'[n][<<pipes', s, 0>>].state = "queueing"
                                /\ endpoints'[n][<<pipes', s, 0>>].queue = << >>
           /\ \A m \in Nodes : \A x \in DOMAIN endpoints[m] : EndOf(x) \notin EndsOf(pipes')
           /\ \A e \in EndsOf(pipes') : e \in Ends /\ EndMark(e) \notin Marks(Stored)
           /\ \A e \in Ends : /\ e[1] <= pipes' => e[1] <= pipes \/ e \in EndsOf(pipes')
                              /\ names[e] <= names'[e] /\ names[e] \in Nat /\ names'[e] \in Nat
                              /\ e \in EndsOf(pipes') => names'[e] = 1
<1> DEFINE p == pipes'
           pair == Entangled(n, p)
<1>1. p \in 1..MaxPipes /\ p = pipes + 1 /\ pipes \in Nat
  <2>1. MaxPipes \in Nat /\ pipes \in 0..MaxPipes
    BY BoundsAssumption DEF IndInv, CountersSound
  <2> QED BY <2>1 DEF CreatePipe
<1>2. DOMAIN endpoints = Nodes /\ names \in [Ends -> Nat]
      /\ \A e \in Ends : e[1] > pipes => names[e] = 0
  BY DEF IndInv, EndpointsSound, NamesSound
<1>3. /\ endpoints' = [endpoints EXCEPT ![n] = InsertAll(@, pair)]
      /\ names' = [names EXCEPT ![<<p, 1>>] = 1, ![<<p, 2>>] = 1]
  BY <1>1 DEF CreatePipe
<1>4. DOMAIN pair = {<<p, 1, 0>>, <<p, 2, 0>>}
      /\ \A s \in {1, 2} : pair[<<p, s, 0>>] = NewEndpoint(Address(n, <<p, 3 - s, 0>>))
  BY DEF Entangled
<1> HIDE DEF p, pair
<1>5. /\ \A m \in Nodes : m # n => endpoints'[m] = endpoints[m]
      /\ DOMAIN endpoints'[n] = DOMAIN endpoints[n] \cup {<<p, 1, 0>>, <<p, 2, 0>>}
      /\ \A x \in DOMAIN endpoints[n] : endpoints'[n][x] = endpoints[n][x]
      /\ \A x \in DOMAIN pair \ DOMAIN endpoints[n] : endpoints'[n][x] = pair[x]
  BY <1>2, <1>3, <1>4 DEF InsertAll
<1>6. \A e \in EndsOf(p) : e \in Ends /\ e[1] = p /\ names[e] = 0
  <2>1. <<p, 1>> \in Ends /\ <<p, 2>> \in Ends
    BY <1>1 DEF Ends
  <2>2. \A e \in EndsOf(p) : e \in Ends /\ e[1] = p
    BY <2>1 DEF EndsOf
  <2> QED BY <1>1, <1>2, <2>2
<1>7. \A e \in Ends : /\ e \notin EndsOf(p) => names'[e] = names[e]
                      /\ e \in EndsOf(p) => names'[e] = 1
  <2>1. <<p, 1>> # <<p, 2>> /\ <<p, 1>> \in Ends /\ <<p, 2>> \in Ends
    BY <1>1 DEF Ends
  <2> QED BY <1>2, <1>3, <2>1 DEF EndsOf
<1>8. \A m \in Nodes : \A x \in DOMAIN endpoints[m] : EndOf(x) \notin EndsOf(p)
  <2> SUFFICES ASSUME NEW m \in Nodes, NEW x \in DOMAIN endpoints[m], EndOf(x) \in EndsOf(p)
               PROVE  FALSE
    OBVIOUS
  <2>1. x \in Names /\ x[3] < names[EndOf(x)]
    BY EndpointFacts DEF Given
  <2>2. x[3] \in Nat
    BY <2>1 DEF Names
  <2>3. names[EndOf(x)] = 0
    BY <1>6
  <2> QED BY <2>1, <2>2, <2>3
<1>9. \A e \in EndsOf(p) : EndMark(e) \notin Marks(Stored)
  <2>1. EndsNamed(Stored, names)
    BY DEF PlaceInv
  <2> SUFFICES ASSUME NEW e \in EndsOf(p), EndMark(e) \in Marks(Stored) PROVE FALSE
    OBVIOUS
  <2>2. names[e] > 0
    BY <1>6, <2>1 DEF EndsNamed
  <2> QED BY <1>6, <2>2
<1>10. ASSUME NEW e \in Ends, e[1] <= p PROVE e[1] <= pipes \/ e \in EndsOf(p)
  <2>1. PICK q \in 1..MaxPipes, s \in {1, 2} : e = <<q, s>>
    BY DEF Ends
  <2>2. q <= pipes \/ q = p
    BY <1>1, <1>10, <2>1
  <2> QED BY <2>1, <2>2 DEF EndsOf
<1>11. \A s \in {1, 2} : endpoints'[n][<<p, s, 0>>].state = "queueing"
                         /\ endpoints'[n][<<p, s, 0>>].queue = << >>
  <2> SUFFICES ASSUME NEW s \in {1, 2}
               PROVE  endpoints'[n][<<p, s, 0>>].state = "queueing"
                      /\ endpoints'[n][<<p, s, 0>>].queue = << >>
    OBVIOUS
  <2>1. EndOf(<<p, s, 0>>) \in EndsOf(p)
    BY DEF EndOf, EndsOf
  <2>2. <<p, s, 0>> \in DOMAIN pair \ DOMAIN endpoints[n]
    BY <1>4, <1>8, <2>1
  <2>3. endpoints'[n][<<p, s, 0>>] = pair[<<p, s, 0>>]
    BY <1>5, <2>2
  <2> QED BY <1>4, <2>3 DEF NewEndpoint
<1>12. \A e \in Ends : names[e] <= names'[e] /\ names[e] \in Nat /\ names'[e] \in Nat
  BY <1>2, <1>6, <1>7
<1> QED BY <1>1, <1>5, <1>6, <1>7, <1>8, <1>9, <1>10, <1>11, <1>12 DEF p

\* What is pending is an endpoint, and stays so.
LEMMA PendingFacts ==
    ASSUME PlaceInv, NEW n \in Nodes, NEW k \in DOMAIN pending[n]
    PROVE  /\ k \in DOMAIN channels[n] /\ pending[n][k] \in DOMAIN endpoints[n]
           /\ endpoints[n][pending[n][k]].state = "queueing"
           /\ \A l \in DOMAIN pending[n] : pending[n][l] = pending[n][k] => l = k
BY DEF PlaceInv, PendingReady

\* Two endpoints are added, and perhaps an invitation that reserves one.
LEMMA NewPipePlaces ==
    ASSUME IndInv, PlaceInv, NEW n \in Nodes, CreatePipe(n), NEW P2,
           \A m \in Nodes : \A k \in DOMAIN pending[m] :
               k \in DOMAIN P2[m] /\ P2[m][k] = pending[m][k],
           \A m \in Nodes : \A k \in DOMAIN P2[m] :
               \/ k \in DOMAIN pending[m] /\ P2[m][k] = pending[m][k]
               \/ EndOf(P2[m][k]) \in EndsOf(pipes')
    PROVE  /\ OnlyMoves(endpoints, pending, endpoints', P2, EndsOf(pipes'))
           /\ QueuesGain(endpoints, endpoints', P2)
           /\ Contents(endpoints', wire, call, tasks, got) = Stored
           /\ NamesApart(endpoints')
<1> DEFINE S == EndsOf(pipes')
<1>0. /\ \A m \in Nodes : m # n => endpoints'[m] = endpoints[m]
      /\ DOMAIN endpoints'[n] = DOMAIN endpoints[n] \cup {<<pipes', 1, 0>>, <<pipes', 2, 0>>}
      /\ \A x \in DOMAIN endpoints[n] : endpoints'[n][x] = endpoints[n][x]
      /\ \A s \in {1, 2} : endpoints'[n][<<pipes', s, 0>>].queue = << >>
      /\ \A m \in Nodes : \A x \in DOMAIN endpoints[m] : EndOf(x) \notin S
  BY NewPipeFacts
<1>1. \A m \in Nodes : /\ DOMAIN endpoints[m] \subseteq DOMAIN endpoints'[m]
                       /\ \A x \in DOMAIN endpoints[m] : endpoints'[m][x] = endpoints[m][x]
  BY <1>0
<1>2. ASSUME NEW m \in Nodes, NEW x \in DOMAIN endpoints'[m]
      PROVE  \/ x \in DOMAIN endpoints[m] /\ EndOf(x) \notin S
             \/ m = n /\ EndOf(x) \in S /\ endpoints'[m][x].queue = << >>
  <2>1. CASE x \in DOMAIN endpoints[m]
    BY <1>0, <2>1
  <2>2. CASE x \notin DOMAIN endpoints[m]
    <3>1. m = n
      BY <1>0, <2>2
    <3>2. PICK s \in {1, 2} : x = <<pipes', s, 0>>
      BY <1>0, <2>2, <3>1
    <3>3. EndOf(x) \in S
      BY <3>2 DEF EndOf, EndsOf
    <3> QED BY <1>0, <3>1, <3>2, <3>3
  <2> QED BY <2>1, <2>2
<1> HIDE DEF S
<1>3. OnlyMoves(endpoints, pending, endpoints', P2, S)
  <2> SUFFICES ASSUME NEW m \in Nodes, NEW x \in DOMAIN endpoints'[m], EndOf(x) \notin S
               PROVE  /\ x \in DOMAIN endpoints[m]
                      /\ Available(endpoints', P2, m, x) <=> Available(endpoints, pending, m, x)
                      /\ endpoints[m][x].state = "queueing" => endpoints'[m][x].state = "queueing"
    BY <1>1 DEF OnlyMoves
  <2>1. x \in DOMAIN endpoints[m] /\ endpoints'[m][x] = endpoints[m][x]
    BY <1>1, <1>2
  <2>2. (\A k \in DOMAIN P2[m] : P2[m][k] # x) <=> (\A k \in DOMAIN pending[m] : pending[m][k] # x)
    <3>1. ASSUME NEW k \in DOMAIN P2[m], P2[m][k] = x
          PROVE  k \in DOMAIN pending[m] /\ pending[m][k] = x
      BY <3>1 DEF S
    <3>2. ASSUME NEW k \in DOMAIN pending[m], pending[m][k] = x
          PROVE  k \in DOMAIN P2[m] /\ P2[m][k] = x
      BY <3>2
    <3> QED BY <3>1, <3>2
  <2> QED BY <2>1, <2>2 DEF Available
<1>4. QueuesGain(endpoints, endpoints', P2)
  <2> SUFFICES ASSUME NEW m \in Nodes, NEW x \in DOMAIN endpoints'[m],
                      NEW i \in DOMAIN endpoints'[m][x].queue
               PROVE  /\ x \in DOMAIN endpoints[m]
                      /\ \E j \in DOMAIN endpoints[m][x].queue :
                            endpoints'[m][x].queue[i] = endpoints[m][x].queue[j]
    BY DEF QueuesGain
  <2>1. endpoints'[m][x].queue # << >>
    OBVIOUS
  <2>2. x \in DOMAIN endpoints[m] /\ endpoints'[m][x] = endpoints[m][x]
    BY <1>1, <1>2, <2>1
  <2> QED BY <2>2
<1>5. Contents(endpoints', wire, call, tasks, got) = Stored
  <2>1. ASSUME NEW m \in Nodes, NEW x \in Names
        PROVE  QueueOf(endpoints', m, x) = QueueOf(endpoints, m, x)
    BY <1>1, <1>2 DEF QueueOf
  <2> QED BY <2>1, SameContents DEF Stored
<1>6. NamesApart(endpoints')
  <2> SUFFICES ASSUME NEW k \in Nodes, NEW m \in Nodes, k # m,
                      NEW x \in DOMAIN endpoints'[k], x \in DOMAIN endpoints'[m]
               PROVE  FALSE
    BY DEF NamesApart
  <2>1. CASE EndOf(x) \in S
    BY <1>2, <2>1
  <2>2. CASE EndOf(x) \notin S
    <3>1. x \in DOMAIN endpoints[k] /\ x \in DOMAIN endpoints[m]
      BY <1>2, <2>2
    <3> QED BY <3>1 DEF PlaceInv, NamesApart
  <2> QED BY <2>1, <2>2
<1> QED BY <1>3, <1>4, <1>5, <1>6 DEF S

\* Nothing is queued on the new endpoints.
LEMMA NewPipeQueues ==
    ASSUME IndInv, PlaceInv, NEW n \in Nodes, CreatePipe(n), NEW m \in Nodes, NEW x
    PROVE  QueueOf(endpoints', m, x) = QueueOf(endpoints, m, x)
<1>1. /\ \A k \in Nodes : k # n => endpoints'[k] = endpoints[k]
      /\ DOMAIN endpoints'[n] = DOMAIN endpoints[n] \cup {<<pipes', 1, 0>>, <<pipes', 2, 0>>}
      /\ \A y \in DOMAIN endpoints[n] : endpoints'[n][y] = endpoints[n][y]
      /\ \A s \in {1, 2} : endpoints'[n][<<pipes', s, 0>>].queue = << >>
  BY NewPipeFacts
<1>2. CASE m # n
  BY <1>1, <1>2 DEF QueueOf
<1>3. CASE m = n /\ x \in DOMAIN endpoints[n]
  BY <1>1, <1>3 DEF QueueOf
<1>4. CASE m = n /\ x \notin DOMAIN endpoints[n]
  BY <1>1, <1>4 DEF QueueOf
<1> QED BY <1>2, <1>3, <1>4

\* The application creates a pipe, and has the handles of both ends.
LEMMA CreateMessagePipesPlaces ==
    ASSUME IndInv, PlaceInv, NEW n \in Nodes, NEW t \in Threads, CreateMessagePipes(n, t)
    PROVE  PlaceInv'
<1> DEFINE S == EndsOf(pipes')
           X == {<<pipes', 1, 0>>, <<pipes', 2, 0>>}
<1>1. /\ channels' = channels /\ pending' = pending /\ wire' = wire /\ call' = call
      /\ tasks' = tasks /\ got' = got /\ sent' = sent /\ CreatePipe(n)
  BY DEF CreateMessagePipes
<1>2. /\ \A m \in Nodes : m # n => endpoints'[m] = endpoints[m]
      /\ DOMAIN endpoints'[n] = DOMAIN endpoints[n] \cup X
      /\ \A x \in DOMAIN endpoints[n] : endpoints'[n][x] = endpoints[n][x]
      /\ \A s \in {1, 2} : endpoints'[n][<<pipes', s, 0>>].state = "queueing"
      /\ \A m \in Nodes : \A x \in DOMAIN endpoints[m] : EndOf(x) \notin S
      /\ \A e \in S : e \in Ends /\ EndMark(e) \notin Marks(Stored)
      /\ \A e \in Ends : /\ e[1] <= pipes' => e[1] <= pipes \/ e \in S
                         /\ names[e] <= names'[e] /\ names[e] \in Nat /\ names'[e] \in Nat
  BY <1>1, NewPipeFacts
<1>3. /\ OnlyMoves(endpoints, pending, endpoints', pending, S)
      /\ QueuesGain(endpoints, endpoints', pending)
      /\ Contents(endpoints', wire, call, tasks, got) = Stored
      /\ NamesApart(endpoints')
  BY <1>1, NewPipePlaces
<1>4. Stored' = Stored
  BY <1>1, <1>3 DEF Stored
<1>5. /\ QueuesReady(endpoints', pending) /\ CallsReady(endpoints', pending, call)
      /\ TasksReady(endpoints', pending, tasks) /\ WiresReady(endpoints', wire)
  <2>1. /\ CallsGain(endpoints', pending, call, call) /\ TasksGain(endpoints', pending, tasks, tasks)
        /\ WiresGain(endpoints', wire, wire)
    BY NothingNew
  <2>2. \A m \in Nodes : DOMAIN endpoints[m] \subseteq Names
    BY StoredTyped
  <2>3. /\ QueuesReady(endpoints, pending) /\ CallsReady(endpoints, pending, call)
        /\ TasksReady(endpoints, pending, tasks) /\ WiresReady(endpoints, wire)
    BY DEF PlaceInv
  <2>4. \A e \in S : EndMark(e) \notin Marks(Contents(endpoints, wire, call, tasks, got))
    BY <1>2 DEF Stored
  <2> HIDE DEF S
  <2> QED BY <1>3, <2>1, <2>2, <2>3, <2>4, AllStayReady
<1>6. \A x \in X : /\ x \in DOMAIN endpoints'[n] /\ EndOf(x) \in S
                   /\ Available(endpoints', pending, n, x)
                   /\ EndMark(EndOf(x)) \notin Marks(Stored)
  <2> SUFFICES ASSUME NEW x \in X PROVE  /\ x \in DOMAIN endpoints'[n] /\ EndOf(x) \in S
                                         /\ Available(endpoints', pending, n, x)
                                         /\ EndMark(EndOf(x)) \notin Marks(Stored)
    OBVIOUS
  <2>1. PICK s \in {1, 2} : x = <<pipes', s, 0>>
    OBVIOUS
  <2>2. EndOf(x) \in S
    BY <2>1 DEF EndOf, EndsOf
  <2>3. \A k \in DOMAIN pending[n] : pending[n][k] # x
    BY <1>2, <2>2, PendingFacts
  <2>4. endpoints'[n][x].state # "proxying"
    BY <1>2, <2>1
  <2> QED BY <1>2, <2>2, <2>3, <2>4 DEF Available
<1>7. HeldOnce(endpoints', pending, held', Stored)
  <2>1. HeldOnce(endpoints, pending, held, Stored)
    BY DEF PlaceInv
  <2>2. DOMAIN held = Nodes /\ \A m \in Nodes : held[m] \subseteq DOMAIN endpoints[m]
    BY DEF IndInv, HeldSound
  <2>3. (\A m \in Nodes : m # n => held'[m] = held[m]) /\ held'[n] \subseteq held[n] \cup X
    BY <2>2 DEF CreateMessagePipes
  <2>4. ASSUME NEW m \in Nodes, NEW x \in held[m]
        PROVE  Available(endpoints', pending, m, x) /\ EndMark(EndOf(x)) \notin Marks(Stored)
    <3>1. Available(endpoints, pending, m, x) /\ x \in DOMAIN endpoints[m] /\ x \in DOMAIN endpoints'[m]
      BY <1>2, <2>1, <2>2 DEF HeldOnce
    <3> QED BY <1>2, <1>3, <2>1, <3>1 DEF OnlyMoves, HeldOnce
  <2>5. \A x \in X : /\ \A m \in Nodes : \A y \in held[m] : EndOf(y) # EndOf(x)
                     /\ \A y \in X : EndOf(y) = EndOf(x) => y = x
    <3>1. \A x \in X : \A m \in Nodes : \A y \in held[m] : EndOf(y) # EndOf(x)
      BY <1>2, <1>6, <2>2
    <3>2. \A x, y \in X : EndOf(y) = EndOf(x) => y = x
      BY DEF EndOf
    <3> QED BY <3>1, <3>2
  <2>6. HandsOver(endpoints', pending, held, held', Stored, n, X)
    BY <1>6, <2>3, <2>4, <2>5 DEF HandsOver
  <2> HIDE DEF X
  <2> QED BY <2>1, <2>6, HeldStays
<1>8. AllAtHome(endpoints', pending, wire, pipes')
  <2>1. ASSUME NEW e \in S PROVE AtHome(endpoints', pending, wire, e)
    <3>1. ~Travels(wire, e)
      BY <1>2, TravelsMarked DEF Stored
    <3>2. PICK x \in X : EndOf(x) = e
      BY DEF EndsOf, EndOf
    <3>3. ASSUME NEW m \in Nodes, NEW y \in DOMAIN endpoints'[m], EndOf(y) = e PROVE m = n /\ y = x
      <4>1. m = n /\ y \in X
        BY <1>2, <3>3
      <4> QED BY <3>2, <3>3, <4>1 DEF EndOf
    <3> HIDE DEF X
    <3> QED BY <1>6, <3>1, <3>2, <3>3 DEF AtHome
  <2>2. AllAtHome(endpoints, pending, wire, pipes)
    BY DEF PlaceInv
  <2> HIDE DEF S
  <2>3. HomesMove(endpoints', pending, wire, wire, pipes, pipes', S)
    BY <1>2, <2>1 DEF HomesMove
  <2> QED BY <1>3, <2>2, <2>3, HomesStay
<1>9. PendingReady(endpoints', channels, pending)
  <2> SUFFICES ASSUME NEW m \in Nodes, NEW k \in DOMAIN pending[m]
               PROVE  /\ k \in DOMAIN channels[m]
                      /\ pending[m][k] \in DOMAIN endpoints'[m]
                      /\ endpoints'[m][pending[m][k]].state = "queueing"
                      /\ \A l \in DOMAIN pending[m] : pending[m][l] = pending[m][k] => l = k
    BY DEF PendingReady
  <2> QED BY <1>2, PendingFacts
<1>10. ProxiesReady(endpoints', channels)
  <2> SUFFICES ASSUME NEW m \in Nodes, NEW x \in DOMAIN endpoints'[m], endpoints'[m][x].state = "proxying"
               PROVE  endpoints'[m][x].target.node \in DOMAIN channels[m]
    BY DEF ProxiesReady
  <2>1. x \in DOMAIN endpoints[m] /\ endpoints'[m][x] = endpoints[m][x]
    BY <1>2
  <2> QED BY <2>1 DEF PlaceInv, ProxiesReady
<1>11. Accounted(Stored, sent)
  BY DEF PlaceInv
<1>12. EndsNamed(Stored, names')
  <2> SUFFICES ASSUME NEW e \in Ends, EndMark(e) \in Marks(Stored) PROVE names'[e] > 0
    BY DEF EndsNamed
  <2>1. names[e] > 0
    BY DEF PlaceInv, EndsNamed
  <2> QED BY <1>2, <2>1
<1> QED BY <1>1, <1>3, <1>4, <1>5, <1>7, <1>8, <1>9, <1>10, <1>11, <1>12 DEF PlaceInv

\* No invitation to m is on its way, answered or not, before n invites m.
LEMMA NotInvited ==
    ASSUME IndInv, NEW n \in Nodes, NEW m \in Nodes, <<n, m>> \in Invitations,
           ~Engaged(channels, n, m)
    PROVE  InviteMark(Temporary(m)) \notin Marks(Stored)
<1> SUFFICES ASSUME NEW k \in Nodes, NEW l \in Nodes, NEW i \in DOMAIN wire[k][l],
                    wire[k][l][i].type # "USER", wire[k][l][i].temporary = Temporary(m)
             PROVE  FALSE
  BY InviteMarked DEF Stored
<1> DEFINE msg == wire[k][l][i]
<1>1. msg \in Traffic(endpoints, names, channels, pending, k, l)
  <2>1. wire[k][l] \in Seq(Traffic(endpoints, names, channels, pending, k, l))
    BY WireIsSeq DEF IndInv
  <2> QED BY <2>1
<1> HIDE DEF msg
<1>2. msg.type # "USER" /\ msg.temporary = Temporary(m)
  BY DEF msg
<1>3. CASE msg \in Invites(endpoints, names, channels, pending, k, l)
  <2>1. Temporary(l) = Temporary(m) /\ <<k, l>> \in Invitations /\ Engaged(channels, k, l)
    BY <1>2, <1>3 DEF Invites
  <2>2. l = m
    BY <2>1, TemporaryFacts
  <2>3. k = n
    BY <2>1, <2>2, InvitationFacts
  <2> QED BY <2>1, <2>2, <2>3
<1>4. CASE msg \in Accepts(endpoints, channels, pending, l, k)
  <2>1. Temporary(k) = Temporary(m) /\ <<l, k>> \in Invitations /\ Engaged(channels, l, k)
    BY <1>2, <1>4 DEF Accepts
  <2>2. k = m
    BY <2>1, TemporaryFacts
  <2>3. l = n
    BY <2>1, <2>2, InvitationFacts
  <2> QED BY <2>1, <2>2, <2>3
<1>5. CASE msg \in RoutedMail(endpoints, names)
  BY <1>2, <1>5 DEF RoutedMail, Mail
<1> QED BY <1>1, <1>3, <1>4, <1>5 DEF Traffic

\* The application invites node m over a new pipe, and has the handle of its
\* first end; the second is on its way.
LEMMA SendInvitationPlaces ==
    ASSUME IndInv, PlaceInv, NEW n \in Nodes, NEW t \in Threads, NEW m \in Nodes,
           SendInvitation(n, t, m)
    PROVE  PlaceInv'
<1> DEFINE p == pipes'
           S == EndsOf(p)
           x1 == <<p, 1, 0>>
           x2 == <<p, 2, 0>>
           msg == [type |-> "INVITE", inviter |-> n, temporary |-> Temporary(m), peer |-> x1]
           V2 == Contents(endpoints, wire', call, tasks, got)
<1>1. /\ call' = call /\ tasks' = tasks /\ got' = got /\ sent' = sent /\ CreatePipe(n)
      /\ <<n, m>> \in Invitations /\ {m, Temporary(m)} \cap DOMAIN channels[n] = {}
  BY DEF SendInvitation
<1>2. /\ \A k \in Nodes : k # n => endpoints'[k] = endpoints[k]
      /\ DOMAIN endpoints'[n] = DOMAIN endpoints[n] \cup {x1, x2}
      /\ \A x \in DOMAIN endpoints[n] : endpoints'[n][x] = endpoints[n][x]
      /\ \A s \in {1, 2} : endpoints'[n][<<p, s, 0>>].state = "queueing"
      /\ \A k \in Nodes : \A x \in DOMAIN endpoints[k] : EndOf(x) \notin S
      /\ \A e \in S : e \in Ends /\ EndMark(e) \notin Marks(Stored)
      /\ \A e \in Ends : /\ e[1] <= p => e[1] <= pipes \/ e \in S
                         /\ names[e] <= names'[e] /\ names[e] \in Nat /\ names'[e] \in Nat
                         /\ e \in S => names'[e] = 1
  BY <1>1, NewPipeFacts
<1>3. /\ EndOf(x1) = <<p, 1>> /\ EndOf(x2) = <<p, 2>> /\ Partner(<<p, 1>>) = <<p, 2>>
      /\ <<p, 1>> \in S /\ <<p, 2>> \in S /\ x1 # x2 /\ <<p, 1>> # <<p, 2>>
  BY DEF EndOf, Partner, EndsOf
<1>4. /\ WireMarks(msg) = {InviteMark(Temporary(m)), EndMark(<<p, 2>>)}
      /\ msg.type = "INVITE" /\ msg.temporary = Temporary(m)
  BY <1>3 DEF WireMarks
<1>5. /\ DOMAIN wire = Nodes /\ DOMAIN wire[n] = Nodes /\ DOMAIN channels = Nodes
      /\ DOMAIN pending = Nodes /\ DOMAIN held = Nodes
      /\ \A k \in Nodes : held[k] \subseteq DOMAIN endpoints[k]
  BY DEF IndInv, WiresSound, ChannelsSound, PendingSound, HeldSound
<1> DEFINE Q == Traffic(endpoints, names, channels, pending, n, m)
<1>6. wire[n][m] \in Seq(Q)
  BY WireIsSeq DEF IndInv
<1>7. wire' = [wire EXCEPT ![n][m] = Append(@, msg)]
  BY DEF SendInvitation
<1> HIDE DEF msg, Q
<1>8. /\ Append(wire[n][m], msg) = wire'[n][m]
      /\ \A k, l \in Nodes : k # n \/ l # m => wire'[k][l] = wire[k][l]
  BY <1>5, <1>7
<1>30. Wrote(wire, wire', Q, n, m, msg)
  BY <1>6, <1>8 DEF Wrote
<1>31. /\ \A e : Travels(wire', e) <=> Travels(wire, e) \/ EndMark(e) \in WireMarks(msg)
       /\ \A k, l \in Nodes : \A i \in DOMAIN wire'[k][l] :
             \/ i \in DOMAIN wire[k][l] /\ wire'[k][l][i] = wire[k][l][i]
             \/ k = n /\ l = m /\ wire'[k][l][i] = msg
  <2>1. \A e : Travels(wire', e) <=> Travels(wire, e) \/ EndMark(e) \in WireMarks(msg)
    BY <1>30, WroteFacts
  <2>2. \A k, l \in Nodes : \A i \in DOMAIN wire'[k][l] :
             \/ i \in DOMAIN wire[k][l] /\ wire'[k][l][i] = wire[k][l][i]
             \/ k = n /\ l = m /\ wire'[k][l][i] = msg
    BY <1>30, WroteFacts
  <2> QED BY <2>1, <2>2
<1>9. Temporary(m) \notin DOMAIN pending[n]
  BY <1>1, PendingFacts
<1>10. /\ \A k \in Nodes : k # n => pending'[k] = pending[k] /\ channels'[k] = channels[k]
       /\ DOMAIN pending'[n] = DOMAIN pending[n] \cup {Temporary(m)}
       /\ pending'[n][Temporary(m)] = x2
       /\ \A k \in DOMAIN pending[n] : pending'[n][k] = pending[n][k]
       /\ DOMAIN channels'[n] = DOMAIN channels[n] \cup {Temporary(m)}
  BY <1>5, <1>9 DEF SendInvitation, Insert, InsertAll
<1>11. held'[n] \subseteq held[n] \cup {x1} /\ \A k \in Nodes : k # n => held'[k] = held[k]
  BY <1>5 DEF SendInvitation
<1>12. /\ \A k \in Nodes : \A l \in DOMAIN pending[k] :
             l \in DOMAIN pending'[k] /\ pending'[k][l] = pending[k][l]
       /\ \A k \in Nodes : \A l \in DOMAIN pending'[k] :
             \/ l \in DOMAIN pending[k] /\ pending'[k][l] = pending[k][l]
             \/ EndOf(pending'[k][l]) \in S /\ k = n /\ l = Temporary(m)
       /\ \A k \in Nodes : DOMAIN channels[k] \subseteq DOMAIN channels'[k]
  <2>1. ASSUME NEW k \in Nodes, NEW l \in DOMAIN pending'[k]
        PROVE  \/ l \in DOMAIN pending[k] /\ pending'[k][l] = pending[k][l]
               \/ EndOf(pending'[k][l]) \in S /\ k = n /\ l = Temporary(m)
    BY <1>3, <1>10
  <2> QED BY <1>10, <2>1
<1> HIDE DEF p, S, x1, x2
<1>13. /\ OnlyMoves(endpoints, pending, endpoints', pending', S)
       /\ QueuesGain(endpoints, endpoints', pending')
       /\ NamesApart(endpoints')
  BY <1>1, <1>12, NewPipePlaces DEF p, S
<1>14. Contents(endpoints', wire', call, tasks, got) = V2
  <2>1. \A k \in Nodes : \A x \in Names : QueueOf(endpoints', k, x) = QueueOf(endpoints, k, x)
    BY <1>1, NewPipeQueues
  <2> QED BY <2>1, SameContents
<1>15. V2 = Post(Stored, WireBox(n, m), WireMarks(msg)) /\ WireBox(n, m) \in Boxes
  <2>1. WireBox(n, m) \in Boxes
    BY InWireBox
  <2>2. V2 = Post(Contents(endpoints, wire, call, tasks, got), WireBox(n, m), WireMarks(msg))
    BY <1>30, WroteContents
  <2> QED BY <2>1, <2>2 DEF Stored
<1>16. Stored' = V2
  BY <1>1, <1>14 DEF Stored
<1> HIDE DEF V2
<1>17. Once(Stored') /\ Marks(Stored') = Marks(Stored) \cup WireMarks(msg)
  <2>1. WireMarks(msg) \cap Marks(Stored) = {}
    <3>1. InviteMark(Temporary(m)) \notin Marks(Stored)
      BY <1>1, NotInvited DEF Engaged
    <3> QED BY <1>2, <1>3, <1>4, <3>1
  <2>2. WireMarks(msg) \in SUBSET AllMarks
    <3>1. Temporary(m) \in Keys
      BY TemporaryFacts
    <3> QED BY <1>2, <1>3, <1>4, <3>1 DEF AllMarks
  <2>3. Stored \in Shelves(Boxes, AllMarks) /\ Once(Stored)
    BY StoredTyped DEF PlaceInv
  <2> QED BY <1>15, <1>16, <2>1, <2>2, <2>3, PostOnce
<1>18. /\ \A e : EndMark(e) \in Marks(Stored') <=> EndMark(e) \in Marks(Stored) \/ e = <<p, 2>>
       /\ \A id : MailMark(id) \in Marks(Stored') <=> MailMark(id) \in Marks(Stored)
  BY <1>4, <1>17, MarksDiffer
<1>19. /\ QueuesReady(endpoints', pending') /\ CallsReady(endpoints', pending', call)
       /\ TasksReady(endpoints', pending', tasks) /\ WiresReady(endpoints', wire')
  <2>1. /\ CallsGain(endpoints', pending', call, call)
        /\ TasksGain(endpoints', pending', tasks, tasks)
    BY NothingNew
  <2>2. WireReady(endpoints', n, msg)
    BY <1>4 DEF WireReady
  <2>3. WiresGain(endpoints', wire, wire')
    BY <1>30, <2>2, WroteReady
  <2>4. \A k \in Nodes : DOMAIN endpoints[k] \subseteq Names
    BY StoredTyped
  <2>5. /\ QueuesReady(endpoints, pending) /\ CallsReady(endpoints, pending, call)
        /\ TasksReady(endpoints, pending, tasks) /\ WiresReady(endpoints, wire)
    BY DEF PlaceInv
  <2>6. \A e \in S : EndMark(e) \notin Marks(Contents(endpoints, wire, call, tasks, got))
    BY <1>2 DEF Stored
  <2> QED BY <1>13, <2>1, <2>3, <2>4, <2>5, <2>6, AllStayReady
<1>20. /\ Available(endpoints', pending', n, x1) /\ x1 \in DOMAIN endpoints'[n]
       /\ ~Available(endpoints', pending', n, x2)
       /\ \A k \in Nodes : \A y \in DOMAIN endpoints'[k] :
             /\ EndOf(y) = <<p, 1>> => k = n /\ y = x1
             /\ EndOf(y) = <<p, 2>> => k = n /\ y = x2
  <2>1. \A k \in DOMAIN pending'[n] : pending'[n][k] # x1
    <3> SUFFICES ASSUME NEW k \in DOMAIN pending'[n], pending'[n][k] = x1 PROVE FALSE
      OBVIOUS
    <3>1. k \in DOMAIN pending[n] /\ pending[n][k] = x1
      BY <1>3, <1>10
    <3>2. x1 \in DOMAIN endpoints[n]
      BY <3>1, PendingFacts
    <3> QED BY <1>2, <1>3, <3>2
  <2>2. endpoints'[n][x1].state # "proxying"
    BY <1>2 DEF x1
  <2>3. Temporary(m) \in DOMAIN pending'[n] /\ pending'[n][Temporary(m)] = x2
    BY <1>10
  <2>4. ASSUME NEW k \in Nodes, NEW y \in DOMAIN endpoints'[k], EndOf(y) \in S
        PROVE  k = n /\ y \in {x1, x2}
    BY <1>2, <2>4
  <2> QED BY <1>2, <1>3, <2>1, <2>2, <2>3, <2>4 DEF Available
<1>21. HeldOnce(endpoints', pending', held', Stored')
  <2> DEFINE X == {x1}
  <2>1. HeldOnce(endpoints, pending, held, Stored)
    BY DEF PlaceInv
  <2>2. ASSUME NEW k \in Nodes, NEW x \in held[k]
        PROVE  Available(endpoints', pending', k, x) /\ EndMark(EndOf(x)) \notin Marks(Stored')
    <3>1. Available(endpoints, pending, k, x) /\ x \in DOMAIN endpoints[k] /\ x \in DOMAIN endpoints'[k]
      BY <1>2, <1>5, <2>1 DEF HeldOnce
    <3>2. EndOf(x) \notin S /\ EndMark(EndOf(x)) \notin Marks(Stored)
      BY <1>2, <2>1, <3>1 DEF HeldOnce
    <3>3. EndMark(EndOf(x)) \notin Marks(Stored')
      BY <1>3, <1>18, <3>2
    <3> QED BY <1>13, <3>1, <3>2, <3>3 DEF OnlyMoves
  <2>3. EndMark(EndOf(x1)) \notin Marks(Stored')
    BY <1>2, <1>3, <1>18
  <2>4. \A k \in Nodes : \A y \in held[k] : EndOf(y) # EndOf(x1)
    BY <1>2, <1>3, <1>5
  <2>5. HandsOver(endpoints', pending', held, held', Stored', n, X)
    BY <1>11, <1>20, <2>2, <2>3, <2>4 DEF HandsOver
  <2> HIDE DEF X
  <2> QED BY <2>1, <2>5, HeldStays
<1>22. AllAtHome(endpoints', pending', wire', p)
  <2>2. \A e : Travels(wire', e) <=> Travels(wire, e) \/ e = <<p, 2>>
    BY <1>4, <1>31, MarksDiffer
  <2>3. \A e \in S : ~Travels(wire, e)
    BY <1>2, TravelsMarked DEF Stored
  <2>4. AtHome(endpoints', pending', wire', <<p, 1>>)
    BY <1>3, <1>20, <2>2, <2>3 DEF AtHome
  <2>5. AtHome(endpoints', pending', wire', <<p, 2>>)
    BY <1>20, <2>2 DEF AtHome
  <2>6. HomesMove(endpoints', pending', wire, wire', pipes, p, S)
    <3>1. S = {<<p, 1>>, <<p, 2>>}
      BY DEF S, EndsOf
    <3>2. \A e \in Ends \ S : Travels(wire', e) <=> Travels(wire, e)
      BY <2>2, <3>1
    <3>3. \A e \in S \cap Ends : AtHome(endpoints', pending', wire', e)
      BY <2>4, <2>5, <3>1
    <3> QED BY <1>2, <3>2, <3>3 DEF HomesMove
  <2>7. AllAtHome(endpoints, pending, wire, pipes)
    BY DEF PlaceInv
  <2> QED BY <1>13, <2>6, <2>7, HomesStay
<1>23. PendingReady(endpoints', channels', pending')
  <2> SUFFICES ASSUME NEW k \in Nodes, NEW l \in DOMAIN pending'[k]
               PROVE  /\ l \in DOMAIN channels'[k]
                      /\ pending'[k][l] \in DOMAIN endpoints'[k]
                      /\ endpoints'[k][pending'[k][l]].state = "queueing"
                      /\ \A o \in DOMAIN pending'[k] : pending'[k][o] = pending'[k][l] => o = l
    BY DEF PendingReady
  <2>1. CASE l \in DOMAIN pending[k] /\ pending'[k][l] = pending[k][l]
    <3>1. /\ l \in DOMAIN channels[k] /\ pending[k][l] \in DOMAIN endpoints[k]
          /\ endpoints[k][pending[k][l]].state = "queueing"
          /\ \A o \in DOMAIN pending[k] : pending[k][o] = pending[k][l] => o = l
      BY <2>1, PendingFacts
    <3>2. \A o \in DOMAIN pending'[k] : pending'[k][o] = pending'[k][l] =>
              o \in DOMAIN pending[k] /\ pending'[k][o] = pending[k][o]
      BY <1>2, <1>12, <2>1, <3>1
    <3> QED BY <1>2, <1>12, <2>1, <3>1, <3>2
  <2>2. CASE k = n /\ l = Temporary(m) /\ l \notin DOMAIN pending[k]
    <3>1. pending'[k][l] = x2
      BY <1>10, <2>2
    <3>2. endpoints'[n][x2].state = "queueing"
      BY <1>2 DEF x2
    <3>3. ASSUME NEW o \in DOMAIN pending'[n], pending'[n][o] = x2 PROVE o = Temporary(m)
      <4> SUFFICES ASSUME o \in DOMAIN pending[n] PROVE FALSE
        BY <1>10
      <4>1. x2 \in DOMAIN endpoints[n]
        BY <1>10, <3>3, PendingFacts
      <4> QED BY <1>2, <1>3, <4>1
    <3> QED BY <1>2, <1>10, <2>2, <3>1, <3>2, <3>3
  <2> QED BY <1>9, <1>12, <2>1, <2>2
<1>24. ProxiesReady(endpoints', channels')
  <2> SUFFICES ASSUME NEW k \in Nodes, NEW x \in DOMAIN endpoints'[k], endpoints'[k][x].state = "proxying"
               PROVE  endpoints'[k][x].target.node \in DOMAIN channels'[k]
    BY DEF ProxiesReady
  <2>1. x \in DOMAIN endpoints[k] /\ endpoints'[k][x] = endpoints[k][x]
    BY <1>2 DEF x1, x2
  <2> QED BY <1>12, <2>1 DEF PlaceInv, ProxiesReady
<1>25. CallsBound(channels', call)
  BY <1>12 DEF PlaceInv, CallsBound
<1>26. InvitesPending(pending', wire')
  <2> SUFFICES ASSUME NEW k \in Nodes, NEW l \in Nodes, NEW i \in DOMAIN wire'[k][l]
               PROVE  /\ wire'[k][l][i].type = "INVITE" => wire'[k][l][i].temporary \in DOMAIN pending'[k]
                      /\ wire'[k][l][i].type = "ACCEPT" => wire'[k][l][i].temporary \in DOMAIN pending'[l]
    BY DEF InvitesPending
  <2>1. CASE i \in DOMAIN wire[k][l] /\ wire'[k][l][i] = wire[k][l][i]
    BY <1>12, <2>1 DEF PlaceInv, InvitesPending
  <2>2. CASE k = n /\ l = m /\ wire'[k][l][i] = msg
    BY <1>4, <1>10, <2>2
  <2> QED BY <1>31, <2>1, <2>2
<1>27. Introductions(channels', wire')
  <2>1. \A k, l \in Nodes : /\ l \in DOMAIN channels'[k] <=> l \in DOMAIN channels[k]
                            /\ Temporary(l) \in DOMAIN channels'[k] =>
                                  Temporary(l) \in DOMAIN channels[k] \/ (k = n /\ l = m)
    BY <1>10, TemporaryFacts
  <2>2. Introductions(channels, wire)
    BY DEF PlaceInv
  <2>3. \A k, l \in Nodes : Engaged(channels, k, l) => Engaged(channels', k, l)
    BY <1>12 DEF Engaged
  <2>4. ASSUME NEW k \in Nodes, NEW l \in Nodes, <<l, k>> \in Invitations, l \in DOMAIN channels'[k],
               NEW i \in DOMAIN wire'[l][k]
        PROVE  wire'[l][k][i].type # "INVITE"
    <3>1. l \in DOMAIN channels[k] /\ Engaged(channels, l, k)
          /\ \A j \in DOMAIN wire[l][k] : wire[l][k][j].type # "INVITE"
      BY <2>1, <2>2, <2>4 DEF Introductions
    <3>2. l # n \/ k # m
      BY <1>1, <3>1 DEF Engaged
    <3> QED BY <1>8, <3>1, <3>2
  <2> QED BY <1>1, <2>1, <2>2, <2>3, <2>4, ZenonT(30) DEF Introductions
<1>28. Accounted(Stored', sent)
  BY <1>18 DEF PlaceInv, Accounted
<1>29. EndsNamed(Stored', names')
  <2> SUFFICES ASSUME NEW e \in Ends, EndMark(e) \in Marks(Stored') PROVE names'[e] > 0
    BY DEF EndsNamed
  <2>1. CASE EndMark(e) \in Marks(Stored)
    <3>1. names[e] > 0
      BY <2>1 DEF PlaceInv, EndsNamed
    <3> QED BY <1>2, <3>1
  <2>2. CASE e = <<p, 2>>
    BY <1>2, <1>3, <2>2
  <2> QED BY <1>18, <2>1, <2>2
<1> QED BY <1>1, <1>13, <1>17, <1>19, <1>21, <1>22, <1>23, <1>24, <1>25, <1>26, <1>27, <1>28, <1>29
        DEF PlaceInv, p
-----------------------------------------------------------------------------
(* Reading.                                                                 *)

\* What is left is as ready as it was.
LEMMA ReadReady ==
    ASSUME NEW W, NEW W2, NEW S, NEW m \in Nodes, NEW n \in Nodes, HasRead(W, W2, S, m, n),
           NEW E, WiresReady(E, W)
    PROVE  WiresReady(E, W2)
<1>1. Remains(W, W2)
  BY ReadFacts
<1> SUFFICES ASSUME NEW k \in Nodes, NEW l \in Nodes, NEW i \in DOMAIN W2[k][l]
             PROVE  WireReady(E, k, W2[k][l][i])
  BY DEF WiresReady
<1>2. PICK j \in DOMAIN W[k][l] : W2[k][l][i] = W[k][l][j]
  BY <1>1 DEF Remains
<1> QED BY <1>2 DEF WiresReady

\* The marks of what is on the wires change by one message.
LEMMA WireRead ==
    ASSUME IndInv, PlaceInv, NEW m \in Nodes, NEW n \in Nodes, NEW W1, NEW Q,
           HasRead(wire, W1, Q, m, n), NEW msg, msg = Head(wire[m][n]),
           NEW V, V = Contents(endpoints, W1, call, tasks, got)
    PROVE  /\ V \in Shelves(Boxes, AllMarks) /\ Once(V)
           /\ Marks(V) = Marks(Stored) \ WireMarks(msg)
           /\ WireMarks(msg) \subseteq Marks(Stored)
           /\ WireReady(endpoints, m, msg) /\ WiresReady(endpoints, W1)
           /\ \E i \in DOMAIN wire[m][n] : wire[m][n][i] = msg
<1> DEFINE b == WireBox(m, n)
<1>1. V = Drop(Stored, b) /\ b \in Boxes /\ Stored[b] # << >> /\ Head(Stored[b]) = WireMarks(msg)
  BY ReadContents DEF Stored
<1>2. Stored \in Shelves(Boxes, AllMarks) /\ Once(Stored)
  BY StoredTyped DEF PlaceInv
<1> HIDE DEF b
<1>3. V \in Shelves(Boxes, AllMarks) /\ Once(V) /\ Marks(V) = Marks(Stored) \ WireMarks(msg)
  BY <1>1, <1>2, DropOnce
<1>4. WireMarks(msg) \subseteq Marks(Stored)
  <2>1. Stored \in [Boxes -> Seq(SUBSET AllMarks)]
    BY <1>2 DEF Shelves
  <2>2. 1 \in DOMAIN Stored[b] /\ Stored[b][1] = WireMarks(msg) /\ b \in DOMAIN Stored
    BY <1>1, <2>1
  <2> QED BY <2>2, MarksSomewhere
<1>5. \E i \in DOMAIN wire[m][n] : wire[m][n][i] = msg
  <2> DEFINE s == wire[m][n]
             r == W1[m][n]
  <2>1. s \in Seq(Q) /\ s # << >> /\ Tail(s) = r /\ msg = Head(s)
    BY DEF HasRead
  <2> HIDE DEF s, r
  <2>2. \E i \in DOMAIN s : s[i] = Head(s)
    BY <2>1, HeadAndTail
  <2> QED BY <2>1, <2>2 DEF s
<1>6. WireReady(endpoints, m, msg)
  BY <1>5 DEF PlaceInv, WiresReady
<1>7. WiresReady(endpoints, W1)
  <2>1. WiresReady(endpoints, wire)
    BY DEF PlaceInv
  <2> QED BY <2>1, ReadReady
<1> QED BY <1>3, <1>4, <1>5, <1>6, <1>7

\* The read message was on that wire, and what it carries travels no more.
LEMMA ReadNoMore ==
    ASSUME IndInv, PlaceInv, NEW m \in Nodes, NEW n \in Nodes, NEW W1, NEW Q,
           HasRead(wire, W1, Q, m, n)
    PROVE  \A e : Travels(W1, e) <=> Travels(wire, e) /\ EndMark(e) \notin WireMarks(Head(wire[m][n]))
<1> DEFINE V == Contents(endpoints, W1, call, tasks, got)
           msg == Head(wire[m][n])
<1>0. msg = Head(wire[m][n]) /\ V = Contents(endpoints, W1, call, tasks, got)
  OBVIOUS
<1> HIDE DEF msg, V
<1>1. Marks(V) = Marks(Stored) \ WireMarks(msg)
  BY <1>0, WireRead
<1>2. \A e : Travels(W1, e) => EndMark(e) \in Marks(V)
  BY TravelsMarked DEF V
<1>3. \A e : Travels(wire, e) <=> Travels(W1, e) \/ EndMark(e) \in WireMarks(Head(wire[m][n]))
  BY ReadFacts
<1> QED BY <1>0, <1>1, <1>2, <1>3

\* A task that is ready is all a thread gains.
LEMMA TaskGained ==
    ASSUME NEW E, NEW P, NEW T, NEW n \in Nodes, NEW t \in Threads,
           NEW S, T[n][t] \in Seq(S), NEW task, TaskReady(E, P, n, task),
           NEW T2, Append(T[n][t], task) = T2[n][t],
           \A k \in Nodes : \A u \in Threads : k # n \/ u # t => T2[k][u] = T[k][u]
    PROVE  TasksGain(E, P, T, T2)
<1> SUFFICES ASSUME NEW k \in Nodes, NEW u \in Threads, NEW i \in DOMAIN T2[k][u]
             PROVE  \/ \E j \in DOMAIN T[k][u] : T2[k][u][i] = T[k][u][j]
                    \/ TaskReady(E, P, k, T2[k][u][i])
  BY DEF TasksGain
<1>1. CASE k = n /\ u = t
  <2> DEFINE s == T[n][t]
             s2 == T2[n][t]
  <2>0. s \in Seq(S) /\ Append(s, task) = s2
    OBVIOUS
  <2> HIDE DEF s, s2
  <2>2. \A j \in DOMAIN s2 : (j \in DOMAIN s /\ s2[j] = s[j]) \/ s2[j] = task
    BY <2>0
  <2>1. \/ i \in DOMAIN T[n][t] /\ T2[n][t][i] = T[n][t][i]
        \/ T2[n][t][i] = task
    BY <1>1, <2>2 DEF s, s2
  <2> QED BY <1>1, <2>1
<1>2. CASE k # n \/ u # t
  BY <1>2
<1> QED BY <1>1, <1>2

\* What it is to be invited, by m: msg is read, the endpoint x of end is made
\* for it, and answer is written.
Invited(n, m, msg, end, x, W1, Q1, Q2) ==
    /\ msg.type = "INVITE" /\ msg.temporary = Temporary(n) /\ m # n
    /\ WireMarks(msg) = {InviteMark(Temporary(n)), EndMark(end)}
    /\ <<m, n>> \in Invitations /\ Engaged(channels, m, n)
    /\ end \in Ends /\ end[1] <= pipes /\ names[end] > 0
    /\ x \in Names /\ EndOf(x) = end /\ \A k \in Nodes : x \notin DOMAIN endpoints[k]
    /\ \A k \in Nodes : k # n => endpoints'[k] = endpoints[k]
    /\ DOMAIN endpoints'[n] = DOMAIN endpoints[n] \cup {x}
    /\ endpoints'[n][x].state = "queueing" /\ endpoints'[n][x].queue = << >>
    /\ \A y \in DOMAIN endpoints[n] : endpoints'[n][y] = endpoints[n][y]
    /\ \A k \in Nodes : k # n => channels'[k] = channels[k]
    /\ DOMAIN channels'[n] = (DOMAIN channels[n] \ {InitialChannel}) \cup {m}
    /\ \A e \in Ends : names[e] <= names'[e] /\ names[e] \in Nat /\ names'[e] \in Nat
    /\ HasRead(wire, W1, Q1, m, n)
    /\ Wrote(W1, wire', Q2, n, m, [type |-> "ACCEPT", temporary |-> Temporary(n), node |-> n, ep |-> x])
    /\ Append(tasks[n][Origin], [op |-> "joined", ep |-> x]) = tasks'[n][Origin]
    /\ \A k \in Nodes : \A u \in Threads : k # n \/ u # Origin => tasks'[k][u] = tasks[k][u]

\* That is what happens.
LEMMA InvitedFacts ==
    ASSUME IndInv, NEW n \in Nodes, NEW m \in Nodes, OnReceivedInvitation(n, m)
    PROVE  \E msg, end, x, W1, Q1, Q2 : msg = Head(wire[m][n]) /\ Invited(n, m, msg, end, x, W1, Q1, Q2)
<1> DEFINE msg == Head(wire[m][n])
           end == Partner(EndOf(msg.peer))
           x   == FreshName(end)
           new == NewEndpoint(Address(m, msg.peer))
           answer == [type |-> "ACCEPT", temporary |-> Temporary(n), node |-> n, ep |-> x]
           task == [op |-> "joined", ep |-> x]
           W1 == [wire EXCEPT ![m][n] = Tail(@)]
           Q1 == Traffic(endpoints, names, channels, pending, m, n)
           Q2 == Traffic(endpoints, names, channels, pending, n, m)
<1>2. msg \in Invites(endpoints, names, channels, pending, m, n) /\ wire[m][n] # << >>
      /\ msg.type = "INVITE"
  <2>1. Receives(n, m, "INVITE")
    BY DEF OnReceivedInvitation
  <2>2. msg.type = "INVITE" /\ msg \in Traffic(endpoints, names, channels, pending, m, n)
        /\ wire[m][n] # << >>
    BY <2>1, ReceivedFacts
  <2> QED BY <2>2 DEF Traffic, RoutedMail, Mail, Accepts
<1>3. /\ msg.inviter = m /\ msg.temporary = Temporary(n) /\ msg.peer \in DOMAIN endpoints[m]
      /\ <<m, n>> \in Invitations /\ Engaged(channels, m, n)
      /\ names[end] > 0
  BY <1>2 DEF Invites
<1>4. m # n
  BY <1>3, InvitationFacts
<1>5. /\ InitialChannel \in DOMAIN channels[n]
      /\ channels' = [channels EXCEPT ![n] = Rename(@, InitialChannel, m)]
      /\ endpoints' = [endpoints EXCEPT ![n] = Insert(@, x, new)]
      /\ names' = [names EXCEPT ![end] = @ + 1]
      /\ wire' = [wire EXCEPT ![m][n] = Tail(@), ![n][m] = Append(@, answer)]
      /\ tasks' = [tasks EXCEPT ![n][Origin] = Append(@, task)]
  BY <1>3 DEF OnReceivedInvitation, NameInviter
<1>6. /\ msg.peer \in Names /\ EndOf(msg.peer) \in Ends /\ end \in Ends
  BY <1>3, EndpointFacts, EndsFit
<1>7. DOMAIN endpoints = Nodes /\ names \in [Ends -> Nat] /\ pipes \in Nat
      /\ \A e \in Ends : e[1] > pipes => names[e] = 0
  BY DEF IndInv, EndpointsSound, NamesSound, CountersSound
<1>8. x \in Names /\ EndOf(x) = end /\ x[3] = names[end]
  <2> HIDE DEF end
  <2> QED BY <1>6, <1>7 DEF FreshName, Ends, Names, EndOf
<1>9. WireMarks(msg) = {InviteMark(Temporary(n)), EndMark(end)}
  BY <1>2, <1>3 DEF WireMarks
<1>10. wire[m][n] \in Seq(Q1) /\ wire[n][m] \in Seq(Q2) /\ DOMAIN wire = Nodes
       /\ \A k \in Nodes : DOMAIN wire[k] = Nodes
  BY WireIsSeq DEF IndInv, WiresSound
<1> HIDE DEF msg, end, x, new, answer, task, Q1, Q2
<1>11. /\ \A k, l \in Nodes : k # m \/ l # n => W1[k][l] = wire[k][l]
       /\ Tail(wire[m][n]) = W1[m][n]
  BY <1>10
<1>12. HasRead(wire, W1, Q1, m, n)
  BY <1>2, <1>10, <1>11 DEF HasRead
<1>13. /\ wire'[n][m] = Append(wire[n][m], answer) /\ wire'[m][n] = Tail(wire[m][n])
       /\ \A k, l \in Nodes : (k # m \/ l # n) /\ (k # n \/ l # m) => wire'[k][l] = wire[k][l]
  BY <1>4, <1>5, <1>10
<1> HIDE DEF W1
<1>14. Wrote(W1, wire', Q2, n, m, answer)
  <2>1. W1[n][m] \in Seq(Q2) /\ Append(W1[n][m], answer) = wire'[n][m]
    BY <1>4, <1>10, <1>11, <1>13
  <2>2. \A k, l \in Nodes : k # n \/ l # m => wire'[k][l] = W1[k][l]
    BY <1>11, <1>13
  <2> QED BY <2>1, <2>2 DEF Wrote
<1>15. \A k \in Nodes : x \notin DOMAIN endpoints[k]
  <2>1. ~(x[3] < names[EndOf(x)])
    BY <1>6, <1>7, <1>8
  <2>2. x \notin Given(names)
    BY <2>1 DEF Given
  <2> QED BY <2>2, EndpointFacts
<1>16. /\ \A k \in Nodes : k # n => endpoints'[k] = endpoints[k]
       /\ DOMAIN endpoints'[n] = DOMAIN endpoints[n] \cup {x}
       /\ endpoints'[n][x] = new
       /\ \A y \in DOMAIN endpoints[n] : endpoints'[n][y] = endpoints[n][y]
  BY <1>5, <1>7, <1>15 DEF Insert, InsertAll
<1>17. new.state = "queueing" /\ new.queue = << >>
  BY DEF new, NewEndpoint
<1>18. /\ \A k \in Nodes : k # n => channels'[k] = channels[k]
       /\ DOMAIN channels'[n] = (DOMAIN channels[n] \ {InitialChannel}) \cup {m}
  BY <1>5 DEF IndInv, ChannelsSound, Rename
<1>19. \A e \in Ends : names[e] <= names'[e] /\ names[e] \in Nat /\ names'[e] \in Nat
  BY <1>5, <1>6, <1>7
<1>20. end[1] <= pipes
  <2>1. end[1] \in Nat
    BY <1>6 DEF Ends
  <2> QED BY <1>3, <1>6, <1>7, <2>1
<1>21. /\ Append(tasks[n][Origin], task) = tasks'[n][Origin]
       /\ \A k \in Nodes : \A u \in Threads : k # n \/ u # Origin => tasks'[k][u] = tasks[k][u]
  BY <1>5, ThreadsAssumption DEF IndInv, TasksSound
<1>22. Invited(n, m, msg, end, x, W1, Q1, Q2)
  BY <1>2, <1>3, <1>4, <1>6, <1>8, <1>9, <1>12, <1>14, <1>15, <1>16, <1>17, <1>18, <1>19, <1>20, <1>21
     DEF Invited, answer, task
<1> QED BY <1>22 DEF msg

\* An endpoint of an end that was not at home comes to n, and is its only one.
LEMMA Arrives ==
    ASSUME NEW E, NEW P, NEW W, NEW e, Travels(W, e), AtHome(E, P, W, e),
           NEW n \in Nodes, NEW x, EndOf(x) = e,
           NEW E2, \A k \in Nodes : k # n => E2[k] = E[k],
           DOMAIN E[n] \subseteq DOMAIN E2[n], x \in DOMAIN E2[n],
           NEW P2, Available(E2, P2, n, x),
           \A k \in Nodes : \A y \in DOMAIN E2[k] : EndOf(y) = e /\ Available(E2, P2, k, y) =>
               (k = n /\ y = x) \/ (y \in DOMAIN E[k] /\ Available(E, P, k, y)),
           NEW W2, ~Travels(W2, e)
    PROVE  AtHome(E2, P2, W2, e)
<1>1. \A k \in Nodes : \A y \in DOMAIN E[k] : EndOf(y) = e => ~Available(E, P, k, y)
  BY DEF AtHome
<1>2. \A k \in Nodes : \A y \in DOMAIN E2[k] :
          Available(E2, P2, k, y) /\ EndOf(y) = e => k = n /\ y = x
  BY <1>1
<1> QED BY <1>2 DEF AtHome

\* Node n is invited by m.
LEMMA OnReceivedInvitationPlaces ==
    ASSUME IndInv, PlaceInv, NEW n \in Nodes, NEW m \in Nodes, OnReceivedInvitation(n, m)
    PROVE  PlaceInv'
<1>1. PICK msg, end, x, W1, Q1, Q2 : msg = Head(wire[m][n]) /\ Invited(n, m, msg, end, x, W1, Q1, Q2)
  BY InvitedFacts
<1> DEFINE answer == [type |-> "ACCEPT", temporary |-> Temporary(n), node |-> n, ep |-> x]
           task == [op |-> "joined", ep |-> x]
           V1 == Contents(endpoints, W1, call, tasks, got)
           V2 == Contents(endpoints, wire', call, tasks, got)
           S == {end}
<1>2. /\ call' = call /\ pending' = pending /\ got' = got /\ sent' = sent /\ held' = held
      /\ pipes' = pipes
  BY DEF OnReceivedInvitation, appVars
<1>3. /\ msg.type = "INVITE" /\ msg.temporary = Temporary(n) /\ m # n
      /\ WireMarks(msg) = {InviteMark(Temporary(n)), EndMark(end)}
      /\ <<m, n>> \in Invitations /\ Engaged(channels, m, n)
      /\ end \in Ends /\ end[1] <= pipes /\ names[end] > 0
      /\ x \in Names /\ EndOf(x) = end /\ \A k \in Nodes : x \notin DOMAIN endpoints[k]
      /\ \A e \in Ends : names[e] <= names'[e] /\ names[e] \in Nat /\ names'[e] \in Nat
  BY <1>1 DEF Invited
<1>4. /\ \A k \in Nodes : k # n => endpoints'[k] = endpoints[k]
      /\ DOMAIN endpoints'[n] = DOMAIN endpoints[n] \cup {x}
      /\ endpoints'[n][x].state = "queueing" /\ endpoints'[n][x].queue = << >>
      /\ \A y \in DOMAIN endpoints[n] : endpoints'[n][y] = endpoints[n][y]
  BY <1>1 DEF Invited
<1>5. /\ \A k \in Nodes : k # n => channels'[k] = channels[k]
      /\ DOMAIN channels'[n] = (DOMAIN channels[n] \ {InitialChannel}) \cup {m}
  BY <1>1 DEF Invited
<1>6. HasRead(wire, W1, Q1, m, n) /\ Wrote(W1, wire', Q2, n, m, answer)
  BY <1>1 DEF Invited
<1>7. /\ Append(tasks[n][Origin], task) = tasks'[n][Origin]
      /\ \A k \in Nodes : \A u \in Threads : k # n \/ u # Origin => tasks'[k][u] = tasks[k][u]
      /\ tasks[n][Origin] \in Seq(Tasks(endpoints, names, n))
  BY <1>1, ThreadsAssumption DEF Invited, IndInv, TasksSound
<1>8. msg = Head(wire[m][n]) /\ V1 = Contents(endpoints, W1, call, tasks, got)
  BY <1>1
<1>9. /\ WireMarks(answer) = {InviteMark(Temporary(n))} /\ TaskMarks(task) = {EndMark(end)}
      /\ answer.type = "ACCEPT" /\ answer.temporary = Temporary(n)
      /\ task.op = "joined" /\ task.ep = x
  BY <1>3 DEF WireMarks, TaskMarks
<1> HIDE DEF V1, V2, answer, task
<1>10. /\ V1 \in Shelves(Boxes, AllMarks) /\ Once(V1)
       /\ Marks(V1) = Marks(Stored) \ WireMarks(msg)
       /\ WireMarks(msg) \subseteq Marks(Stored)
       /\ WiresReady(endpoints, W1)
       /\ \E i \in DOMAIN wire[m][n] : wire[m][n][i] = msg
  BY <1>6, <1>8, WireRead
<1>11. InviteMark(Temporary(n)) \notin Marks(V1) /\ EndMark(end) \notin Marks(V1)
       /\ EndMark(end) \in Marks(Stored)
  BY <1>3, <1>10
<1>12. V2 = Post(V1, WireBox(n, m), WireMarks(answer))
  <2>1. Contents(endpoints, wire', call, tasks, got) =
            Post(Contents(endpoints, W1, call, tasks, got), WireBox(n, m), WireMarks(answer))
    BY <1>6, WroteContents
  <2> QED BY <2>1 DEF V1, V2
<1>13. V2 \in Shelves(Boxes, AllMarks) /\ Once(V2)
       /\ Marks(V2) = Marks(V1) \cup {InviteMark(Temporary(n))}
  <2>1. {InviteMark(Temporary(n))} \in SUBSET AllMarks
    <3>1. Temporary(n) \in Keys
      BY TemporaryFacts
    <3> QED BY <3>1 DEF AllMarks
  <2>2. WireBox(n, m) \in Boxes
    BY InWireBox
  <2> DEFINE a == {InviteMark(Temporary(n))}
  <2>3. a \cap Marks(V1) = {} /\ a \in SUBSET AllMarks /\ V2 = Post(V1, WireBox(n, m), a)
    BY <1>9, <1>11, <1>12, <2>1
  <2> HIDE DEF a
  <2>4. /\ Post(V1, WireBox(n, m), a) \in Shelves(Boxes, AllMarks) /\ Once(Post(V1, WireBox(n, m), a))
        /\ Marks(Post(V1, WireBox(n, m), a)) = Marks(V1) \cup a
    BY <1>10, <2>2, <2>3, PostOnce
  <2> QED BY <2>3, <2>4 DEF a
<1>14. Stored' = Post(V2, TaskBox(n, Origin), TaskMarks(task))
  <2>1. \A k \in Nodes : \A y \in Names : QueueOf(endpoints', k, y) = QueueOf(endpoints, k, y)
    BY <1>3, <1>4 DEF QueueOf
  <2>2. Contents(endpoints', wire', call, tasks', got) = Contents(endpoints, wire', call, tasks', got)
    BY <2>1, SameContents
  <2> DEFINE Q == Tasks(endpoints, names, n)
  <2>3. tasks[n][Origin] \in Seq(Q)
    BY <1>7
  <2> HIDE DEF Q
  <2>4. Contents(endpoints, wire', call, tasks', got) =
            Post(Contents(endpoints, wire', call, tasks, got), TaskBox(n, Origin), TaskMarks(task))
    <3> DEFINE W2 == wire'
    <3>1. /\ Append(tasks[n][Origin], task) = tasks'[n][Origin]
          /\ \A k \in Nodes : \A u \in Threads : k # n \/ u # Origin => tasks'[k][u] = tasks[k][u]
      BY <1>7
    <3>2. Origin \in Threads
      BY ThreadsAssumption
    <3> HIDE DEF W2
    <3>3. Contents(endpoints, W2, call, tasks', got) =
            Post(Contents(endpoints, W2, call, tasks, got), TaskBox(n, Origin), TaskMarks(task))
      BY <2>3, <3>1, <3>2, TaskPosted
    <3> QED BY <3>3 DEF W2
  <2>5. Stored' = Contents(endpoints', wire', call, tasks', got)
    BY <1>2 DEF Stored
  <2> QED BY <2>2, <2>4, <2>5 DEF V2
<1>15. Once(Stored') /\ Marks(Stored') = Marks(V2) \cup {EndMark(end)}
  <2>1. {EndMark(end)} \in SUBSET AllMarks
    BY <1>3 DEF AllMarks
  <2>2. TaskBox(n, Origin) \in Boxes
    BY InTaskBox, ThreadsAssumption
  <2> DEFINE a == {EndMark(end)}
  <2>3. a \cap Marks(V2) = {} /\ a \in SUBSET AllMarks /\ Stored' = Post(V2, TaskBox(n, Origin), a)
    BY <1>9, <1>11, <1>13, <1>14, <2>1, MarksDiffer
  <2> HIDE DEF a
  <2>4. /\ Once(Post(V2, TaskBox(n, Origin), a))
        /\ Marks(Post(V2, TaskBox(n, Origin), a)) = Marks(V2) \cup a
    BY <1>13, <2>2, <2>3, PostOnce
  <2> QED BY <2>3, <2>4 DEF a
<1>16. Marks(Stored) = Marks(Stored')
  BY <1>3, <1>10, <1>13, <1>15
<1>17. /\ Available(endpoints', pending', n, x) /\ x \in DOMAIN endpoints'[n]
       /\ \A k \in Nodes : \A y \in DOMAIN endpoints[k] :
             Available(endpoints', pending', k, y) <=> Available(endpoints, pending, k, y)
  <2>1. \A k \in DOMAIN pending[n] : pending[n][k] # x
    BY <1>3, PendingFacts
  <2> QED BY <1>2, <1>4, <2>1 DEF Available
<1>18. OnlyMoves(endpoints, pending, endpoints', pending', S)
  <2> SUFFICES ASSUME NEW k \in Nodes
               PROVE  /\ DOMAIN endpoints[k] \subseteq DOMAIN endpoints'[k]
                      /\ \A y \in DOMAIN endpoints'[k] : EndOf(y) \notin S =>
                            /\ y \in DOMAIN endpoints[k]
                            /\ Available(endpoints', pending', k, y) <=> Available(endpoints, pending, k, y)
                            /\ Available(endpoints, pending, k, y) /\ endpoints[k][y].state = "queueing" =>
                                  endpoints'[k][y].state = "queueing"
    BY DEF OnlyMoves
  <2>1. \A y \in DOMAIN endpoints'[k] : y \in DOMAIN endpoints[k] \/ EndOf(y) \in S
    BY <1>3, <1>4
  <2> QED BY <1>4, <1>17, <2>1
<1>19. /\ QueuesReady(endpoints', pending') /\ CallsReady(endpoints', pending', call)
       /\ TasksReady(endpoints', pending', tasks') /\ WiresReady(endpoints', wire')
  <2>1. CallsGain(endpoints', pending', call, call)
    BY NothingNew
  <2>2. WireReady(endpoints', n, answer)
    BY <1>9 DEF WireReady
  <2>3. WiresGain(endpoints', W1, wire')
    BY <1>6, <2>2, WroteReady
  <2>4. \A k \in Nodes : DOMAIN endpoints[k] \subseteq Names
    BY StoredTyped
  <2>5. /\ QueuesReady(endpoints, pending) /\ CallsReady(endpoints, pending, call)
        /\ TasksReady(endpoints, pending, tasks) /\ WiresReady(endpoints, W1)
    BY <1>10 DEF PlaceInv
  <2>6. \A e \in S : EndMark(e) \notin Marks(Contents(endpoints, W1, call, tasks, got))
    BY <1>11 DEF V1
  <2>7. TaskReady(endpoints', pending', n, task)
    BY <1>9, <1>17 DEF TaskReady
  <2>8. TasksGain(endpoints', pending', tasks, tasks')
    <3> DEFINE Q == Tasks(endpoints, names, n)
    <3>1. tasks[n][Origin] \in Seq(Q)
      BY <1>7
    <3> HIDE DEF Q
    <3> QED BY <1>7, <2>7, <3>1, TaskGained, ThreadsAssumption
  <2>9. QueuesGain(endpoints, endpoints', pending')
    <3> SUFFICES ASSUME NEW k \in Nodes, NEW y \in DOMAIN endpoints'[k],
                        NEW i \in DOMAIN endpoints'[k][y].queue
                 PROVE  /\ y \in DOMAIN endpoints[k]
                        /\ \E j \in DOMAIN endpoints[k][y].queue :
                              endpoints'[k][y].queue[i] = endpoints[k][y].queue[j]
      BY DEF QueuesGain
    <3>1. ~(k = n /\ y = x)
      BY <1>4
    <3>2. y \in DOMAIN endpoints[k] /\ endpoints'[k][y] = endpoints[k][y]
      BY <1>4, <3>1
    <3> QED BY <3>2
  <2> HIDE DEF S
  <2> QED BY <1>18, <2>1, <2>3, <2>4, <2>5, <2>6, <2>8, <2>9, AllStayReady
<1>20. HeldOnce(endpoints', pending', held', Stored')
  <2>1. \A k \in Nodes : held[k] \subseteq DOMAIN endpoints[k]
    BY DEF IndInv, HeldSound
  <2>2. HeldOnce(endpoints, pending, held, Stored)
    BY DEF PlaceInv
  <2> QED BY <1>2, <1>16, <1>17, <2>1, <2>2 DEF HeldOnce
<1>21. AllAtHome(endpoints', pending', wire', pipes)
  <2>1. \A e : Travels(W1, e) <=> Travels(wire, e) /\ EndMark(e) \notin WireMarks(msg)
    BY <1>6, <1>8, ReadNoMore
  <2>2. \A e : Travels(wire', e) <=> Travels(W1, e) \/ EndMark(e) \in WireMarks(answer)
    BY <1>6, WroteFacts
  <2>3. \A e : Travels(wire', e) <=> Travels(wire, e) /\ e # end
    BY <1>3, <1>9, <2>1, <2>2, MarksDiffer
  <2>4. Travels(wire, end)
    <3>1. \A e : Travels(wire, e) <=> Travels(W1, e) \/ EndMark(e) \in WireMarks(Head(wire[m][n]))
      BY <1>6, ReadFacts
    <3> QED BY <1>3, <1>8, <3>1
  <2>5. AtHome(endpoints, pending, wire, end)
    BY <1>3 DEF PlaceInv, AllAtHome
  <2>6. AtHome(endpoints', pending', wire', end)
    <3>1. \A k \in Nodes : \A y \in DOMAIN endpoints'[k] :
              EndOf(y) = end /\ Available(endpoints', pending', k, y) =>
               (k = n /\ y = x) \/ (y \in DOMAIN endpoints[k] /\ Available(endpoints, pending, k, y))
      BY <1>4, <1>17
    <3>2. ~Travels(wire', end)
      BY <2>3
    <3>3. DOMAIN endpoints[n] \subseteq DOMAIN endpoints'[n]
      BY <1>4
    <3> QED BY <1>3, <1>4, <1>17, <2>4, <2>5, <3>1, <3>2, <3>3, Arrives
  <2>7. HomesMove(endpoints', pending', wire, wire', pipes, pipes, S)
    BY <2>3, <2>6 DEF HomesMove
  <2>8. AllAtHome(endpoints, pending, wire, pipes)
    BY DEF PlaceInv
  <2> HIDE DEF S
  <2> QED BY <1>18, <2>7, <2>8, HomesStay
<1>22. NamesApart(endpoints')
  <2>1. NamesApart(endpoints)
    BY DEF PlaceInv
  <2> QED BY <1>3, <1>4, <2>1 DEF NamesApart
<1>23. \A k \in Nodes : \A l \in DOMAIN channels[k] : l # InitialChannel => l \in DOMAIN channels'[k]
  BY <1>5
<1>24. \A k \in Nodes : k # InitialChannel /\ Temporary(k) # InitialChannel
  BY NodesAssumption, TemporaryFacts
<1>25. PendingReady(endpoints', channels', pending')
  <2>1. ASSUME NEW k \in Nodes, NEW l \in DOMAIN pending[k]
        PROVE  /\ l \in DOMAIN channels'[k]
               /\ pending[k][l] \in DOMAIN endpoints'[k] /\ endpoints'[k][pending[k][l]].state = "queueing"
               /\ \A o \in DOMAIN pending[k] : pending[k][o] = pending[k][l] => o = l
    <3>1. /\ l \in DOMAIN channels[k] /\ pending[k][l] \in DOMAIN endpoints[k]
          /\ endpoints[k][pending[k][l]].state = "queueing"
          /\ \A o \in DOMAIN pending[k] : pending[k][o] = pending[k][l] => o = l
      BY PendingFacts
    <3>2. PendingOk(channels, k, l, pending[k][l])
      BY DEF IndInv, PendingSound
    <3>3. l # InitialChannel
      BY <1>24, <3>2 DEF PendingOk
    <3> QED BY <1>4, <1>23, <3>1, <3>3
  <2> QED BY <1>2, <2>1 DEF PendingReady
<1>26. ProxiesReady(endpoints', channels')
  <2> SUFFICES ASSUME NEW k \in Nodes, NEW y \in DOMAIN endpoints'[k], endpoints'[k][y].state = "proxying"
               PROVE  endpoints'[k][y].target.node \in DOMAIN channels'[k]
    BY DEF ProxiesReady
  <2>1. y \in DOMAIN endpoints[k] /\ endpoints'[k][y] = endpoints[k][y]
    BY <1>4
  <2>2. endpoints[k][y].target.node \in DOMAIN channels[k]
    BY <2>1 DEF PlaceInv, ProxiesReady
  <2>3. endpoints[k][y].target \in Onward(k, y)
    BY <2>1, EndpointFacts DEF SoundEndpoints
  <2>4. endpoints[k][y].target.node \in Nodes
    BY <2>3 DEF Onward, Addresses
  <2> QED BY <1>23, <1>24, <2>1, <2>2, <2>4
<1>27. CallsBound(channels', call')
  <2> SUFFICES ASSUME NEW k \in Nodes, NEW u \in AllThreads, call[k][u].msgs # << >>
               PROVE  call[k][u].op # "idle" /\ call[k][u].dest \in DOMAIN channels'[k]
    BY <1>2 DEF CallsBound
  <2>1. call[k][u].op # "idle" /\ call[k][u].dest \in DOMAIN channels[k]
    BY DEF PlaceInv, CallsBound
  <2>2. call[k][u] \in Calls(endpoints, names, wire, k)
    BY DEF IndInv, CallsSound
  <2>3. call[k][u].dest \in Nodes
    BY <2>2 DEF Calls
  <2> QED BY <1>23, <1>24, <2>1, <2>3
<1>28. \A k, l \in Nodes : \A i \in DOMAIN wire'[k][l] :
           \/ \E j \in DOMAIN wire[k][l] : wire'[k][l][i] = wire[k][l][j]
           \/ k = n /\ l = m /\ wire'[k][l][i] = answer
  <2> SUFFICES ASSUME NEW k \in Nodes, NEW l \in Nodes, NEW i \in DOMAIN wire'[k][l]
               PROVE  \/ \E j \in DOMAIN wire[k][l] : wire'[k][l][i] = wire[k][l][j]
                      \/ k = n /\ l = m /\ wire'[k][l][i] = answer
    OBVIOUS
  <2>1. \/ i \in DOMAIN W1[k][l] /\ wire'[k][l][i] = W1[k][l][i]
        \/ k = n /\ l = m /\ wire'[k][l][i] = answer
    BY <1>6, WroteFacts
  <2>2. Remains(wire, W1)
    BY <1>6, ReadFacts
  <2> QED BY <2>1, <2>2 DEF Remains
<1>29. InvitesPending(pending', wire')
  <2> SUFFICES ASSUME NEW k \in Nodes, NEW l \in Nodes, NEW i \in DOMAIN wire'[k][l]
               PROVE  /\ wire'[k][l][i].type = "INVITE" => wire'[k][l][i].temporary \in DOMAIN pending[k]
                      /\ wire'[k][l][i].type = "ACCEPT" => wire'[k][l][i].temporary \in DOMAIN pending[l]
    BY <1>2 DEF InvitesPending
  <2>1. CASE \E j \in DOMAIN wire[k][l] : wire'[k][l][i] = wire[k][l][j]
    BY <2>1 DEF PlaceInv, InvitesPending
  <2>2. CASE k = n /\ l = m /\ wire'[k][l][i] = answer
    <3>1. msg.temporary \in DOMAIN pending[m]
      BY <1>3, <1>10 DEF PlaceInv, InvitesPending
    <3> QED BY <1>3, <1>9, <2>2, <3>1
  <2> QED BY <1>28, <2>1, <2>2
<1>30. Introductions(channels', wire')
  <2>1. \A k, l \in Nodes : /\ Temporary(l) \in DOMAIN channels'[k] <=> Temporary(l) \in DOMAIN channels[k]
                            /\ l \in DOMAIN channels'[k] <=> l \in DOMAIN channels[k] \/ (k = n /\ l = m)
    BY <1>3, <1>5, <1>24, TemporaryFacts
  <2>2. Introductions(channels, wire)
    BY DEF PlaceInv
  <2>3. \A k, l \in Nodes : Engaged(channels, k, l) => Engaged(channels', k, l)
    BY <2>1 DEF Engaged
  <2>4. ASSUME NEW i \in DOMAIN wire'[m][n] PROVE wire'[m][n][i].type # "INVITE"
    <3> SUFFICES ASSUME wire'[m][n][i].type = "INVITE" PROVE FALSE
      OBVIOUS
    <3>1. i \in DOMAIN W1[m][n] /\ wire'[m][n][i] = W1[m][n][i]
      <4>1. \/ i \in DOMAIN W1[m][n] /\ wire'[m][n][i] = W1[m][n][i]
            \/ m = n /\ n = m /\ wire'[m][n][i] = answer
        BY <1>6, WroteFacts
      <4> QED BY <1>3, <4>1
    <3>2. PICK j \in DOMAIN wire[m][n] : W1[m][n][i] = wire[m][n][j]
      <4>1. Remains(wire, W1)
        BY <1>6, ReadFacts
      <4> QED BY <3>1, <4>1 DEF Remains
    <3>3. wire[m][n][j] \in Traffic(endpoints, names, channels, pending, m, n)
      <4>1. wire[m][n] \in Seq(Traffic(endpoints, names, channels, pending, m, n))
        BY WireIsSeq DEF IndInv
      <4> QED BY <4>1
    <3>4. W1[m][n][i].temporary = Temporary(n) /\ W1[m][n][i].type = "INVITE"
      BY <3>1, <3>2, <3>3 DEF Traffic, Invites, Accepts, RoutedMail, Mail
    <3>5. InviteMark(Temporary(n)) \in Marks(Contents(endpoints, W1, call, tasks, got))
      BY <3>1, <3>4, InviteMarked
    <3> QED BY <1>11, <3>5 DEF V1
  <2>5. ASSUME NEW k \in Nodes, NEW l \in Nodes, <<l, k>> \in Invitations, l \in DOMAIN channels[k],
               NEW i \in DOMAIN wire'[l][k]
        PROVE  wire'[l][k][i].type # "INVITE"
    <3>1. \A j \in DOMAIN wire[l][k] : wire[l][k][j].type # "INVITE"
      BY <2>2, <2>5 DEF Introductions
    <3> QED BY <1>9, <1>28, <3>1
  <2> SUFFICES ASSUME NEW k \in Nodes, NEW l \in Nodes
               PROVE  /\ Temporary(l) \in DOMAIN channels'[k] => <<k, l>> \in Invitations
                      /\ <<l, k>> \in Invitations /\ l \in DOMAIN channels'[k] =>
                            /\ Engaged(channels', l, k)
                            /\ \A i \in DOMAIN wire'[l][k] : wire'[l][k][i].type # "INVITE"
    BY ZenonT(30) DEF Introductions
  <2>6. Temporary(l) \in DOMAIN channels'[k] => <<k, l>> \in Invitations
    BY <2>1, <2>2 DEF Introductions
  <2>7. ASSUME <<l, k>> \in Invitations, l \in DOMAIN channels'[k]
        PROVE  Engaged(channels', l, k)
    <3>1. CASE l \in DOMAIN channels[k]
      BY <2>2, <2>3, <2>7, <3>1 DEF Introductions
    <3>2. CASE k = n /\ l = m
      BY <1>3, <2>3, <3>2
    <3> QED BY <2>1, <2>7, <3>1, <3>2
  <2>8. ASSUME <<l, k>> \in Invitations, l \in DOMAIN channels'[k], NEW i \in DOMAIN wire'[l][k]
        PROVE  wire'[l][k][i].type # "INVITE"
    <3>1. CASE l \in DOMAIN channels[k]
      BY <2>5, <2>8, <3>1
    <3>2. CASE k = n /\ l = m
      BY <2>4, <2>8, <3>2
    <3> QED BY <2>1, <2>8, <3>1, <3>2
  <2> QED BY <2>6, <2>7, <2>8
<1>31. Accounted(Stored', sent')
  BY <1>2, <1>16 DEF PlaceInv, Accounted
<1>32. EndsNamed(Stored', names')
  <2> SUFFICES ASSUME NEW e \in Ends, EndMark(e) \in Marks(Stored') PROVE names'[e] > 0
    BY DEF EndsNamed
  <2>1. names[e] > 0
    BY <1>16 DEF PlaceInv, EndsNamed
  <2> QED BY <1>3, <2>1
<1> QED BY <1>2, <1>15, <1>19, <1>20, <1>21, <1>22, <1>25, <1>26, <1>27, <1>29, <1>30, <1>31, <1>32
        DEF PlaceInv
-----------------------------------------------------------------------------
(* What was queued is poured into a call, or into a thread's tasks.         *)

\* The boxes that are not in B stay as they were.
ElseSame(E, W, K, T, G, E2, W2, K2, T2, G2, B) ==
    /\ \A m, n \in Nodes : WireBox(m, n) \notin B => W2[m][n] = W[m][n]
    /\ \A n \in Nodes : \A x \in Names :
           QueueBox(n, x) \notin B => QueueOf(E2, n, x) = QueueOf(E, n, x)
    /\ \A n \in Nodes : \A t \in AllThreads :
           CallBox(n, t) \notin B => K2[n][t].msgs = K[n][t].msgs
    /\ \A n \in Nodes : \A t \in Threads : TaskBox(n, t) \notin B => T2[n][t] = T[n][t]
    /\ \A e \in Ends : GotBox(e) \notin B => G2[e] = G[e]

\* So do their contents.
LEMMA OtherBoxes ==
    ASSUME NEW E, NEW W, NEW K, NEW T, NEW G, NEW E2, NEW W2, NEW K2, NEW T2, NEW G2, NEW B,
           ElseSame(E, W, K, T, G, E2, W2, K2, T2, G2, B)
    PROVE  \A c \in Boxes : c \notin B =>
               Contents(E2, W2, K2, T2, G2)[c] = Contents(E, W, K, T, G)[c]
<1> DEFINE V == Contents(E, W, K, T, G)
           V2 == Contents(E2, W2, K2, T2, G2)
<1> SUFFICES ASSUME NEW c \in Boxes, c \notin B PROVE V2[c] = V[c]
  OBVIOUS
<1>0. \/ \E m, n \in Nodes : c = WireBox(m, n)
      \/ \E n \in Nodes : \E x \in Names : c = QueueBox(n, x)
      \/ \E n \in Nodes : \E t \in AllThreads : c = CallBox(n, t)
      \/ \E n \in Nodes : \E t \in Threads : c = TaskBox(n, t)
      \/ \E e \in Ends : c = GotBox(e)
  BY DEF Boxes, WireBox, QueueBox, CallBox, TaskBox, GotBox
<1>1. ASSUME NEW m \in Nodes, NEW n \in Nodes, c = WireBox(m, n) PROVE V2[c] = V[c]
  <2>1. V2[c] = OnWire(W2[m][n]) /\ V[c] = OnWire(W[m][n])
    BY <1>1 DEF Contents, WireBox
  <2> QED BY <2>1, <1>1 DEF ElseSame
<1>2. ASSUME NEW n \in Nodes, NEW x \in Names, c = QueueBox(n, x) PROVE V2[c] = V[c]
  <2>1. V2[c] = InMail(QueueOf(E2, n, x)) /\ V[c] = InMail(QueueOf(E, n, x))
    BY <1>2 DEF Contents, QueueBox
  <2> QED BY <2>1, <1>2 DEF ElseSame
<1>3. ASSUME NEW n \in Nodes, NEW t \in AllThreads, c = CallBox(n, t) PROVE V2[c] = V[c]
  <2>1. V2[c] = InMail(K2[n][t].msgs) /\ V[c] = InMail(K[n][t].msgs)
    BY <1>3 DEF Contents, CallBox
  <2> QED BY <2>1, <1>3 DEF ElseSame
<1>4. ASSUME NEW n \in Nodes, NEW t \in Threads, c = TaskBox(n, t) PROVE V2[c] = V[c]
  <2>1. V2[c] = InTasks(T2[n][t]) /\ V[c] = InTasks(T[n][t])
    BY <1>4 DEF Contents, TaskBox
  <2> QED BY <2>1, <1>4 DEF ElseSame
<1>5. ASSUME NEW e \in Ends, c = GotBox(e) PROVE V2[c] = V[c]
  <2>1. V2[c] = InGot(G2[e]) /\ V[c] = InGot(G[e])
    BY <1>5 DEF Contents, GotBox
  <2> QED BY <2>1, <1>5 DEF ElseSame
<1> QED BY <1>0, <1>1, <1>2, <1>3, <1>4, <1>5

\* The queue of one endpoint is poured into one box.
QueueGoes(E, W, K, T, G, E2, K2, T2, n, x, c) ==
    /\ ElseSame(E, W, K, T, G, E2, W, K2, T2, G, {QueueBox(n, x), c})
    /\ c \in Boxes /\ c # QueueBox(n, x) /\ QueueOf(E2, n, x) = << >>
    /\ Contents(E, W, K, T, G)[c] \o Contents(E, W, K, T, G)[QueueBox(n, x)]
          = Contents(E2, W, K2, T2, G)[c]

\* Then its contents are.
LEMMA QueuePoured ==
    ASSUME NEW E, NEW W, NEW K, NEW T, NEW G, NEW E2, NEW K2, NEW T2,
           NEW n \in Nodes, NEW x \in Names, NEW c,
           QueueGoes(E, W, K, T, G, E2, K2, T2, n, x, c)
    PROVE  Contents(E2, W, K2, T2, G) = Pour(Contents(E, W, K, T, G), QueueBox(n, x), c)
<1> DEFINE b == QueueBox(n, x)
           V == Contents(E, W, K, T, G)
           V2 == Contents(E2, W, K2, T2, G)
<1>0. /\ c \in Boxes /\ c # b /\ V[c] \o V[b] = V2[c] /\ QueueOf(E2, n, x) = << >>
      /\ ElseSame(E, W, K, T, G, E2, W, K2, T2, G, {b, c})
  BY DEF QueueGoes
<1>1. \A a \in Boxes : a \notin {b, c} => V2[a] = V[a]
  <2> HIDE DEF b
  <2> QED BY <1>0, OtherBoxes
<1>2. V2[b] = << >>
  <2>1. Contents(E2, W, K2, T2, G)[b] = InMail(QueueOf(E2, n, x))
    BY InQueueBox
  <2> QED BY <1>0, <2>1 DEF InMail
<1>3. V2 = [a \in Boxes |-> V2[a]] /\ V = [a \in Boxes |-> V[a]] /\ DOMAIN V = Boxes
  BY DEF Contents
<1>4. b \in Boxes
  BY InQueueBox
<1> HIDE DEF b, V, V2
<1>6. V2 = Pour(V, b, c)
  BY <1>0, <1>1, <1>2, <1>3, <1>4 DEF Pour
<1> QED BY <1>6 DEF b, V, V2

\* The marks of messages do not depend on who they are for.
LEMMA SameMarks ==
    ASSUME NEW E, NEW N, NEW q \in Seq(Mail(E, N)), NEW y
    PROVE  /\ InMail(Retarget(q, y)) = InMail(q) /\ InTasks(TasksFor(y, q)) = InMail(q)
           /\ DOMAIN Retarget(q, y) = DOMAIN q /\ DOMAIN TasksFor(y, q) = DOMAIN q
           /\ \A i \in DOMAIN q : /\ Retarget(q, y)[i].descs = q[i].descs
                                  /\ TasksFor(y, q)[i].op = "message"
                                  /\ TasksFor(y, q)[i].msg = q[i]
<1>1. ASSUME NEW i \in DOMAIN q
      PROVE  /\ Retarget(q, y)[i].descs = q[i].descs /\ Retarget(q, y)[i].id = q[i].id
             /\ TasksFor(y, q)[i].op = "message" /\ TasksFor(y, q)[i].msg = q[i]
  <2>1. q[i] \in Mail(E, N)
    OBVIOUS
  <2> QED BY <2>1 DEF Mail, Retarget, TasksFor
<1>2. DOMAIN Retarget(q, y) = DOMAIN q /\ DOMAIN TasksFor(y, q) = DOMAIN q
  BY DEF Retarget, TasksFor
<1>3. InMail(Retarget(q, y)) = InMail(q)
  BY <1>1, <1>2 DEF InMail, MailMarks
<1>4. InTasks(TasksFor(y, q)) = InMail(q)
  BY <1>1, <1>2 DEF InMail, InTasks, TaskMarks
<1> QED BY <1>1, <1>2, <1>3, <1>4

\* What is ready to be written is so whoever it is for.
LEMMA SameReady ==
    ASSUME NEW E, NEW P, NEW n, NEW msg, CallReady(E, P, n, msg), NEW msg2, msg2.descs = msg.descs
    PROVE  CallReady(E, P, n, msg2)
BY DEF CallReady, DistinctEnds, Fresh, Stale

\* What it is to get an answer, msg of m; x was reserved under k.
Answered(n, m, msg, k, x, Q1) ==
    /\ msg.type = "ACCEPT" /\ msg.temporary = k /\ k = Temporary(m) /\ m # n
    /\ WireMarks(msg) = {InviteMark(k)} /\ <<n, m>> \in Invitations
    /\ k \in DOMAIN pending[n] /\ x = pending[n][k] /\ x \in DOMAIN endpoints[n] /\ x \in Names
    /\ k \in DOMAIN channels[n]
    /\ \A l \in Nodes : l # n => endpoints'[l] = endpoints[l]
    /\ DOMAIN endpoints'[n] = DOMAIN endpoints[n]
    /\ endpoints'[n][x].state = "proxying" /\ endpoints'[n][x].queue = << >>
    /\ endpoints'[n][x].target.node = m
    /\ \A y \in DOMAIN endpoints[n] : y # x => endpoints'[n][y] = endpoints[n][y]
    /\ \A l \in Nodes : l # n => channels'[l] = channels[l] /\ pending'[l] = pending[l]
    /\ DOMAIN channels'[n] = (DOMAIN channels[n] \ {k}) \cup {m}
    /\ DOMAIN pending'[n] = DOMAIN pending[n] \ {k}
    /\ \A l \in DOMAIN pending'[n] : pending'[n][l] = pending[n][l]
    /\ HasRead(wire, wire', Q1, m, n)
    /\ call[n][IO].op = "idle" /\ call'[n][IO].op = "accept" /\ call'[n][IO].dest = m
    /\ call'[n][IO].msgs = Retarget(endpoints[n][x].queue, msg.ep)
    /\ \A l \in Nodes : \A u \in AllThreads : l # n \/ u # IO => call'[l][u] = call[l][u]

\* That is what happens.
LEMMA AnsweredFacts ==
    ASSUME IndInv, NEW n \in Nodes, NEW m \in Nodes, OnReceivedAcceptInvitation(n, m)
    PROVE  \E msg, k, x, Q1 : msg = Head(wire[m][n]) /\ Answered(n, m, msg, k, x, Q1)
<1> DEFINE msg == Head(wire[m][n])
           k   == Temporary(m)
           x   == pending[n][k]
           new == Proxying(endpoints[n][x], Address(m, msg.ep))
           c   == FlushReserved(n, x, m, msg.ep)
           Q1 == Traffic(endpoints, names, channels, pending, m, n)
<1>1. msg \in Accepts(endpoints, channels, pending, n, m) /\ wire[m][n] # << >>
      /\ msg.type = "ACCEPT" /\ call[n][IO].op = "idle"
  <2>1. Receives(n, m, "ACCEPT")
    BY ZenonT(30) DEF OnReceivedAcceptInvitation
  <2>2. msg.type = "ACCEPT" /\ msg \in Traffic(endpoints, names, channels, pending, m, n)
        /\ wire[m][n] # << >>
    BY <2>1, ReceivedFacts
  <2> QED BY <2>1, <2>2 DEF Traffic, RoutedMail, Mail, Invites, Receives, Ready
<1>2. msg.node = m /\ msg.temporary = k /\ <<n, m>> \in Invitations
  BY <1>1 DEF Accepts
<1>3. n # m
  BY <1>2, InvitationFacts
<1>4. /\ k \in DOMAIN pending[n] /\ x \in DOMAIN endpoints[n] /\ k \in DOMAIN channels[n]
      /\ pending' = [pending EXCEPT ![n] = Restrict(@, DOMAIN @ \ {k})]
      /\ endpoints' = [endpoints EXCEPT ![n][x] = new]
      /\ channels' = [channels EXCEPT ![n] = Rename(@, k, m)]
      /\ call' = [call EXCEPT ![n][IO] = c]
      /\ wire' = [wire EXCEPT ![m][n] = Tail(@)]
  <2> HIDE DEF k
  <2> QED BY <1>2, ZenonT(30) DEF OnReceivedAcceptInvitation, Local
<1>5. WireMarks(msg) = {InviteMark(k)}
  BY <1>1, <1>2 DEF WireMarks
<1>6. x \in Names /\ endpoints[n][x] \in SoundEndpoints(endpoints, names, n, x)
  BY <1>4, EndpointFacts
<1>7. new.state = "proxying" /\ new.queue = << >> /\ new.target.node = m
  <2>1. endpoints[n][x] = [state |-> endpoints[n][x].state, peer |-> endpoints[n][x].peer,
             target |-> endpoints[n][x].target, runner |-> endpoints[n][x].runner,
             queue |-> endpoints[n][x].queue]
    BY <1>6 DEF SoundEndpoints
  <2> QED BY <2>1 DEF Proxying, Address
<1>8. c.op = "accept" /\ c.dest = m /\ c.msgs = Retarget(endpoints[n][x].queue, msg.ep)
  BY DEF FlushReserved
<1>9. wire[m][n] \in Seq(Q1) /\ DOMAIN wire = Nodes /\ \A l \in Nodes : DOMAIN wire[l] = Nodes
  BY WireIsSeq DEF IndInv, WiresSound
<1> HIDE DEF msg, k, x, new, c, Q1
<1>10. HasRead(wire, wire', Q1, m, n)
  <2>1. /\ Tail(wire[m][n]) = wire'[m][n]
        /\ \A l, o \in Nodes : l # m \/ o # n => wire'[l][o] = wire[l][o]
    BY <1>4, <1>9
  <2> QED BY <1>1, <1>9, <2>1 DEF HasRead
<1>11. /\ \A l \in Nodes : l # n => endpoints'[l] = endpoints[l]
       /\ DOMAIN endpoints'[n] = DOMAIN endpoints[n]
       /\ endpoints'[n][x] = new
       /\ \A y \in DOMAIN endpoints[n] : y # x => endpoints'[n][y] = endpoints[n][y]
  BY <1>4 DEF IndInv, EndpointsSound
<1>12. /\ \A l \in Nodes : l # n => channels'[l] = channels[l]
       /\ DOMAIN channels'[n] = (DOMAIN channels[n] \ {k}) \cup {m}
  BY <1>4 DEF IndInv, ChannelsSound, Rename
<1>13. /\ \A l \in Nodes : l # n => pending'[l] = pending[l]
       /\ DOMAIN pending'[n] = DOMAIN pending[n] \ {k}
       /\ \A l \in DOMAIN pending'[n] : pending'[n][l] = pending[n][l]
  BY <1>4 DEF IndInv, PendingSound, Restrict
<1>14. /\ call'[n][IO] = c
       /\ \A l \in Nodes : \A u \in AllThreads : l # n \/ u # IO => call'[l][u] = call[l][u]
  <2>1. IO \in AllThreads /\ DOMAIN call = Nodes /\ \A l \in Nodes : DOMAIN call[l] = AllThreads
    BY DEF AllThreads, IndInv, CallsSound
  <2> QED BY <1>4, <2>1
<1>15. Answered(n, m, msg, k, x, Q1)
  BY <1>1, <1>2, <1>3, <1>4, <1>5, <1>6, <1>7, <1>8, <1>10, <1>11, <1>12, <1>13, <1>14 DEF Answered, k, x
<1> QED BY <1>15 DEF msg

\* What was queued for an endpoint is ready to be written, for another.
LEMMA QueuedCanBeWritten ==
    ASSUME IndInv, PlaceInv, NEW n \in Nodes, NEW x \in DOMAIN endpoints[n], NEW y,
           NEW E2, NEW P2, NEW S, OnlyMoves(endpoints, pending, E2, P2, S),
           \A i \in DOMAIN endpoints[n][x].queue : Clear(endpoints[n][x].queue[i], S)
    PROVE  LET q2 == Retarget(endpoints[n][x].queue, y)
           IN \A i \in DOMAIN q2 : CallReady(E2, P2, n, q2[i])
<1> DEFINE q == endpoints[n][x].queue
           q2 == Retarget(q, y)
<1>1. q \in Seq(Mail(endpoints, names))
  BY QueueTyped
<1>2. \A i \in DOMAIN q : QueueReady(endpoints, pending, n, q[i]) /\ Clear(q[i], S)
  BY DEF PlaceInv, QueuesReady
<1> HIDE DEF q
<1>3. DOMAIN q2 = DOMAIN q /\ \A i \in DOMAIN q : q2[i].descs = q[i].descs
  BY <1>1, SameMarks
<1> HIDE DEF q2
<1>4. ASSUME NEW i \in DOMAIN q2 PROVE CallReady(E2, P2, n, q2[i])
  <2> DEFINE msg == q[i]
             msg2 == q2[i]
  <2>1. CallReady(endpoints, pending, n, msg) /\ Clear(msg, S) /\ msg2.descs = msg.descs
    BY <1>2, <1>3 DEF QueueReady
  <2> HIDE DEF msg, msg2
  <2>2. DistinctEnds(msg) /\ (Fresh(endpoints, pending, n, msg) \/ Stale(endpoints, n, msg))
    BY <2>1 DEF CallReady
  <2>3. CallReady(E2, P2, n, msg)
    BY <2>1, <2>2, MessageStays DEF CallReady
  <2>4. CallReady(E2, P2, n, msg2)
    BY <2>1, <2>3, SameReady
  <2> QED BY <2>4 DEF msg2
<1> QED BY <1>4 DEF q2, q

\* The answer to an invitation arrives: what was queued for the invitee goes
\* after it.
LEMMA OnReceivedAcceptInvitationPlaces ==
    ASSUME IndInv, PlaceInv, NEW n \in Nodes, NEW m \in Nodes, OnReceivedAcceptInvitation(n, m)
    PROVE  PlaceInv'
<1>1. PICK msg, k, x, Q1 : msg = Head(wire[m][n]) /\ Answered(n, m, msg, k, x, Q1)
  BY AnsweredFacts
<1> DEFINE V1 == Contents(endpoints, wire', call, tasks, got)
           q == endpoints[n][x].queue
           c == CallBox(n, IO)
           b == QueueBox(n, x)
           S == {}
<1>2. /\ tasks' = tasks /\ got' = got /\ sent' = sent /\ held' = held /\ pipes' = pipes
      /\ names' = names
  BY ZenonT(30) DEF OnReceivedAcceptInvitation, appVars
<1>3. /\ msg.type = "ACCEPT" /\ msg.temporary = k /\ k = Temporary(m) /\ m # n
      /\ WireMarks(msg) = {InviteMark(k)} /\ <<n, m>> \in Invitations
      /\ k \in DOMAIN pending[n] /\ pending[n][k] = x /\ x \in DOMAIN endpoints[n] /\ x \in Names
      /\ k \in DOMAIN channels[n]
  BY <1>1 DEF Answered
<1>4. /\ \A l \in Nodes : l # n => endpoints'[l] = endpoints[l]
      /\ DOMAIN endpoints'[n] = DOMAIN endpoints[n]
      /\ endpoints'[n][x].state = "proxying" /\ endpoints'[n][x].queue = << >>
      /\ endpoints'[n][x].target.node = m
      /\ \A y \in DOMAIN endpoints[n] : y # x => endpoints'[n][y] = endpoints[n][y]
  BY <1>1 DEF Answered
<1>5. /\ \A l \in Nodes : l # n => channels'[l] = channels[l] /\ pending'[l] = pending[l]
      /\ DOMAIN channels'[n] = (DOMAIN channels[n] \ {k}) \cup {m}
      /\ DOMAIN pending'[n] = DOMAIN pending[n] \ {k}
      /\ \A l \in DOMAIN pending'[n] : pending'[n][l] = pending[n][l]
  BY <1>1 DEF Answered
<1>6. HasRead(wire, wire', Q1, m, n)
  BY <1>1 DEF Answered
<1>7. /\ call[n][IO].op = "idle" /\ call'[n][IO].op = "accept" /\ call'[n][IO].dest = m
      /\ Retarget(q, msg.ep) = call'[n][IO].msgs
      /\ \A l \in Nodes : \A u \in AllThreads : l # n \/ u # IO => call'[l][u] = call[l][u]
      /\ IO \in AllThreads
  BY <1>1 DEF Answered, AllThreads
<1>8. msg = Head(wire[m][n]) /\ V1 = Contents(endpoints, wire', call, tasks, got)
  BY <1>1
<1>9. call[n][IO].msgs = << >>
  BY <1>7 DEF PlaceInv, CallsBound
<1>10. q \in Seq(Mail(endpoints, names)) /\ QueueOf(endpoints, n, x) = q
  BY <1>3, QueueTyped
<1> HIDE DEF V1, q, c, b
<1>11. /\ V1 \in Shelves(Boxes, AllMarks) /\ Once(V1)
       /\ Marks(V1) = Marks(Stored) \ WireMarks(msg)
       /\ WiresReady(endpoints, wire')
  BY <1>6, <1>8, WireRead
<1>12. Stored' = Pour(V1, b, c) /\ b \in Boxes /\ c \in Boxes /\ b # c
  <2>1. b \in Boxes /\ c \in Boxes /\ c # b
    <3>1. b \in Boxes
      BY <1>3, InQueueBox DEF b
    <3>2. c \in Boxes
      BY <1>7, InCallBox DEF c
    <3> QED BY <3>1, <3>2 DEF b, c, QueueBox, CallBox
  <2>2. ElseSame(endpoints, wire', call, tasks, got, endpoints', wire', call', tasks, got, {b, c})
    <3>1. \A l \in Nodes : \A y \in Names :
              QueueBox(l, y) \notin {b, c} => QueueOf(endpoints', l, y) = QueueOf(endpoints, l, y)
      <4> SUFFICES ASSUME NEW l \in Nodes, NEW y \in Names, l # n \/ y # x
                   PROVE  QueueOf(endpoints', l, y) = QueueOf(endpoints, l, y)
        BY DEF b
      <4> QED BY <1>4 DEF QueueOf
    <3>2. \A l \in Nodes : \A u \in AllThreads :
              CallBox(l, u) \notin {b, c} => call'[l][u].msgs = call[l][u].msgs
      BY <1>7 DEF c
    <3> QED BY <3>1, <3>2 DEF ElseSame
  <2>3. V1[c] \o V1[b] = Contents(endpoints', wire', call', tasks, got)[c]
    <3>1. Contents(endpoints, wire', call, tasks, got)[CallBox(n, IO)] = InMail(call[n][IO].msgs)
      BY <1>7, InCallBox
    <3>2. Contents(endpoints', wire', call', tasks, got)[CallBox(n, IO)] = InMail(call'[n][IO].msgs)
      BY <1>7, InCallBox
    <3>3. Contents(endpoints, wire', call, tasks, got)[QueueBox(n, x)] = InMail(QueueOf(endpoints, n, x))
      BY <1>3, InQueueBox
    <3>4. InMail(Retarget(q, msg.ep)) = InMail(q)
      BY <1>10, SameMarks
    <3>5. InMail(<< >>) = << >>
      BY DEF InMail
    <3>6. V1[b] \in Seq(SUBSET AllMarks)
      BY <1>11, <2>1 DEF Shelves
    <3>7. << >> \o V1[b] = V1[b]
      BY <3>6
    <3> QED BY <1>7, <1>9, <1>10, <3>1, <3>2, <3>3, <3>4, <3>5, <3>7 DEF V1, b, c
  <2>4. QueueOf(endpoints', n, x) = << >>
    BY <1>3, <1>4 DEF QueueOf
  <2> DEFINE V2 == Contents(endpoints', wire', call', tasks, got)
  <2>5. V1[c] \o V1[b] = V2[c] /\ V2 = Contents(endpoints', wire', call', tasks, got)
    BY <2>3
  <2> HIDE DEF V2
  <2>6. V2 = Pour(V1, b, c)
    <3> DEFINE W2 == wire'
               E2 == endpoints'
               K2 == call'
    <3>1. QueueGoes(endpoints, W2, call, tasks, got, E2, K2, tasks, n, x, c)
      BY <1>8, <2>1, <2>2, <2>4, <2>5 DEF b, QueueGoes
    <3>2. x \in Names
      BY <1>3
    <3> HIDE DEF W2, E2, K2
    <3>3. Contents(E2, W2, K2, tasks, got) = Pour(Contents(endpoints, W2, call, tasks, got), QueueBox(n, x), c)
      BY <3>1, <3>2, QueuePoured
    <3> QED BY <1>8, <2>5, <3>3 DEF b, W2, E2, K2
  <2>7. Stored' = V2
    BY <1>2 DEF Stored, V2
  <2> QED BY <2>1, <2>6, <2>7
<1>13. Once(Stored') /\ Marks(Stored') = Marks(Stored) \ {InviteMark(k)}
  <2>1. Once(Pour(V1, b, c)) /\ Marks(Pour(V1, b, c)) = Marks(V1)
    BY <1>11, <1>12, PourOnce
  <2> QED BY <1>3, <1>11, <1>12, <2>1
<1>14. \A l \in Nodes : \A y \in DOMAIN endpoints[l] :
           Available(endpoints', pending', l, y) <=> Available(endpoints, pending, l, y)
  <2> SUFFICES ASSUME NEW y \in DOMAIN endpoints[n]
               PROVE Available(endpoints', pending', n, y) <=> Available(endpoints, pending, n, y)
    BY <1>4, <1>5 DEF Available
  <2>1. CASE y = x
    BY <1>3, <1>4, <2>1 DEF Available
  <2>2. CASE y # x
    <3>1. endpoints'[n][y] = endpoints[n][y] /\ y \in DOMAIN endpoints'[n]
      BY <1>4, <2>2
    <3>2. (\E l \in DOMAIN pending'[n] : pending'[n][l] = y) <=> (\E l \in DOMAIN pending[n] : pending[n][l] = y)
      BY <1>3, <1>5, <2>2
    <3> QED BY <3>1, <3>2 DEF Available
  <2> QED BY <2>1, <2>2
<1>15. OnlyMoves(endpoints, pending, endpoints', pending', S)
  <2> SUFFICES ASSUME NEW l \in Nodes, NEW y \in DOMAIN endpoints'[l],
                      Available(endpoints, pending, l, y), endpoints[l][y].state = "queueing"
               PROVE  endpoints'[l][y].state = "queueing"
    BY <1>4, <1>14 DEF OnlyMoves
  <2>1. l # n \/ y # x
    BY <1>3 DEF Available
  <2> QED BY <1>4, <2>1
<1>16. /\ QueuesReady(endpoints', pending') /\ CallsReady(endpoints', pending', call')
       /\ TasksReady(endpoints', pending', tasks) /\ WiresReady(endpoints', wire')
  <2>1. TasksGain(endpoints', pending', tasks, tasks) /\ WiresGain(endpoints', wire', wire')
    BY DEF TasksGain, WiresGain
  <2>2. \A l \in Nodes : DOMAIN endpoints[l] \subseteq Names
    BY StoredTyped
  <2>3. /\ QueuesReady(endpoints, pending) /\ CallsReady(endpoints, pending, call)
        /\ TasksReady(endpoints, pending, tasks)
    BY DEF PlaceInv
  <2>4. \A e \in S : EndMark(e) \notin Marks(Contents(endpoints, wire', call, tasks, got))
    OBVIOUS
  <2>5. QueuesGain(endpoints, endpoints', pending')
    <3> SUFFICES ASSUME NEW l \in Nodes, NEW y \in DOMAIN endpoints'[l],
                        NEW i \in DOMAIN endpoints'[l][y].queue
                 PROVE  /\ y \in DOMAIN endpoints[l]
                        /\ \E j \in DOMAIN endpoints[l][y].queue :
                              endpoints'[l][y].queue[i] = endpoints[l][y].queue[j]
      BY DEF QueuesGain
    <3>1. ~(l = n /\ y = x)
      BY <1>4
    <3>2. y \in DOMAIN endpoints[l] /\ endpoints'[l][y] = endpoints[l][y]
      BY <1>4, <3>1
    <3> QED BY <3>2
  <2>6. CallsGain(endpoints', pending', call, call')
    <3>1. \A i \in DOMAIN q : Clear(q[i], S)
      BY DEF Clear
    <3> DEFINE q2 == Retarget(q, msg.ep)
    <3> HIDE DEF S
    <3>2. \A i \in DOMAIN q2 : CallReady(endpoints', pending', n, q2[i])
      BY <1>3, <1>15, <3>1, QueuedCanBeWritten DEF q
    <3>3. \A i \in DOMAIN call'[n][IO].msgs : CallReady(endpoints', pending', n, call'[n][IO].msgs[i])
      BY <1>7, <3>2
    <3> SUFFICES ASSUME NEW l \in Nodes, NEW u \in AllThreads, NEW i \in DOMAIN call'[l][u].msgs
                 PROVE  \/ \E j \in DOMAIN call[l][u].msgs : call'[l][u].msgs[i] = call[l][u].msgs[j]
                        \/ CallReady(endpoints', pending', l, call'[l][u].msgs[i])
      BY DEF CallsGain
    <3>4. CASE l = n /\ u = IO
      BY <3>3, <3>4
    <3>5. CASE l # n \/ u # IO
      <4>1. call'[l][u] = call[l][u]
        BY <1>7, <3>5
      <4> QED BY <4>1
    <3> QED BY <3>4, <3>5
  <2> HIDE DEF S
  <2> QED BY <1>11, <1>15, <2>1, <2>2, <2>3, <2>4, <2>5, <2>6, AllStayReady
<1>17. HeldOnce(endpoints', pending', held', Stored')
  <2>1. \A l \in Nodes : held[l] \subseteq DOMAIN endpoints[l]
    BY DEF IndInv, HeldSound
  <2>2. HeldOnce(endpoints, pending, held, Stored)
    BY DEF PlaceInv
  <2> QED BY <1>2, <1>13, <1>14, <2>1, <2>2 DEF HeldOnce
<1>18. AllAtHome(endpoints', pending', wire', pipes)
  <2>1. \A e : Travels(wire', e) <=> Travels(wire, e) /\ EndMark(e) \notin WireMarks(msg)
    BY <1>6, <1>8, ReadNoMore
  <2>2. \A e : Travels(wire', e) <=> Travels(wire, e)
    BY <1>3, <2>1, MarksDiffer
  <2>3. HomesMove(endpoints', pending', wire, wire', pipes, pipes, S)
    BY <2>2 DEF HomesMove
  <2>4. AllAtHome(endpoints, pending, wire, pipes)
    BY DEF PlaceInv
  <2> HIDE DEF S
  <2> QED BY <1>15, <2>3, <2>4, HomesStay
<1>19. NamesApart(endpoints')
  <2>1. \A l \in Nodes : DOMAIN endpoints'[l] = DOMAIN endpoints[l]
    BY <1>4
  <2> QED BY <2>1 DEF PlaceInv, NamesApart
<1>20. \A l \in Nodes : \A o \in DOMAIN channels[l] : o # k => o \in DOMAIN channels'[l]
  BY <1>5
<1>21. k \notin Nodes
  BY <1>3, TemporaryFacts
<1>22. PendingReady(endpoints', channels', pending')
  <2> SUFFICES ASSUME NEW l \in Nodes, NEW o \in DOMAIN pending'[l]
               PROVE  /\ o \in DOMAIN channels'[l]
                      /\ pending'[l][o] \in DOMAIN endpoints'[l]
                      /\ endpoints'[l][pending'[l][o]].state = "queueing"
                      /\ \A r \in DOMAIN pending'[l] : pending'[l][r] = pending'[l][o] => r = o
    BY DEF PendingReady
  <2>1. o \in DOMAIN pending[l] /\ pending'[l][o] = pending[l][o] /\ (l = n => o # k)
    BY <1>5
  <2>2. /\ o \in DOMAIN channels[l] /\ pending[l][o] \in DOMAIN endpoints[l]
        /\ endpoints[l][pending[l][o]].state = "queueing"
        /\ \A r \in DOMAIN pending[l] : pending[l][r] = pending[l][o] => r = o
    BY <2>1, PendingFacts
  <2>3. l = n => pending[l][o] # x
    BY <1>3, <2>1, <2>2
  <2>4. o \in DOMAIN channels'[l]
    BY <1>5, <2>1, <2>2
  <2>5. \A r \in DOMAIN pending'[l] : r \in DOMAIN pending[l] /\ pending'[l][r] = pending[l][r]
    BY <1>5
  <2> QED BY <1>4, <2>1, <2>2, <2>3, <2>4, <2>5
<1>23. ProxiesReady(endpoints', channels')
  <2> SUFFICES ASSUME NEW l \in Nodes, NEW y \in DOMAIN endpoints'[l], endpoints'[l][y].state = "proxying"
               PROVE  endpoints'[l][y].target.node \in DOMAIN channels'[l]
    BY DEF ProxiesReady
  <2>1. CASE l = n /\ y = x
    BY <1>4, <1>5, <2>1
  <2>2. CASE ~(l = n /\ y = x)
    <3>1. y \in DOMAIN endpoints[l] /\ endpoints'[l][y] = endpoints[l][y]
      BY <1>4, <2>2
    <3>2. endpoints[l][y].target.node \in DOMAIN channels[l]
      BY <3>1 DEF PlaceInv, ProxiesReady
    <3>3. endpoints[l][y].target \in Onward(l, y)
      BY <3>1, EndpointFacts DEF SoundEndpoints
    <3>4. endpoints[l][y].target.node \in Nodes
      BY <3>3 DEF Onward, Addresses
    <3>5. endpoints[l][y].target.node \in DOMAIN channels'[l]
      BY <1>20, <1>21, <3>2, <3>4
    <3> QED BY <3>1, <3>5
  <2> QED BY <2>1, <2>2
<1>24. CallsBound(channels', call')
  <2> SUFFICES ASSUME NEW l \in Nodes, NEW u \in AllThreads, call'[l][u].msgs # << >>
               PROVE  call'[l][u].op # "idle" /\ call'[l][u].dest \in DOMAIN channels'[l]
    BY DEF CallsBound
  <2>1. CASE l = n /\ u = IO
    BY <1>5, <1>7, <2>1
  <2>2. CASE l # n \/ u # IO
    <3>0. call'[l][u] = call[l][u]
      BY <1>7, <2>2
    <3>1. call[l][u].op # "idle" /\ call[l][u].dest \in DOMAIN channels[l]
      BY <3>0 DEF PlaceInv, CallsBound
    <3>2. call[l][u] \in Calls(endpoints, names, wire, l)
      BY DEF IndInv, CallsSound
    <3>3. call[l][u].dest \in Nodes
      BY <3>0, <3>2 DEF Calls
    <3> QED BY <1>20, <1>21, <3>0, <3>1, <3>3
  <2> QED BY <2>1, <2>2
<1>25. Remains(wire, wire')
  BY <1>6, ReadFacts
<1>26. InvitesPending(pending', wire')
  <2> SUFFICES ASSUME NEW a \in Nodes, NEW l \in Nodes, NEW i \in DOMAIN wire'[a][l]
               PROVE  /\ wire'[a][l][i].type = "INVITE" => wire'[a][l][i].temporary \in DOMAIN pending'[a]
                      /\ wire'[a][l][i].type = "ACCEPT" => wire'[a][l][i].temporary \in DOMAIN pending'[l]
    BY DEF InvitesPending
  <2>1. PICK j \in DOMAIN wire[a][l] : wire'[a][l][i] = wire[a][l][j]
    BY <1>25 DEF Remains
  <2>2. /\ wire'[a][l][i].type = "INVITE" => wire'[a][l][i].temporary \in DOMAIN pending[a]
        /\ wire'[a][l][i].type = "ACCEPT" => wire'[a][l][i].temporary \in DOMAIN pending[l]
    BY <2>1 DEF PlaceInv, InvitesPending
  <2>3. InviteMark(k) \notin Marks(Contents(endpoints, wire', call, tasks, got))
    BY <1>3, <1>8, <1>11
  <2> DEFINE W2 == wire'
             e == W2[a][l][i]
  <2>4. i \in DOMAIN W2[a][l] /\ InviteMark(k) \notin Marks(Contents(endpoints, W2, call, tasks, got))
    BY <2>3
  <2> HIDE DEF W2
  <2>5. e.type # "USER" => e.temporary # k
    BY <2>4, InviteMarked
  <2>6. wire'[a][l][i].type # "USER" => wire'[a][l][i].temporary # k
    BY <2>5 DEF W2
  <2> QED BY <1>5, <2>2, <2>6
<1>27. Introductions(channels', wire')
  <2>1. \A r, l \in Nodes : /\ Temporary(l) \in DOMAIN channels'[r] => Temporary(l) \in DOMAIN channels[r]
                            /\ l \in DOMAIN channels'[r] <=> l \in DOMAIN channels[r] \/ (r = n /\ l = m)
    BY <1>3, <1>5, TemporaryFacts
  <2>2. Introductions(channels, wire)
    BY DEF PlaceInv
  <2>3. \A r, l \in Nodes : Engaged(channels, r, l) => Engaged(channels', r, l)
    <3> SUFFICES ASSUME NEW r \in Nodes, NEW l \in Nodes, Engaged(channels, r, l) PROVE Engaged(channels', r, l)
      OBVIOUS
    <3>1. CASE r = n /\ l = m
      BY <2>1, <3>1 DEF Engaged
    <3>2. CASE ~(r = n /\ l = m)
      <4>1. l # k /\ (r = n => Temporary(l) # k)
        BY <1>3, <1>21, <3>2, TemporaryFacts
      <4> QED BY <1>5, <4>1 DEF Engaged
    <3> QED BY <3>1, <3>2
  <2>4. <<m, n>> \notin Invitations
    <3>1. <<n, m>>[1] = n /\ <<m, n>>[2] = n
      OBVIOUS
    <3> QED BY <1>3, <3>1, NodesAssumption
  <2> SUFFICES ASSUME NEW r \in Nodes, NEW l \in Nodes
               PROVE  /\ Temporary(l) \in DOMAIN channels'[r] => <<r, l>> \in Invitations
                      /\ <<l, r>> \in Invitations /\ l \in DOMAIN channels'[r] =>
                            /\ Engaged(channels', l, r)
                            /\ \A i \in DOMAIN wire'[l][r] : wire'[l][r][i].type # "INVITE"
    BY ZenonT(30) DEF Introductions
  <2>5. Temporary(l) \in DOMAIN channels'[r] => <<r, l>> \in Invitations
    BY <2>1, <2>2 DEF Introductions
  <2>6. ASSUME <<l, r>> \in Invitations, l \in DOMAIN channels'[r]
        PROVE  Engaged(channels', l, r) /\ \A i \in DOMAIN wire[l][r] : wire[l][r][i].type # "INVITE"
    BY <2>1, <2>2, <2>3, <2>4, <2>6 DEF Introductions
  <2>7. ASSUME \A i \in DOMAIN wire[l][r] : wire[l][r][i].type # "INVITE", NEW i \in DOMAIN wire'[l][r]
        PROVE  wire'[l][r][i].type # "INVITE"
    BY <1>25, <2>7 DEF Remains
  <2> QED BY <2>5, <2>6, <2>7
<1>28. Accounted(Stored', sent')
  <2>1. \A id : MailMark(id) \in Marks(Stored') <=> MailMark(id) \in Marks(Stored)
    BY <1>13, MarksDiffer
  <2> QED BY <1>2, <2>1 DEF PlaceInv, Accounted
<1>29. EndsNamed(Stored', names')
  BY <1>2, <1>13 DEF PlaceInv, EndsNamed
<1> QED BY <1>2, <1>13, <1>16, <1>17, <1>18, <1>19, <1>22, <1>23, <1>24, <1>26, <1>27, <1>28, <1>29
        DEF PlaceInv
-----------------------------------------------------------------------------
(* A receiver is bound: what was queued is posted.                          *)

\* Two sequences, one after the other.
LEMMA Concatenated ==
    ASSUME NEW S, NEW s \in Seq(S), NEW r \in Seq(S)
    PROVE  /\ \A i \in DOMAIN (s \o r) : \/ i \in DOMAIN s /\ (s \o r)[i] = s[i]
                                        \/ \E j \in DOMAIN r : (s \o r)[i] = r[j]
           /\ InTasks(s) \o InTasks(r) = InTasks(s \o r)
           /\ InMail(s) \o InMail(r) = InMail(s \o r)
<1> DEFINE m == Len(s)
           n == Len(r)
           q == s \o r
<1>1. m \in Nat /\ n \in Nat /\ DOMAIN s = 1..m /\ DOMAIN r = 1..n
  OBVIOUS
<1>2. DOMAIN q = 1..(m + n) /\ \A i \in 1..(m + n) : q[i] = IF i <= m THEN s[i] ELSE r[i - m]
  OBVIOUS
<1> HIDE DEF m, n, q
<1>3. \A i \in 1..(m + n) : i <= m => i \in 1..m
  BY <1>1
<1>4. \A i \in 1..(m + n) : ~(i <= m) => i - m \in 1..n
  BY <1>1
<1>5. \A i \in DOMAIN q : \/ i \in DOMAIN s /\ q[i] = s[i]
                          \/ \E j \in DOMAIN r : q[i] = r[j]
  BY <1>1, <1>2, <1>3, <1>4
<1>6. ASSUME NEW f, NEW g, NEW h, DOMAIN f = 1..m, DOMAIN g = 1..n, DOMAIN h = 1..(m + n),
             f = [i \in 1..m |-> f[i]], g = [i \in 1..n |-> g[i]], h = [i \in 1..(m + n) |-> h[i]],
             \A i \in 1..(m + n) : h[i] = IF i <= m THEN f[i] ELSE g[i - m]
      PROVE  f \o g = h
  <2> DEFINE U == {f[i] : i \in 1..m} \cup {g[i] : i \in 1..n}
  <2>1. \A i \in 1..m : f[i] \in U
    OBVIOUS
  <2>2. \A i \in 1..n : g[i] \in U
    OBVIOUS
  <2> HIDE DEF U
  <2>3. f \in Seq(U) /\ Len(f) = m
    <3>1. f \in [1..m -> U]
      BY <1>6, <2>1
    <3> QED BY <1>1, <3>1
  <2>4. g \in Seq(U) /\ Len(g) = n
    <3>1. g \in [1..n -> U]
      BY <1>6, <2>2
    <3> QED BY <1>1, <3>1
  <2>5. f \o g \in Seq(U)
    BY <2>3, <2>4
  <2>6. DOMAIN (f \o g) = 1..(m + n) /\ \A i \in 1..(m + n) : (f \o g)[i] = h[i]
    BY <2>3, <2>4, <1>1, <1>6
  <2>7. f \o g = [i \in 1..(m + n) |-> (f \o g)[i]]
    <3> DEFINE k == f \o g
    <3>1. k \in Seq(U) /\ DOMAIN k = 1..(m + n)
      BY <2>5, <2>6
    <3> HIDE DEF k
    <3>2. k = [i \in 1..(m + n) |-> k[i]]
      BY <3>1
    <3> QED BY <3>2 DEF k
  <2> QED BY <2>6, <2>7, <1>6
<1>7. InTasks(s) \o InTasks(r) = InTasks(q)
  <2> DEFINE f == InTasks(s)
             g == InTasks(r)
             h == InTasks(q)
  <2>1. /\ DOMAIN f = 1..m /\ DOMAIN g = 1..n /\ DOMAIN h = 1..(m + n)
        /\ f = [i \in 1..m |-> f[i]] /\ g = [i \in 1..n |-> g[i]] /\ h = [i \in 1..(m + n) |-> h[i]]
    BY <1>1, <1>2 DEF InTasks
  <2>2. \A i \in 1..(m + n) : h[i] = IF i <= m THEN f[i] ELSE g[i - m]
    BY <1>1, <1>2, <1>3, <1>4 DEF InTasks
  <2> HIDE DEF f, g, h
  <2>3. f \o g = h
    BY <1>6, <2>1, <2>2
  <2> QED BY <2>3 DEF f, g, h
<1>8. InMail(s) \o InMail(r) = InMail(q)
  <2> DEFINE f == InMail(s)
             g == InMail(r)
             h == InMail(q)
  <2>1. /\ DOMAIN f = 1..m /\ DOMAIN g = 1..n /\ DOMAIN h = 1..(m + n)
        /\ f = [i \in 1..m |-> f[i]] /\ g = [i \in 1..n |-> g[i]] /\ h = [i \in 1..(m + n) |-> h[i]]
    BY <1>1, <1>2 DEF InMail
  <2>2. \A i \in 1..(m + n) : h[i] = IF i <= m THEN f[i] ELSE g[i - m]
    BY <1>1, <1>2, <1>3, <1>4 DEF InMail
  <2> HIDE DEF f, g, h
  <2>3. f \o g = h
    BY <1>6, <2>1, <2>2
  <2> QED BY <2>3 DEF f, g, h
<1> QED BY <1>5, <1>7, <1>8 DEF q

\* Where the same endpoints are available and the same ends travel, all that
\* was at home is.
LEMMA HomesKept ==
    ASSUME NEW E, NEW P, NEW W, NEW p, AllAtHome(E, P, W, p), NEW E2, NEW P2, NEW W2,
           \A n \in Nodes : DOMAIN E2[n] = DOMAIN E[n],
           \A n \in Nodes : \A x \in DOMAIN E[n] : Available(E2, P2, n, x) <=> Available(E, P, n, x),
           \A e : Travels(W2, e) <=> Travels(W, e)
    PROVE  AllAtHome(E2, P2, W2, p)
<1> SUFFICES ASSUME NEW e \in Ends, AtHome(E, P, W, e) PROVE AtHome(E2, P2, W2, e)
  BY DEF AllAtHome
<1> QED BY DEF AtHome

\* The invitations under way are the same, but for those that have been read.
SameTalk(W, W2) ==
    \A k, l \in Nodes : \A i \in DOMAIN W2[k][l] : W2[k][l][i].type # "USER" =>
        \E j \in DOMAIN W[k][l] : W2[k][l][i] = W[k][l][j]

\* A step that leaves the channels and the pending invitations alone.
LEMMA TalkStays ==
    ASSUME PlaceInv, NEW W2, SameTalk(wire, W2)
    PROVE  InvitesPending(pending, W2) /\ Introductions(channels, W2)
<1>1. InvitesPending(pending, wire) /\ Introductions(channels, wire)
  BY DEF PlaceInv
<1>2. ASSUME NEW k \in Nodes, NEW l \in Nodes, NEW i \in DOMAIN W2[k][l], W2[k][l][i].type # "USER"
      PROVE  \E j \in DOMAIN wire[k][l] : W2[k][l][i] = wire[k][l][j]
  BY <1>2 DEF SameTalk
<1>3. InvitesPending(pending, W2)
  <2> SUFFICES ASSUME NEW k \in Nodes, NEW l \in Nodes, NEW i \in DOMAIN W2[k][l]
               PROVE  /\ W2[k][l][i].type = "INVITE" => W2[k][l][i].temporary \in DOMAIN pending[k]
                      /\ W2[k][l][i].type = "ACCEPT" => W2[k][l][i].temporary \in DOMAIN pending[l]
    BY DEF InvitesPending
  <2> QED BY <1>1, <1>2 DEF InvitesPending
<1>4. Introductions(channels, W2)
  <2> SUFFICES ASSUME NEW r \in Nodes, NEW l \in Nodes
               PROVE  /\ Temporary(l) \in DOMAIN channels[r] => <<r, l>> \in Invitations
                      /\ <<l, r>> \in Invitations /\ l \in DOMAIN channels[r] =>
                            /\ Engaged(channels, l, r)
                            /\ \A i \in DOMAIN W2[l][r] : W2[l][r][i].type # "INVITE"
    BY ZenonT(30) DEF Introductions
  <2>1. Temporary(l) \in DOMAIN channels[r] => <<r, l>> \in Invitations
    BY <1>1 DEF Introductions
  <2>2. ASSUME <<l, r>> \in Invitations, l \in DOMAIN channels[r]
        PROVE  /\ Engaged(channels, l, r)
               /\ \A i \in DOMAIN wire[l][r] : wire[l][r][i].type # "INVITE"
    BY <1>1, <2>2 DEF Introductions
  <2>3. ASSUME \A i \in DOMAIN wire[l][r] : wire[l][r][i].type # "INVITE", NEW i \in DOMAIN W2[l][r]
        PROVE  W2[l][r][i].type # "INVITE"
    BY <1>2, <2>3
  <2> QED BY <2>1, <2>2, <2>3
<1> QED BY <1>3, <1>4

\* What it is to bind x of n, on which q is queued, to a receiver of thread t.
Bound(n, t, x, q) ==
    /\ x \in DOMAIN endpoints[n] /\ x \in Names /\ x \in held[n]
    /\ EndOf(x) \in Ends
    /\ endpoints[n][x].state = "queueing" /\ q = endpoints[n][x].queue
    /\ q \in Seq(Mail(endpoints, names))
    /\ \A l \in Nodes : l # n => endpoints'[l] = endpoints[l]
    /\ DOMAIN endpoints'[n] = DOMAIN endpoints[n]
    /\ endpoints'[n][x].state = "bound" /\ endpoints'[n][x].queue = << >>
    /\ \A y \in DOMAIN endpoints[n] : y # x => endpoints'[n][y] = endpoints[n][y]
    /\ TasksFor(x, q) \in Seq(Tasks(endpoints, names, n))
    /\ tasks[n][t] \in Seq(Tasks(endpoints, names, n))
    /\ tasks'[n][t] = tasks[n][t] \o TasksFor(x, q)
    /\ \A l \in Nodes : \A u \in Threads : l # n \/ u # t => tasks'[l][u] = tasks[l][u]

\* That is what happens.
LEMMA BoundFacts ==
    ASSUME IndInv, NEW n \in Nodes, NEW t \in Threads, NEW x \in held[n], Bind(n, t, x)
    PROVE  \E q : Bound(n, t, x, q)
<1> DEFINE q == endpoints[n][x].queue
           new == [endpoints[n][x] EXCEPT !.state = "bound", !.runner = t, !.queue = << >>]
<1>1. x \in DOMAIN endpoints[n]
  BY DEF IndInv, HeldSound
<1>2. x \in Given(names) /\ endpoints[n][x] \in SoundEndpoints(endpoints, names, n, x)
  BY <1>1, EndpointFacts
<1>3. x \in Names /\ EndOf(x) \in Ends /\ names[EndOf(x)] # 0
  <2>1. x \in Names /\ x[3] \in Nat /\ x[3] < names[EndOf(x)] /\ EndOf(x) \in Ends
    BY <1>2, EndsFit DEF Given, Names
  <2> QED BY <2>1
<1>5. endpoints[n][x].state = "queueing" /\ endpoints' = [endpoints EXCEPT ![n][x] = new]
  BY DEF Bind
<1>6. new.state = "bound" /\ new.queue = << >>
  BY <1>2 DEF SoundEndpoints
<1>7. q \in Seq(QueuedMail(endpoints, names, n, EndOf(x)))
  BY <1>2 DEF SoundEndpoints
<1>8. TasksFor(x, q) \in Seq(Tasks(endpoints, names, n))
  <2> HIDE DEF q
  <2> QED BY <1>1, <1>7, TasksForSound
<1>9. q \in Seq(Mail(endpoints, names))
  BY <1>1, QueueTyped
<1>10. tasks' = [tasks EXCEPT ![n][t] = @ \o TasksFor(x, q)]
  BY DEF Bind
<1> HIDE DEF q, new
<1>11. /\ \A l \in Nodes : l # n => endpoints'[l] = endpoints[l]
       /\ DOMAIN endpoints'[n] = DOMAIN endpoints[n] /\ endpoints'[n][x] = new
       /\ \A y \in DOMAIN endpoints[n] : y # x => endpoints'[n][y] = endpoints[n][y]
  BY <1>1, <1>5 DEF IndInv, EndpointsSound
<1>12. /\ tasks'[n][t] = tasks[n][t] \o TasksFor(x, q)
       /\ \A l \in Nodes : \A u \in Threads : l # n \/ u # t => tasks'[l][u] = tasks[l][u]
       /\ tasks[n][t] \in Seq(Tasks(endpoints, names, n))
  BY <1>10 DEF IndInv, TasksSound
<1>13. q = endpoints[n][x].queue
  BY DEF q
<1>14. Bound(n, t, x, q)
  BY <1>1, <1>3, <1>5, <1>6, <1>8, <1>9, <1>11, <1>12, <1>13 DEF Bound
<1> QED BY <1>14

\* A message that waits for its receiver is ready to be run, when the endpoint
\* it waits on is moved.
LEMMA QueuedCanBeRun ==
    ASSUME IndInv, PlaceInv, NEW n \in Nodes, NEW x \in DOMAIN endpoints[n],
           NEW E2, NEW P2, NEW S, OnlyMoves(endpoints, pending, E2, P2, S),
           \A e \in S : EndMark(e) \notin Marks(Stored),
           NEW q, q = endpoints[n][x].queue, NEW y, NEW i \in DOMAIN TasksFor(y, q)
    PROVE  TaskReady(E2, P2, n, TasksFor(y, q)[i])
<1> DEFINE msg == q[i]
           task == TasksFor(y, q)[i]
<1>1. q \in Seq(Mail(endpoints, names))
  BY QueueTyped
<1>2. i \in DOMAIN q /\ task.op = "message" /\ task.msg = msg
  BY <1>1, SameMarks
<1>3. QueueReady(endpoints, pending, n, msg)
  BY <1>2 DEF PlaceInv, QueuesReady
<1>4. Clear(msg, S)
  <2>1. \A l \in Nodes : DOMAIN endpoints[l] \subseteq Names
    BY StoredTyped
  <2>2. \A e \in S : EndMark(e) \notin Marks(Contents(endpoints, wire, call, tasks, got))
    BY DEF Stored
  <2>3. QueuesClear(endpoints, S)
    BY <2>1, <2>2, AllClear
  <2> QED BY <1>2, <2>3 DEF QueuesClear
<1> HIDE DEF msg, task
<1>5. DistinctEnds(msg) /\ PipesReady(endpoints, pending, n, msg)
  BY <1>3 DEF QueueReady, CallReady
<1>6. PipesReady(E2, P2, n, msg)
  BY <1>4, <1>5, MessageStays
<1>7. TaskReady(E2, P2, n, task)
  BY <1>2, <1>5, <1>6 DEF TaskReady
<1> QED BY <1>7 DEF task

\* A receiver is bound.
LEMMA BindPlaces ==
    ASSUME IndInv, PlaceInv, NEW n \in Nodes, NEW t \in Threads, NEW x \in held[n], Bind(n, t, x)
    PROVE  PlaceInv'
<1>1. PICK q : Bound(n, t, x, q)
  BY BoundFacts
<1> DEFINE S == {EndOf(x)}
           b == QueueBox(n, x)
           c == TaskBox(n, t)
           r == TasksFor(x, q)
<1>2. /\ channels' = channels /\ pending' = pending /\ wire' = wire /\ call' = call
      /\ got' = got /\ sent' = sent /\ held' = held /\ pipes' = pipes /\ names' = names
  BY DEF Bind, appVars
<1>3. /\ x \in DOMAIN endpoints[n] /\ x \in Names /\ EndOf(x) \in Ends
      /\ endpoints[n][x].state = "queueing" /\ q = endpoints[n][x].queue
      /\ q \in Seq(Mail(endpoints, names))
  BY <1>1 DEF Bound
<1>4. /\ \A l \in Nodes : l # n => endpoints'[l] = endpoints[l]
      /\ DOMAIN endpoints'[n] = DOMAIN endpoints[n]
      /\ endpoints'[n][x].state = "bound" /\ endpoints'[n][x].queue = << >>
      /\ \A y \in DOMAIN endpoints[n] : y # x => endpoints'[n][y] = endpoints[n][y]
  BY <1>1 DEF Bound
<1>5. /\ tasks'[n][t] = tasks[n][t] \o r
      /\ \A l \in Nodes : \A u \in Threads : l # n \/ u # t => tasks'[l][u] = tasks[l][u]
  BY <1>1 DEF Bound
<1>6. r \in Seq(Tasks(endpoints, names, n)) /\ tasks[n][t] \in Seq(Tasks(endpoints, names, n))
  BY <1>1 DEF Bound
<1>7. /\ \A i \in DOMAIN tasks'[n][t] : \/ i \in DOMAIN tasks[n][t] /\ tasks'[n][t][i] = tasks[n][t][i]
                                        \/ \E j \in DOMAIN r : tasks'[n][t][i] = r[j]
      /\ InTasks(tasks[n][t]) \o InTasks(r) = InTasks(tasks'[n][t])
  <2> DEFINE s == tasks[n][t]
             Q == Tasks(endpoints, names, n)
  <2>1. s \in Seq(Q) /\ r \in Seq(Q) /\ tasks'[n][t] = s \o r
    BY <1>5, <1>6
  <2> HIDE DEF s, Q, r
  <2>2. /\ \A i \in DOMAIN (s \o r) : \/ i \in DOMAIN s /\ (s \o r)[i] = s[i]
                                     \/ \E j \in DOMAIN r : (s \o r)[i] = r[j]
        /\ InTasks(s) \o InTasks(r) = InTasks(s \o r)
    BY <2>1, Concatenated
  <2> QED BY <2>1, <2>2 DEF s
<1>8. InTasks(r) = InMail(q)
  BY <1>3, SameMarks
<1> HIDE DEF b, c, r
<1>9. HeldOnce(endpoints, pending, held, Stored) /\ Available(endpoints, pending, n, x)
      /\ EndMark(EndOf(x)) \notin Marks(Stored)
  BY DEF PlaceInv, HeldOnce
<1>10. \A l \in Nodes : \A y \in DOMAIN endpoints[l] :
           Available(endpoints', pending, l, y) <=> Available(endpoints, pending, l, y)
  <2> SUFFICES ASSUME NEW y \in DOMAIN endpoints[n]
               PROVE Available(endpoints', pending, n, y) <=> Available(endpoints, pending, n, y)
    BY <1>4 DEF Available
  <2>1. CASE y = x
    BY <1>3, <1>4, <2>1 DEF Available
  <2>2. CASE y # x
    BY <1>4, <2>2 DEF Available
  <2> QED BY <2>1, <2>2
<1>11. Stored' = Pour(Stored, b, c) /\ b \in Boxes /\ c \in Boxes /\ b # c
  <2>1. b \in Boxes
    BY <1>3, InQueueBox DEF b
  <2>2. c \in Boxes
    BY InTaskBox DEF c
  <2>3. c # b
    BY DEF b, c, QueueBox, TaskBox
  <2>4. ElseSame(endpoints, wire, call, tasks, got, endpoints', wire, call, tasks', got, {b, c})
    <3>1. \A l \in Nodes : \A y \in Names :
              QueueBox(l, y) \notin {b, c} => QueueOf(endpoints', l, y) = QueueOf(endpoints, l, y)
      <4> SUFFICES ASSUME NEW l \in Nodes, NEW y \in Names, l # n \/ y # x
                   PROVE  QueueOf(endpoints', l, y) = QueueOf(endpoints, l, y)
        BY DEF b
      <4> QED BY <1>4 DEF QueueOf
    <3>2. \A l \in Nodes : \A u \in Threads :
              TaskBox(l, u) \notin {b, c} => tasks'[l][u] = tasks[l][u]
      BY <1>5 DEF c
    <3> QED BY <3>1, <3>2 DEF ElseSame
  <2>5. QueueOf(endpoints', n, x) = << >> /\ QueueOf(endpoints, n, x) = q
    BY <1>3, <1>4 DEF QueueOf
  <2>6. Contents(endpoints, wire, call, tasks, got)[c] \o Contents(endpoints, wire, call, tasks, got)[b]
            = Contents(endpoints', wire, call, tasks', got)[c]
    <3>1. Contents(endpoints, wire, call, tasks, got)[TaskBox(n, t)] = InTasks(tasks[n][t])
      BY InTaskBox
    <3>2. Contents(endpoints', wire, call, tasks', got)[TaskBox(n, t)] = InTasks(tasks'[n][t])
      BY InTaskBox
    <3>3. Contents(endpoints, wire, call, tasks, got)[QueueBox(n, x)] = InMail(QueueOf(endpoints, n, x))
      BY <1>3, InQueueBox
    <3> QED BY <1>7, <1>8, <2>5, <3>1, <3>2, <3>3 DEF b, c
  <2> DEFINE E2 == endpoints'
             T2 == tasks'
  <2>7. QueueGoes(endpoints, wire, call, tasks, got, E2, call, T2, n, x, c)
    BY <2>2, <2>3, <2>4, <2>5, <2>6 DEF QueueGoes, b
  <2>8. x \in Names
    BY <1>3
  <2> HIDE DEF E2, T2
  <2>9. Contents(E2, wire, call, T2, got) = Pour(Contents(endpoints, wire, call, tasks, got), QueueBox(n, x), c)
    BY <2>7, <2>8, QueuePoured
  <2>10. Stored' = Contents(E2, wire, call, T2, got) /\ Stored = Contents(endpoints, wire, call, tasks, got)
    BY <1>2 DEF Stored, E2, T2
  <2> QED BY <2>1, <2>2, <2>3, <2>9, <2>10 DEF b
<1>12. Once(Stored') /\ Marks(Stored') = Marks(Stored)
  <2>1. Stored \in Shelves(Boxes, AllMarks) /\ Once(Stored)
    BY StoredTyped DEF PlaceInv
  <2>2. Once(Pour(Stored, b, c)) /\ Marks(Pour(Stored, b, c)) = Marks(Stored)
    BY <1>11, <2>1, PourOnce
  <2> QED BY <1>11, <2>2
<1>13. OnlyMoves(endpoints, pending, endpoints', pending, S)
  <2> SUFFICES ASSUME NEW l \in Nodes, NEW y \in DOMAIN endpoints'[l], EndOf(y) \notin S,
                      endpoints[l][y].state = "queueing"
               PROVE  endpoints'[l][y].state = "queueing"
    BY <1>4, <1>10 DEF OnlyMoves
  <2>1. y # x
    OBVIOUS
  <2> QED BY <1>4, <2>1
<1>14. \A e \in S : EndMark(e) \notin Marks(Stored)
  BY <1>9
<1> HIDE DEF S
<1>15. /\ QueuesReady(endpoints', pending) /\ CallsReady(endpoints', pending, call)
       /\ TasksReady(endpoints', pending, tasks') /\ WiresReady(endpoints', wire)
  <2>1. CallsGain(endpoints', pending, call, call) /\ WiresGain(endpoints', wire, wire)
    BY DEF CallsGain, WiresGain
  <2>2. \A l \in Nodes : DOMAIN endpoints[l] \subseteq Names
    BY StoredTyped
  <2>3. /\ QueuesReady(endpoints, pending) /\ CallsReady(endpoints, pending, call)
        /\ TasksReady(endpoints, pending, tasks) /\ WiresReady(endpoints, wire)
    BY DEF PlaceInv
  <2>4. \A e \in S : EndMark(e) \notin Marks(Contents(endpoints, wire, call, tasks, got))
    BY <1>14 DEF Stored
  <2>5. QueuesGain(endpoints, endpoints', pending)
    <3> SUFFICES ASSUME NEW l \in Nodes, NEW y \in DOMAIN endpoints'[l],
                        NEW i \in DOMAIN endpoints'[l][y].queue
                 PROVE  /\ y \in DOMAIN endpoints[l]
                        /\ \E j \in DOMAIN endpoints[l][y].queue :
                              endpoints'[l][y].queue[i] = endpoints[l][y].queue[j]
      BY DEF QueuesGain
    <3>1. ~(l = n /\ y = x)
      BY <1>4
    <3>2. y \in DOMAIN endpoints[l] /\ endpoints'[l][y] = endpoints[l][y]
      BY <1>4, <3>1
    <3> QED BY <3>2
  <2>6. TasksGain(endpoints', pending, tasks, tasks')
    <3> DEFINE E2 == endpoints'
    <3>1. OnlyMoves(endpoints, pending, E2, pending, S)
      BY <1>13
    <3> HIDE DEF E2
    <3>2. \A i \in DOMAIN TasksFor(x, q) : TaskReady(E2, pending, n, TasksFor(x, q)[i])
      BY <1>3, <1>14, <3>1, QueuedCanBeRun
    <3>3. \A i \in DOMAIN r : TaskReady(endpoints', pending, n, r[i])
      BY <3>2 DEF r, E2
    <3> SUFFICES ASSUME NEW l \in Nodes, NEW u \in Threads, NEW i \in DOMAIN tasks'[l][u]
                 PROVE  \/ \E j \in DOMAIN tasks[l][u] : tasks'[l][u][i] = tasks[l][u][j]
                        \/ TaskReady(endpoints', pending, l, tasks'[l][u][i])
      BY DEF TasksGain
    <3>4. CASE l = n /\ u = t
      BY <1>7, <3>3, <3>4
    <3>5. CASE l # n \/ u # t
      <4>1. tasks'[l][u] = tasks[l][u]
        BY <1>5, <3>5
      <4> QED BY <4>1
    <3> QED BY <3>4, <3>5
  <2> QED BY <1>13, <2>1, <2>2, <2>3, <2>4, <2>5, <2>6, AllStayReady
<1>16. HeldOnce(endpoints', pending, held, Stored')
  <2>1. \A l \in Nodes : held[l] \subseteq DOMAIN endpoints[l]
    BY DEF IndInv, HeldSound
  <2> QED BY <1>9, <1>10, <1>12, <2>1 DEF HeldOnce
<1>17. AllAtHome(endpoints', pending, wire, pipes)
  <2>1. AllAtHome(endpoints, pending, wire, pipes)
    BY DEF PlaceInv
  <2>2. \A l \in Nodes : DOMAIN endpoints'[l] = DOMAIN endpoints[l]
    BY <1>4
  <2> QED BY <1>10, <2>1, <2>2, HomesKept
<1>18. NamesApart(endpoints')
  <2>1. \A l \in Nodes : DOMAIN endpoints'[l] = DOMAIN endpoints[l]
    BY <1>4
  <2> QED BY <2>1 DEF PlaceInv, NamesApart
<1>19. PendingReady(endpoints', channels, pending)
  <2> SUFFICES ASSUME NEW l \in Nodes, NEW k \in DOMAIN pending[l]
               PROVE  /\ k \in DOMAIN channels[l]
                      /\ pending[l][k] \in DOMAIN endpoints'[l]
                      /\ endpoints'[l][pending[l][k]].state = "queueing"
                      /\ \A o \in DOMAIN pending[l] : pending[l][o] = pending[l][k] => o = k
    BY DEF PendingReady
  <2>1. /\ k \in DOMAIN channels[l] /\ pending[l][k] \in DOMAIN endpoints[l]
        /\ endpoints[l][pending[l][k]].state = "queueing"
        /\ \A o \in DOMAIN pending[l] : pending[l][o] = pending[l][k] => o = k
    BY PendingFacts
  <2>2. l = n => pending[l][k] # x
    BY <1>9 DEF Available
  <2> QED BY <1>4, <2>1, <2>2
<1>20. ProxiesReady(endpoints', channels)
  <2> SUFFICES ASSUME NEW l \in Nodes, NEW y \in DOMAIN endpoints'[l], endpoints'[l][y].state = "proxying"
               PROVE  endpoints'[l][y].target.node \in DOMAIN channels[l]
    BY DEF ProxiesReady
  <2>1. y \in DOMAIN endpoints[l] /\ endpoints'[l][y] = endpoints[l][y]
    BY <1>4
  <2> QED BY <2>1 DEF PlaceInv, ProxiesReady
<1>21. Accounted(Stored', sent) /\ EndsNamed(Stored', names)
  BY <1>12 DEF PlaceInv, Accounted, EndsNamed
<1> QED BY <1>2, <1>12, <1>15, <1>16, <1>17, <1>18, <1>19, <1>20, <1>21 DEF PlaceInv
-----------------------------------------------------------------------------
(* A message is accepted by an endpoint.                                    *)

\* The same endpoints, in the same states.
SameStates(E, E2) ==
    \A n \in Nodes :
        /\ DOMAIN E2[n] = DOMAIN E[n]
        /\ \A x \in DOMAIN E[n] : E2[n][x].state = E[n][x].state /\ E2[n][x].target = E[n][x].target

\* Then the same endpoints are available,
LEMMA StatesAvailable ==
    ASSUME NEW E, NEW E2, SameStates(E, E2), NEW P
    PROVE  /\ \A n \in Nodes : \A x : Available(E2, P, n, x) <=> Available(E, P, n, x)
           /\ \A y : Unborn(E2, y) <=> Unborn(E, y)
           /\ \A S : OnlyMoves(E, P, E2, P, S)
<1>1. \A n \in Nodes : \A x : Available(E2, P, n, x) <=> Available(E, P, n, x)
  BY DEF SameStates, Available
<1>2. \A y : Unborn(E2, y) <=> Unborn(E, y)
  BY DEF SameStates, Unborn
<1>3. \A S : OnlyMoves(E, P, E2, P, S)
  BY <1>1 DEF SameStates, OnlyMoves
<1> QED BY <1>1, <1>2, <1>3

\* and what depends on them only stays true.
LEMMA StatesKept ==
    ASSUME NEW E, NEW E2, SameStates(E, E2), NEW P, NEW C, NEW H, NEW V, NEW W, NEW p,
           HeldOnce(E, P, H, V), NamesApart(E), PendingReady(E, C, P), ProxiesReady(E, C),
           AllAtHome(E, P, W, p)
    PROVE  /\ HeldOnce(E2, P, H, V) /\ NamesApart(E2) /\ PendingReady(E2, C, P)
           /\ ProxiesReady(E2, C) /\ AllAtHome(E2, P, W, p)
<1>1. \A n \in Nodes : \A x : Available(E2, P, n, x) <=> Available(E, P, n, x)
  BY StatesAvailable
<1>2. \A n \in Nodes : DOMAIN E2[n] = DOMAIN E[n]
  BY DEF SameStates
<1>3. HeldOnce(E2, P, H, V)
  BY <1>1 DEF HeldOnce
<1>4. NamesApart(E2)
  BY <1>2 DEF NamesApart
<1>5. PendingReady(E2, C, P)
  BY DEF SameStates, PendingReady
<1>6. ProxiesReady(E2, C)
  BY DEF SameStates, ProxiesReady
<1>7. AllAtHome(E2, P, W, p)
  <2>1. \A e : Travels(W, e) <=> Travels(W, e)
    BY ZenonT(30)
  <2> QED BY <1>1, <1>2, <2>1, HomesKept
<1> QED BY <1>3, <1>4, <1>5, <1>6, <1>7

\* What endpoint x of n does with msg: it queues it, or posts it to its
\* receiver.
Accepted(E, E2, T, T2, n, x, msg) ==
    /\ SameStates(E, E2) /\ x \in DOMAIN E[n] /\ x \in Names
    /\ \A l \in Nodes : \A y \in DOMAIN E[l] : l # n \/ y # x => E2[l][y].queue = E[l][y].queue
    /\ \/ /\ \E Q : E[n][x].queue \in Seq(Q)
          /\ Append(E[n][x].queue, msg) = E2[n][x].queue
          /\ T2 = T
       \/ /\ E2[n][x].queue = E[n][x].queue
          /\ \E t \in Threads :
                /\ \E Q : T[n][t] \in Seq(Q)
                /\ Append(T[n][t], [op |-> "message", ep |-> x, msg |-> msg]) = T2[n][t]
                /\ \A l \in Nodes : \A u \in Threads : l # n \/ u # t => T2[l][u] = T[l][u]

\* The marks of msg are put in one box.
LEMMA AcceptedContents ==
    ASSUME NEW E, NEW E2, NEW T, NEW T2, NEW n \in Nodes, NEW x, NEW msg,
           Accepted(E, E2, T, T2, n, x, msg), NEW W, NEW K, NEW G
    PROVE  \E b \in Boxes : Contents(E2, W, K, T2, G) = Post(Contents(E, W, K, T, G), b, MailMarks(msg))
<1>1. /\ SameStates(E, E2) /\ x \in DOMAIN E[n] /\ x \in DOMAIN E2[n] /\ x \in Names
      /\ \A l \in Nodes : \A y \in Names : l # n \/ y # x => QueueOf(E2, l, y) = QueueOf(E, l, y)
  BY DEF Accepted, SameStates, QueueOf
<1>2. CASE /\ \E Q : E[n][x].queue \in Seq(Q)
           /\ Append(E[n][x].queue, msg) = E2[n][x].queue
           /\ T2 = T
  <2>1. PICK Q : E[n][x].queue \in Seq(Q)
    BY <1>2
  <2>2. QueueOf(E, n, x) \in Seq(Q) /\ Append(QueueOf(E, n, x), msg) = QueueOf(E2, n, x)
    BY <1>1, <1>2, <2>1 DEF QueueOf
  <2>3. Contents(E2, W, K, T, G) = Post(Contents(E, W, K, T, G), QueueBox(n, x), MailMarks(msg))
    BY <1>1, <2>2, QueuePosted
  <2>4. QueueBox(n, x) \in Boxes
    BY <1>1, InQueueBox
  <2> QED BY <1>2, <2>3, <2>4
<1>3. CASE /\ E2[n][x].queue = E[n][x].queue
           /\ \E t \in Threads :
                 /\ \E Q : T[n][t] \in Seq(Q)
                 /\ Append(T[n][t], [op |-> "message", ep |-> x, msg |-> msg]) = T2[n][t]
                 /\ \A l \in Nodes : \A u \in Threads : l # n \/ u # t => T2[l][u] = T[l][u]
  <2> DEFINE task == [op |-> "message", ep |-> x, msg |-> msg]
  <2>1. TaskMarks(task) = MailMarks(msg)
    BY DEF TaskMarks
  <2>2. PICK t \in Threads :
                 /\ \E Q : T[n][t] \in Seq(Q)
                 /\ Append(T[n][t], task) = T2[n][t]
                 /\ \A l \in Nodes : \A u \in Threads : l # n \/ u # t => T2[l][u] = T[l][u]
    BY <1>3
  <2> HIDE DEF task
  <2>3. PICK Q : T[n][t] \in Seq(Q)
    BY <2>2
  <2>4. Contents(E, W, K, T2, G) = Post(Contents(E, W, K, T, G), TaskBox(n, t), TaskMarks(task))
    <3>1. Append(T[n][t], task) = T2[n][t]
      BY <2>2
    <3>2. \A l \in Nodes : \A u \in Threads : l # n \/ u # t => T2[l][u] = T[l][u]
      BY <2>2
    <3> QED BY <2>3, <3>1, <3>2, TaskPosted
  <2>5. Contents(E2, W, K, T2, G) = Contents(E, W, K, T2, G)
    <3>1. \A l \in Nodes : \A y \in Names : QueueOf(E2, l, y) = QueueOf(E, l, y)
      BY <1>1, <1>3 DEF QueueOf
    <3> QED BY <3>1, SameContents
  <2>6. TaskBox(n, t) \in Boxes
    BY InTaskBox
  <2> QED BY <2>1, <2>4, <2>5, <2>6
<1> QED BY <1>2, <1>3, ZenonT(30) DEF Accepted

\* All that was ready is, and msg with it.
LEMMA AcceptedReady ==
    ASSUME NEW E, NEW E2, NEW T, NEW T2, NEW n \in Nodes, NEW x, NEW msg,
           Accepted(E, E2, T, T2, n, x, msg), NEW P, QueueReady(E, P, n, msg), NEW W, NEW K,
           \A l \in Nodes : DOMAIN E[l] \subseteq Names,
           QueuesReady(E, P), CallsReady(E, P, K), TasksReady(E, P, T), WiresReady(E, W)
    PROVE  QueuesReady(E2, P) /\ CallsReady(E2, P, K) /\ TasksReady(E2, P, T2) /\ WiresReady(E2, W)
<1> DEFINE S == {}
           G == << >>
<1>1. SameStates(E, E2)
  BY DEF Accepted
<1>2. /\ \A l \in Nodes : \A y : Available(E2, P, l, y) <=> Available(E, P, l, y)
      /\ \A y : Unborn(E2, y) <=> Unborn(E, y)
      /\ OnlyMoves(E, P, E2, P, S)
  BY <1>1, StatesAvailable
<1>3. QueueReady(E2, P, n, msg)
  <2>1. Fresh(E, P, n, msg) => Fresh(E2, P, n, msg)
    BY <1>1, <1>2 DEF Fresh, SameStates, Available
  <2>2. Stale(E, n, msg) => Stale(E2, n, msg)
    BY <1>1 DEF Stale, SameStates
  <2>3. PipesReady(E, P, n, msg) => PipesReady(E2, P, n, msg)
    BY <1>2 DEF PipesReady
  <2> QED BY <2>1, <2>2, <2>3 DEF QueueReady, CallReady
<1>4. QueuesGain(E, E2, P) /\ TasksGain(E2, P, T, T2)
  <2>1. CASE /\ \E Q : E[n][x].queue \in Seq(Q)
             /\ Append(E[n][x].queue, msg) = E2[n][x].queue
             /\ T2 = T
    <3>1. TasksGain(E2, P, T, T2)
      BY <2>1 DEF TasksGain
    <3>2. ASSUME NEW i \in DOMAIN E2[n][x].queue
          PROVE  \/ \E j \in DOMAIN E[n][x].queue : E2[n][x].queue[i] = E[n][x].queue[j]
                 \/ E2[n][x].queue[i] = msg
      <4> DEFINE s == E[n][x].queue
                 s2 == E2[n][x].queue
      <4>1. PICK Q : s \in Seq(Q)
        BY <2>1
      <4>2. Append(s, msg) = s2
        BY <2>1
      <4> HIDE DEF s, s2
      <4>3. \A j \in DOMAIN s2 : (j \in DOMAIN s /\ s2[j] = s[j]) \/ s2[j] = msg
        BY <4>1, <4>2
      <4> QED BY <4>3 DEF s, s2
    <3>3. QueuesGain(E, E2, P)
      <4> SUFFICES ASSUME NEW l \in Nodes, NEW y \in DOMAIN E2[l], NEW i \in DOMAIN E2[l][y].queue
                   PROVE  \/ /\ y \in DOMAIN E[l]
                             /\ \E j \in DOMAIN E[l][y].queue : E2[l][y].queue[i] = E[l][y].queue[j]
                          \/ QueueReady(E2, P, l, E2[l][y].queue[i])
        BY DEF QueuesGain
      <4>1. y \in DOMAIN E[l]
        BY <1>1 DEF SameStates
      <4>2. CASE l = n /\ y = x
        BY <1>3, <3>2, <4>1, <4>2
      <4>3. CASE l # n \/ y # x
        <5>1. E2[l][y].queue = E[l][y].queue
          BY <4>1, <4>3 DEF Accepted
        <5> QED BY <4>1, <5>1
      <4> QED BY <4>2, <4>3
    <3> QED BY <3>1, <3>3
  <2>2. CASE /\ E2[n][x].queue = E[n][x].queue
             /\ \E t \in Threads :
                   /\ \E Q : T[n][t] \in Seq(Q)
                   /\ Append(T[n][t], [op |-> "message", ep |-> x, msg |-> msg]) = T2[n][t]
                   /\ \A l \in Nodes : \A u \in Threads : l # n \/ u # t => T2[l][u] = T[l][u]
    <3>1. QueuesGain(E, E2, P)
      <4> SUFFICES ASSUME NEW l \in Nodes, NEW y \in DOMAIN E2[l], NEW i \in DOMAIN E2[l][y].queue
                   PROVE  /\ y \in DOMAIN E[l]
                          /\ \E j \in DOMAIN E[l][y].queue : E2[l][y].queue[i] = E[l][y].queue[j]
        BY DEF QueuesGain
      <4>1. y \in DOMAIN E[l]
        BY <1>1 DEF SameStates
      <4>2. E2[l][y].queue = E[l][y].queue
        BY <2>2, <4>1 DEF Accepted
      <4> QED BY <4>1, <4>2
    <3> DEFINE task == [op |-> "message", ep |-> x, msg |-> msg]
    <3>2. PICK t \in Threads :
                   /\ \E Q : T[n][t] \in Seq(Q)
                   /\ Append(T[n][t], task) = T2[n][t]
                   /\ \A l \in Nodes : \A u \in Threads : l # n \/ u # t => T2[l][u] = T[l][u]
      BY <2>2
    <3>3. PICK Q : T[n][t] \in Seq(Q)
      BY <3>2
    <3>4. TaskReady(E2, P, n, task)
      BY <1>3 DEF QueueReady, CallReady, TaskReady
    <3> HIDE DEF task
    <3>5. TasksGain(E2, P, T, T2)
      BY <3>2, <3>3, <3>4, TaskGained, ZenonT(30)
    <3> QED BY <3>1, <3>5
  <2> QED BY <2>1, <2>2, ZenonT(30) DEF Accepted
<1>5. CallsGain(E2, P, K, K) /\ WiresGain(E2, W, W)
  BY DEF CallsGain, WiresGain
<1>6. \A e \in S : EndMark(e) \notin Marks(Contents(E, W, K, T, G))
  OBVIOUS
<1> HIDE DEF S, G
<1> QED BY <1>2, <1>4, <1>5, <1>6, AllStayReady

\* And so it goes in the model; E is the table once what came with msg is in
\* place.
LEMMA AcceptFacts ==
    ASSUME IndInv, NEW n \in Nodes, NEW table, NEW E, E[n] = table,
           \A l \in Nodes : l # n => E[l] = endpoints[l],
           NEW x \in DOMAIN table, x \in Names, NEW Q, table[x].queue \in Seq(Q),
           table[x] = [state |-> table[x].state, peer |-> table[x].peer, target |-> table[x].target,
                       runner |-> table[x].runner, queue |-> table[x].queue],
           table[x].state = "bound" => table[x].runner \in Threads,
           NEW msg, AcceptMessage(n, table, x, msg)
    PROVE  Accepted(E, endpoints', tasks, tasks', n, x, msg)
<1>1. DOMAIN endpoints = Nodes /\ DOMAIN tasks = Nodes /\ \A l \in Nodes : DOMAIN tasks[l] = Threads
  BY DEF IndInv, EndpointsSound, TasksSound
<1>2. CASE /\ table[x].state = "queueing"
           /\ endpoints' = [endpoints EXCEPT ![n] = [table EXCEPT ![x].queue = Append(@, msg)]]
           /\ tasks' = tasks
  <2> DEFINE new == [table[x] EXCEPT !.queue = Append(table[x].queue, msg)]
  <2>1. /\ \A l \in Nodes : l # n => endpoints'[l] = E[l]
        /\ DOMAIN endpoints'[n] = DOMAIN table /\ endpoints'[n][x] = new
        /\ \A y \in DOMAIN table : y # x => endpoints'[n][y] = table[y]
    BY <1>1, <1>2
  <2>2. new.state = table[x].state /\ new.target = table[x].target
        /\ Append(table[x].queue, msg) = new.queue
    OBVIOUS
  <2> HIDE DEF new
  <2>3. SameStates(E, endpoints')
    BY <2>1, <2>2 DEF SameStates
  <2>4. \A l \in Nodes : \A y \in DOMAIN E[l] : l # n \/ y # x => endpoints'[l][y].queue = E[l][y].queue
    BY <2>1
  <2>5. E[n][x].queue \in Seq(Q) /\ Append(E[n][x].queue, msg) = endpoints'[n][x].queue
    BY <2>1, <2>2
  <2> QED BY <1>2, <2>3, <2>4, <2>5 DEF Accepted
<1>3. CASE /\ table[x].state = "bound"
           /\ endpoints' = [endpoints EXCEPT ![n] = table]
           /\ tasks' = [tasks EXCEPT ![n][table[x].runner] = @ \o TasksFor(x, <<msg>>)]
  <2> DEFINE t == table[x].runner
             task == [op |-> "message", ep |-> x, msg |-> msg]
             s == tasks[n][t]
  <2>1. \A l \in Nodes : endpoints'[l] = E[l]
    BY <1>1, <1>3
  <2>2. t \in Threads
    BY <1>3
  <2>3. s \in Seq(Tasks(endpoints, names, n))
    BY <2>2 DEF IndInv, TasksSound
  <2>4. TasksFor(x, <<msg>>) = <<task>>
    BY DEF TasksFor
  <2>5. tasks'[n][t] = s \o TasksFor(x, <<msg>>)
        /\ \A l \in Nodes : \A u \in Threads : l # n \/ u # t => tasks'[l][u] = tasks[l][u]
    BY <1>1, <1>3, <2>2
  <2>6. Append(s, task) = tasks'[n][t]
    <3> DEFINE Q2 == Tasks(endpoints, names, n)
    <3>1. s \in Seq(Q2) /\ tasks'[n][t] = s \o <<task>>
      BY <2>3, <2>4, <2>5
    <3> HIDE DEF Q2, task, s
    <3> QED BY <3>1
  <2>7. SameStates(E, endpoints')
    BY <2>1 DEF SameStates
  <2>8. \A l \in Nodes : \A y \in DOMAIN E[l] : endpoints'[l][y].queue = E[l][y].queue
    BY <2>1
  <2> HIDE DEF t
  <2> QED BY <2>2, <2>3, <2>5, <2>6, <2>7, <2>8 DEF Accepted
<1> QED BY <1>2, <1>3 DEF AcceptMessage
-----------------------------------------------------------------------------
(* A message is sent.                                                       *)

\* What is in a message that is sent: handles of different ends, that can be
\* moved and are nowhere else, and a number that is new.
Sent(n, c, hs, msg) ==
    /\ hs \in Seq(held[n]) /\ ToSet(hs) \subseteq held[n]
    /\ DOMAIN msg.descs = DOMAIN hs /\ \A i \in DOMAIN hs : msg.descs[i].name = hs[i]
    /\ \A d \in ToSet(msg.descs) : d.name \in ToSet(hs)
    /\ msg.id \in Ids /\ EndOf(msg.id) = EndOf(c) /\ msg.id[3] = sent[EndOf(c)] + 1
    /\ MailMarks(msg) \subseteq AllMarks /\ MailMarks(msg) \cap Marks(Stored) = {}
    /\ DistinctEnds(msg) /\ Fresh(endpoints, pending, n, msg)

\* A fresh name is no endpoint's.
LEMMA FreshUnborn ==
    ASSUME IndInv, NEW e \in Ends
    PROVE  EndOf(FreshName(e)) = e /\ Unborn(endpoints, FreshName(e))
<1>1. EndOf(FreshName(e)) = e /\ FreshName(e)[3] = names[e] /\ names[e] \in Nat
  BY DEF FreshName, EndOf, Ends, IndInv, NamesSound
<1>2. ASSUME NEW l \in Nodes, FreshName(e) \in DOMAIN endpoints[l] PROVE FALSE
  <2>1. FreshName(e) \in Given(names)
    BY <1>2, EndpointFacts
  <2>2. names[e] < names[e]
    BY <1>1, <2>1 DEF Given
  <2> QED BY <1>1, <2>2
<1> QED BY <1>1, <1>2 DEF Unborn

\* That is what is sent, whoever it is for.
LEMMA SentFacts ==
    ASSUME IndInv, PlaceInv, NEW n \in Nodes, NEW t, NEW c \in held[n], NEW hs \in HandleLists(n, c),
           Sends(n, t, c, hs),
           NEW msg, msg.id = NewMessage(n, c, hs).id, msg.descs = NewMessage(n, c, hs).descs
    PROVE  Sent(n, c, hs, msg)
<1>1. PICK k \in 0..MaxHandles : hs \in [1..k -> {x \in held[n] : MaySend(n, x, c)}]
  BY DEF HandleLists
<1>2. \A i, j \in DOMAIN hs : hs[i] = hs[j] => i = j
  BY DEF HandleLists, IsInjective
<1>3. k \in Nat
  BY BoundsAssumption
<1>4. /\ hs \in Seq(held[n]) /\ ToSet(hs) \subseteq held[n] /\ DOMAIN hs = 1..k
      /\ \A x \in ToSet(hs) : MaySend(n, x, c)
  <2>1. hs \in [1..k -> held[n]]
    BY <1>1
  <2>2. hs \in Seq(held[n])
    BY <1>3, <2>1
  <2>3. ToSet(hs) \subseteq held[n]
    BY <2>2, ToSetFacts
  <2>4. \A x \in ToSet(hs) : MaySend(n, x, c)
    BY <1>1 DEF ToSet
  <2> QED BY <1>1, <2>2, <2>3, <2>4
<1>5. /\ msg.id = <<c[1], c[2], sent[EndOf(c)] + 1>>
      /\ DOMAIN msg.descs = DOMAIN hs
      /\ \A i \in DOMAIN hs : /\ msg.descs[i].name = hs[i]
                              /\ msg.descs[i].cross = FreshName(EndOf(hs[i]))
  BY DEF NewMessage, Descriptor
<1>6. \A d \in ToSet(msg.descs) : d.name \in ToSet(hs) /\ d.cross = FreshName(EndOf(d.name))
  BY <1>5 DEF ToSet
<1>7. held[n] \subseteq DOMAIN endpoints[n]
  BY DEF IndInv, HeldSound
<1>8. \A x \in held[n] : /\ x \in Names /\ EndOf(x) \in Ends /\ x \in Given(names)
                         /\ endpoints[n][x].state \in {"queueing", "bound", "proxying"}
  BY <1>7, EndpointFacts DEF SoundEndpoints
<1>9. /\ HeldOnce(endpoints, pending, held, Stored) /\ Accounted(Stored, sent)
  BY DEF PlaceInv
<1>10. sent[EndOf(c)] \in Nat /\ c \in Names /\ EndOf(c) \in Ends
  BY <1>8 DEF IndInv, CountersSound
<1>11. msg.id \in Ids /\ EndOf(msg.id) = EndOf(c) /\ msg.id[3] = sent[EndOf(c)] + 1
  BY <1>5, <1>10 DEF Ids, Names, EndOf
<1>12. MailMark(msg.id) \notin Marks(Stored)
  BY <1>9, <1>10, <1>11 DEF Accounted
<1>13. \A x \in held[n] : EndMark(EndOf(x)) \notin Marks(Stored) /\ Available(endpoints, pending, n, x)
                          /\ \A y \in held[n] : EndOf(y) = EndOf(x) => y = x
  BY <1>9 DEF HeldOnce
<1>14. MailMarks(msg) \subseteq AllMarks /\ MailMarks(msg) \cap Marks(Stored) = {}
  <2>1. \A d \in ToSet(msg.descs) : /\ EndMark(EndOf(d.name)) \notin Marks(Stored)
                                    /\ EndOf(d.name) \in Ends
    BY <1>4, <1>6, <1>8, <1>13
  <2> QED BY <1>11, <1>12, <2>1 DEF MailMarks, DescMarks, AllMarks
<1>15. \A x \in held[n] : EndOf(FreshName(EndOf(x))) = EndOf(x)
  BY DEF FreshName, EndOf
<1>16. DistinctEnds(msg)
  <2>1. ASSUME NEW i \in DOMAIN hs, NEW j \in DOMAIN hs, EndOf(hs[i]) = EndOf(hs[j])
        PROVE  i = j
    <3>1. hs[i] \in held[n] /\ hs[j] \in held[n]
      BY <1>1
    <3> QED BY <1>2, <1>13, <2>1, <3>1
  <2> QED BY <1>4, <1>5, <1>6, <1>15, <2>1 DEF DistinctEnds
<1>17. \A e \in Ends : Unborn(endpoints, FreshName(e))
  <2> SUFFICES ASSUME NEW e \in Ends PROVE Unborn(endpoints, FreshName(e))
    OBVIOUS
  <2> QED BY FreshUnborn
<1>18. Fresh(endpoints, pending, n, msg)
  <2> SUFFICES ASSUME NEW d \in ToSet(msg.descs)
               PROVE  /\ Available(endpoints, pending, n, d.name)
                      /\ endpoints[n][d.name].state = "queueing" /\ Unborn(endpoints, d.cross)
    BY DEF Fresh
  <2>1. d.name \in held[n] /\ MaySend(n, d.name, c) /\ d.cross = FreshName(EndOf(d.name))
    BY <1>4, <1>6
  <2>2. Available(endpoints, pending, n, d.name)
    BY <1>13, <2>1
  <2>3. endpoints[n][d.name].state = "queueing"
    BY <1>8, <2>1, <2>2 DEF MaySend, Available
  <2>4. EndOf(d.name) \in Ends
    BY <1>8, <2>1
  <2> QED BY <1>17, <2>1, <2>2, <2>3, <2>4
<1> QED BY <1>4, <1>5, <1>6, <1>11, <1>14, <1>16, <1>18 DEF Sent

\* A message that was sent is in one place, and its handles are given up.
LEMMA SentPlaces ==
    ASSUME IndInv, PlaceInv, NEW n \in Nodes, NEW t, NEW c \in held[n], NEW hs \in HandleLists(n, c),
           Sends(n, t, c, hs), NEW msg, Sent(n, c, hs, msg),
           NEW b \in Boxes, Post(Stored, b, MailMarks(msg)) = Stored',
           SameStates(endpoints, endpoints'),
           QueuesReady(endpoints', pending), CallsReady(endpoints', pending, call'),
           TasksReady(endpoints', pending, tasks'), WiresReady(endpoints', wire),
           CallsBound(channels, call')
    PROVE  PlaceInv'
<1>1. /\ channels' = channels /\ pending' = pending /\ wire' = wire /\ got' = got /\ pipes' = pipes
      /\ sent' = [sent EXCEPT ![EndOf(c)] = @ + 1]
      /\ held' = [held EXCEPT ![n] = @ \ ToSet(hs)]
  BY DEF Sends
<1>2. \A e \in Ends : names[e] \in Nat /\ names'[e] \in Nat /\ names[e] <= names'[e]
  <2>1. Grows(endpoints, names, endpoints, names')
    BY SendsFacts
  <2> QED BY <2>1 DEF Grows
<1>3. /\ ToSet(hs) \subseteq held[n] /\ \A d \in ToSet(msg.descs) : d.name \in ToSet(hs)
      /\ DOMAIN msg.descs = DOMAIN hs /\ \A i \in DOMAIN hs : msg.descs[i].name = hs[i]
  BY DEF Sent
<1>4. /\ msg.id \in Ids /\ EndOf(msg.id) = EndOf(c) /\ msg.id[3] = sent[EndOf(c)] + 1
      /\ MailMarks(msg) \in SUBSET AllMarks /\ MailMarks(msg) \cap Marks(Stored) = {}
  BY DEF Sent
<1>5. Once(Stored') /\ Marks(Stored') = Marks(Stored) \cup MailMarks(msg)
  <2> DEFINE a == MailMarks(msg)
  <2>1. a \in SUBSET AllMarks /\ a \cap Marks(Stored) = {} /\ Post(Stored, b, a) = Stored'
    BY <1>4
  <2> HIDE DEF a
  <2>2. Stored \in Shelves(Boxes, AllMarks) /\ Once(Stored)
    BY StoredTyped DEF PlaceInv
  <2>3. Once(Post(Stored, b, a)) /\ Marks(Post(Stored, b, a)) = Marks(Stored) \cup a
    BY <2>1, <2>2, PostOnce
  <2> QED BY <2>1, <2>3 DEF a
<1>6. \A e : EndMark(e) \in MailMarks(msg) => \E x \in ToSet(hs) : EndOf(x) = e
  BY <1>3, MailMarksAre
<1>7. Accounted(Stored', sent')
  <2> SUFFICES ASSUME NEW id \in Ids
               PROVE  MailMark(id) \in Marks(Stored') <=> id[3] <= sent'[EndOf(id)]
    BY DEF Accounted
  <2>1. MailMark(id) \in Marks(Stored') <=> MailMark(id) \in Marks(Stored) \/ id = msg.id
    BY <1>5, MailMarksAre
  <2>2. MailMark(id) \in Marks(Stored) <=> id[3] <= sent[EndOf(id)]
    BY DEF PlaceInv, Accounted
  <2>3. id[3] \in Nat /\ EndOf(id) \in Ends /\ id = <<EndOf(id)[1], EndOf(id)[2], id[3]>>
        /\ msg.id = <<EndOf(c)[1], EndOf(c)[2], sent[EndOf(c)] + 1>>
    BY <1>4 DEF Ids, Ends, EndOf
  <2>4. sent \in [Ends -> Nat]
    BY DEF IndInv, CountersSound
  <2>5. CASE EndOf(id) = EndOf(c)
    <3>1. sent'[EndOf(id)] = sent[EndOf(id)] + 1 /\ sent[EndOf(id)] \in Nat
      BY <1>1, <2>3, <2>4, <2>5
    <3>2. id = msg.id <=> id[3] = sent[EndOf(id)] + 1
      BY <1>4, <2>3, <2>5
    <3> QED BY <2>1, <2>2, <2>3, <3>1, <3>2
  <2>6. CASE EndOf(id) # EndOf(c)
    <3>1. sent'[EndOf(id)] = sent[EndOf(id)]
      BY <1>1, <2>3, <2>4, <2>6
    <3>2. id # msg.id
      BY <1>4, <2>6
    <3> QED BY <2>1, <2>2, <3>1, <3>2
  <2> QED BY <2>5, <2>6
<1>8. held[n] \subseteq DOMAIN endpoints[n] /\ DOMAIN held = Nodes
  BY DEF IndInv, HeldSound
<1>9. EndsNamed(Stored', names')
  <2> SUFFICES ASSUME NEW e \in Ends, EndMark(e) \in Marks(Stored') PROVE names'[e] > 0
    BY DEF EndsNamed
  <2>1. CASE EndMark(e) \in Marks(Stored)
    <3>1. names[e] > 0
      BY <2>1 DEF PlaceInv, EndsNamed
    <3> QED BY <1>2, <3>1
  <2>2. CASE EndMark(e) \in MailMarks(msg)
    <3>1. PICK x \in ToSet(hs) : EndOf(x) = e
      BY <1>6, <2>2
    <3>2. x \in Given(names)
      BY <1>3, <1>8, EndpointFacts
    <3>3. x[3] < names[e] /\ x[3] \in Nat
      BY <3>1, <3>2 DEF Given, Names
    <3> QED BY <1>2, <3>3
  <2> QED BY <1>5, <2>1, <2>2
<1>10. HeldOnce(endpoints, pending, held', Stored')
  <2>1. HeldOnce(endpoints, pending, held, Stored)
    BY DEF PlaceInv
  <2>2. \A l \in Nodes : held'[l] \subseteq held[l]
    BY <1>1, <1>8
  <2>3. held'[n] = held[n] \ ToSet(hs)
    BY <1>1, <1>8
  <2>4. ASSUME NEW l \in Nodes, NEW x \in held'[l] PROVE EndMark(EndOf(x)) \notin Marks(Stored')
    <3>1. x \in held[l] /\ EndMark(EndOf(x)) \notin Marks(Stored)
      BY <2>1, <2>2 DEF HeldOnce
    <3>2. ASSUME EndMark(EndOf(x)) \in MailMarks(msg) PROVE FALSE
      <4>1. PICK y \in ToSet(hs) : EndOf(y) = EndOf(x)
        BY <1>6, <3>2
      <4>2. y \in held[n] /\ y = x
        BY <1>3, <2>1, <3>1, <4>1 DEF HeldOnce
      <4>3. y \in DOMAIN endpoints[n] /\ x \in DOMAIN endpoints[l]
        BY <1>8, <3>1, <4>2 DEF IndInv, HeldSound
      <4>4. l = n
        BY <4>2, <4>3 DEF PlaceInv, NamesApart
      <4> QED BY <2>3, <4>1, <4>2, <4>4
    <3> QED BY <1>5, <3>1, <3>2
  <2> QED BY <2>1, <2>2, <2>4 DEF HeldOnce
<1>11. /\ HeldOnce(endpoints', pending, held', Stored') /\ NamesApart(endpoints')
       /\ PendingReady(endpoints', channels, pending) /\ ProxiesReady(endpoints', channels)
       /\ AllAtHome(endpoints', pending, wire, pipes)
  <2>1. /\ NamesApart(endpoints) /\ PendingReady(endpoints, channels, pending)
        /\ ProxiesReady(endpoints, channels) /\ AllAtHome(endpoints, pending, wire, pipes)
    BY DEF PlaceInv
  <2> QED BY <1>10, <2>1, StatesKept
<1> QED BY <1>1, <1>5, <1>7, <1>9, <1>11 DEF PlaceInv

\* A call that had nothing to write gets one message.
LEMMA OneMessageCall ==
    ASSUME IndInv, PlaceInv, NEW n \in Nodes, NEW t \in AllThreads, call[n][t].op = "idle",
           NEW new, call' = [call EXCEPT ![n][t] = new], NEW msg, new.msgs = <<msg>>,
           new.op # "idle", new.dest \in DOMAIN channels[n],
           CallReady(endpoints, pending, n, msg), endpoints' = endpoints, tasks' = tasks,
           wire' = wire, got' = got
    PROVE  /\ CallBox(n, t) \in Boxes /\ Post(Stored, CallBox(n, t), MailMarks(msg)) = Stored'
           /\ CallsReady(endpoints', pending, call') /\ CallsBound(channels, call')
           /\ QueuesReady(endpoints', pending) /\ TasksReady(endpoints', pending, tasks')
           /\ WiresReady(endpoints', wire) /\ SameStates(endpoints, endpoints')
<1>1. DOMAIN call = Nodes /\ \A l \in Nodes : DOMAIN call[l] = AllThreads
  BY DEF IndInv, CallsSound
<1>2. call[n][t].msgs = << >>
  BY DEF PlaceInv, CallsBound
<1>3. /\ call'[n][t] = new
      /\ \A l \in Nodes : \A u \in AllThreads : l # n \/ u # t => call'[l][u] = call[l][u]
  BY <1>1
<1>4. Append(call[n][t].msgs, msg) = call'[n][t].msgs /\ call[n][t].msgs \in Seq({})
  BY <1>2, <1>3
<1>5. \A l \in Nodes : \A u \in AllThreads : l # n \/ u # t => call'[l][u].msgs = call[l][u].msgs
  BY <1>3
<1>6. Contents(endpoints, wire, call', tasks, got)
          = Post(Contents(endpoints, wire, call, tasks, got), CallBox(n, t), MailMarks(msg))
  <2> DEFINE S == {}
             K2 == call'
  <2>1. call[n][t].msgs \in Seq(S)
    BY <1>4
  <2>2. Append(call[n][t].msgs, msg) = K2[n][t].msgs
    BY <1>4
  <2>3. \A l \in Nodes : \A u \in AllThreads : l # n \/ u # t => K2[l][u].msgs = call[l][u].msgs
    BY <1>5
  <2> HIDE DEF S, K2
  <2>4. Contents(endpoints, wire, K2, tasks, got)
            = Post(Contents(endpoints, wire, call, tasks, got), CallBox(n, t), MailMarks(msg))
    BY <2>1, <2>2, <2>3, CallPosted
  <2> QED BY <2>4 DEF K2
<1>7. Stored' = Contents(endpoints, wire, call', tasks, got)
  BY DEF Stored
<1>8. CallBox(n, t) \in Boxes
  BY InCallBox
<1>9. CallsReady(endpoints, pending, call')
  <2> SUFFICES ASSUME NEW l \in Nodes, NEW u \in AllThreads, NEW i \in DOMAIN call'[l][u].msgs
               PROVE  CallReady(endpoints, pending, l, call'[l][u].msgs[i])
    BY DEF CallsReady
  <2>1. CASE l = n /\ u = t
    <3>1. call'[l][u].msgs = <<msg>>
      BY <1>3, <2>1
    <3>2. call'[l][u].msgs[i] = msg
      BY <3>1
    <3> QED BY <2>1, <3>2
  <2>2. CASE l # n \/ u # t
    BY <1>5, <2>2 DEF PlaceInv, CallsReady
  <2> QED BY <2>1, <2>2
<1>10. CallsBound(channels, call')
  <2> SUFFICES ASSUME NEW l \in Nodes, NEW u \in AllThreads, call'[l][u].msgs # << >>
               PROVE  call'[l][u].op # "idle" /\ call'[l][u].dest \in DOMAIN channels[l]
    BY DEF CallsBound
  <2>1. CASE l = n /\ u = t
    BY <1>3, <2>1
  <2>2. CASE l # n \/ u # t
    <3>1. call'[l][u] = call[l][u]
      BY <1>3, <2>2
    <3> QED BY <3>1 DEF PlaceInv, CallsBound
  <2> QED BY <2>1, <2>2
<1>11. SameStates(endpoints, endpoints')
  BY DEF SameStates
<1> QED BY <1>6, <1>7, <1>8, <1>9, <1>10, <1>11 DEF PlaceInv, Stored

\* A message for a peer elsewhere waits in the call,
LEMMA SendToRemotePeerPlaces ==
    ASSUME IndInv, PlaceInv, NEW n \in Nodes, NEW t \in Threads, Ready(n, t),
           NEW c \in held[n], NEW hs \in HandleLists(n, c), SendToRemotePeer(n, t, c, hs)
    PROVE  PlaceInv'
<1> DEFINE msg == NewMessage(n, c, hs)
           new == [op |-> "send", via |-> c, lock |-> NoOne,
                   dest |-> endpoints[n][c].peer.node, msgs |-> <<msg>>]
<1>1. Sends(n, t, c, hs)
  BY DEF SendToRemotePeer
<1>2. Sent(n, c, hs, msg)
  BY <1>1, SentFacts
<1>3. /\ call[n][t].op = "idle" /\ t \in AllThreads
      /\ call' = [call EXCEPT ![n][t] = new] /\ endpoints' = endpoints /\ tasks' = tasks
  BY DEF SendToRemotePeer, Ready, AllThreads
<1>4. wire' = wire /\ got' = got /\ endpoints[n][c].peer.node \in DOMAIN channels[n]
  BY DEF SendToRemotePeer, Sends, Local
<1>5. CallReady(endpoints, pending, n, msg)
  BY <1>2 DEF Sent, CallReady
<1> HIDE DEF msg
<1>6. new.op # "idle" /\ new.dest \in DOMAIN channels[n] /\ new.msgs = <<msg>>
  BY <1>4
<1> HIDE DEF new
<1>7. /\ CallBox(n, t) \in Boxes /\ Post(Stored, CallBox(n, t), MailMarks(msg)) = Stored'
      /\ CallsReady(endpoints', pending, call') /\ CallsBound(channels, call')
      /\ QueuesReady(endpoints', pending) /\ TasksReady(endpoints', pending, tasks')
      /\ WiresReady(endpoints', wire) /\ SameStates(endpoints, endpoints')
  BY <1>3, <1>4, <1>5, <1>6, OneMessageCall
<1> QED BY <1>1, <1>2, <1>7, SentPlaces

\* so does one for a peer that has moved,
LEMMA SendThroughProxyPlaces ==
    ASSUME IndInv, PlaceInv, NEW n \in Nodes, NEW t \in Threads, Ready(n, t),
           NEW c \in held[n], NEW hs \in HandleLists(n, c), SendThroughProxy(n, t, c, hs)
    PROVE  PlaceInv'
<1> DEFINE x == endpoints[n][c].peer.ep
           msg == [NewMessage(n, c, hs) EXCEPT !.target = endpoints[n][x].target.ep]
           new == [op |-> "send", via |-> c, lock |-> x, dest |-> endpoints[n][x].target.node,
                   msgs |-> Retarget(<<NewMessage(n, c, hs)>>, endpoints[n][x].target.ep)]
<1>1. Sends(n, t, c, hs)
  BY DEF SendThroughProxy
<1>2. msg.id = NewMessage(n, c, hs).id /\ msg.descs = NewMessage(n, c, hs).descs
  BY DEF NewMessage
<1>3. /\ call[n][t].op = "idle" /\ t \in AllThreads
      /\ call' = [call EXCEPT ![n][t] = new] /\ endpoints' = endpoints /\ tasks' = tasks
  BY DEF SendThroughProxy, Ready, AllThreads
<1>4. x \in DOMAIN endpoints[n] /\ endpoints[n][x].state = "proxying"
  BY DEF SendThroughProxy, Local
<1>5. new.msgs = <<msg>>
  BY DEF Retarget
<1>6. new.op # "idle" /\ new.dest \in DOMAIN channels[n]
  BY <1>4 DEF PlaceInv, ProxiesReady
<1>7. wire' = wire /\ got' = got
  BY <1>1 DEF Sends
<1> HIDE DEF msg, new
<1>8. Sent(n, c, hs, msg)
  BY <1>1, <1>2, SentFacts
<1>9. CallReady(endpoints, pending, n, msg)
  BY <1>8 DEF Sent, CallReady
<1>10. /\ CallBox(n, t) \in Boxes /\ Post(Stored, CallBox(n, t), MailMarks(msg)) = Stored'
       /\ CallsReady(endpoints', pending, call') /\ CallsBound(channels, call')
       /\ QueuesReady(endpoints', pending) /\ TasksReady(endpoints', pending, tasks')
       /\ WiresReady(endpoints', wire) /\ SameStates(endpoints, endpoints')
  BY <1>3, <1>5, <1>6, <1>7, <1>9, OneMessageCall
<1> QED BY <1>1, <1>8, <1>10, SentPlaces

\* and one for a peer that is here is accepted by it.
LEMMA SendToLocalPeerPlaces ==
    ASSUME IndInv, PlaceInv, NEW n \in Nodes, NEW t \in Threads,
           NEW c \in held[n], NEW hs \in HandleLists(n, c), SendToLocalPeer(n, t, c, hs)
    PROVE  PlaceInv'
<1> DEFINE x == endpoints[n][c].peer.ep
           mail == NewMessage(n, c, hs)
           msg == [mail EXCEPT !.pipes = ExistingPipes(mail.descs)]
<1>1. Sends(n, t, c, hs)
  BY DEF SendToLocalPeer
<1>2. /\ msg.id = NewMessage(n, c, hs).id /\ msg.descs = NewMessage(n, c, hs).descs
      /\ msg.pipes = ExistingPipes(msg.descs)
  BY DEF NewMessage
<1>3. x \in DOMAIN endpoints[n] /\ AcceptMessage(n, endpoints[n], x, msg) /\ call' = call
  BY DEF SendToLocalPeer, Local
<1>4. wire' = wire /\ got' = got
  BY <1>1 DEF Sends
<1> HIDE DEF msg, x
<1>5. Sent(n, c, hs, msg)
  BY <1>1, <1>2, SentFacts
<1>6. DistinctEnds(msg) /\ Fresh(endpoints, pending, n, msg)
  BY <1>5 DEF Sent
<1>7. QueueReady(endpoints, pending, n, msg)
  <2>1. PipesReady(endpoints, pending, n, msg)
    <3> SUFFICES ASSUME NEW i \in DOMAIN msg.pipes
                 PROVE  /\ EndOf(msg.pipes[i]) = EndOf(msg.descs[i].name)
                        /\ Available(endpoints, pending, n, msg.pipes[i])
      BY <1>2 DEF PipesReady, ExistingPipes
    <3>1. i \in DOMAIN msg.descs /\ msg.pipes[i] = msg.descs[i].name
      BY <1>2 DEF ExistingPipes
    <3>2. msg.descs[i] \in ToSet(msg.descs)
      BY <3>1 DEF ToSet
    <3> QED BY <1>6, <3>1, <3>2 DEF Fresh
  <2> QED BY <1>6, <2>1 DEF QueueReady, CallReady
<1>8. Accepted(endpoints, endpoints', tasks, tasks', n, x, msg)
  <2> DEFINE table == endpoints[n]
             Q == QueuedMail(endpoints, names, n, EndOf(x))
  <2>1. x \in Names /\ endpoints[n][x] \in SoundEndpoints(endpoints, names, n, x)
    BY <1>3, EndpointFacts
  <2>2. /\ endpoints[n][x].queue \in Seq(Q)
        /\ endpoints[n][x].state = "bound" => endpoints[n][x].runner \in Threads
    BY <2>1 DEF SoundEndpoints
  <2>3. endpoints[n][x] = [state |-> endpoints[n][x].state, peer |-> endpoints[n][x].peer,
                           target |-> endpoints[n][x].target,
                           runner |-> endpoints[n][x].runner, queue |-> endpoints[n][x].queue]
    BY <2>1 DEF SoundEndpoints
  <2>4. /\ x \in DOMAIN table /\ table[x].queue \in Seq(Q)
        /\ table[x] = [state |-> table[x].state, peer |-> table[x].peer, target |-> table[x].target,
                       runner |-> table[x].runner, queue |-> table[x].queue]
        /\ table[x].state = "bound" => table[x].runner \in Threads
        /\ AcceptMessage(n, table, x, msg) /\ endpoints[n] = table
    BY <1>3, <2>2, <2>3
  <2> HIDE DEF table, Q
  <2> QED BY <2>1, <2>4, AcceptFacts
<1>9. \A l \in Nodes : DOMAIN endpoints[l] \subseteq Names
  BY StoredTyped
<1>10. /\ QueuesReady(endpoints', pending) /\ CallsReady(endpoints', pending, call)
       /\ TasksReady(endpoints', pending, tasks') /\ WiresReady(endpoints', wire)
  <2>1. /\ QueuesReady(endpoints, pending) /\ CallsReady(endpoints, pending, call)
        /\ TasksReady(endpoints, pending, tasks) /\ WiresReady(endpoints, wire)
    BY DEF PlaceInv
  <2> DEFINE E2 == endpoints'
             T2 == tasks'
  <2>2. Accepted(endpoints, E2, tasks, T2, n, x, msg)
    BY <1>8
  <2> HIDE DEF E2, T2
  <2>3. /\ QueuesReady(E2, pending) /\ CallsReady(E2, pending, call)
        /\ TasksReady(E2, pending, T2) /\ WiresReady(E2, wire)
    BY <1>7, <1>9, <2>1, <2>2, AcceptedReady
  <2> QED BY <2>3 DEF E2, T2
<1>11. \E b \in Boxes : Post(Stored, b, MailMarks(msg)) = Stored'
  <2> DEFINE E2 == endpoints'
             T2 == tasks'
  <2>1. Accepted(endpoints, E2, tasks, T2, n, x, msg)
    BY <1>8
  <2>2. Stored' = Contents(E2, wire, call, T2, got)
    BY <1>3, <1>4 DEF Stored
  <2> HIDE DEF E2, T2
  <2>3. \E b \in Boxes : Contents(E2, wire, call, T2, got)
                           = Post(Contents(endpoints, wire, call, tasks, got), b, MailMarks(msg))
    BY <2>1, AcceptedContents
  <2> QED BY <2>2, <2>3 DEF Stored
<1>12. PICK b \in Boxes : Post(Stored, b, MailMarks(msg)) = Stored'
  BY <1>11
<1>13. SameStates(endpoints, endpoints')
  BY <1>8 DEF Accepted
<1>14. CallsBound(channels, call') /\ CallsReady(endpoints', pending, call')
  BY <1>3, <1>10 DEF PlaceInv
<1> QED BY <1>1, <1>5, <1>10, <1>12, <1>13, <1>14, SentPlaces

\* So a message that is sent is in one place.
LEMMA SendMessagePlaces ==
    ASSUME IndInv, PlaceInv, NEW n \in Nodes, NEW t \in Threads, SendMessage(n, t)
    PROVE  PlaceInv'
<1>1. Ready(n, t)
  BY DEF SendMessage
<1>2. PICK c \in held[n] : \E hs \in HandleLists(n, c) :
        \/ SendToRemotePeer(n, t, c, hs)
        \/ SendThroughProxy(n, t, c, hs)
        \/ SendToLocalPeer(n, t, c, hs)
  BY DEF SendMessage
<1>3. PICK hs \in HandleLists(n, c) :
        \/ SendToRemotePeer(n, t, c, hs)
        \/ SendThroughProxy(n, t, c, hs)
        \/ SendToLocalPeer(n, t, c, hs)
  BY <1>2
<1> QED BY <1>1, <1>3, SendToRemotePeerPlaces, SendThroughProxyPlaces, SendToLocalPeerPlaces
-----------------------------------------------------------------------------
(* A user message arrives.                                                  *)

\* All but the marks is as in PlaceInv, with the endpoints of E, and W on the
\* wires, K in the calls and T in the tasks.
InPlace(E, W, K, T) ==
    /\ \A n \in Nodes : DOMAIN E[n] \subseteq Names
    /\ HeldOnce(E, pending, held, Stored)
    /\ NamesApart(E)
    /\ QueuesReady(E, pending)
    /\ CallsReady(E, pending, K)
    /\ TasksReady(E, pending, T)
    /\ WiresReady(E, W)
    /\ PendingReady(E, channels, pending)
    /\ ProxiesReady(E, channels)
    /\ AllAtHome(E, pending, W, pipes)

\* An end that is carried is one of a pipe that was created.
LEMMA CarriedIsThere ==
    ASSUME IndInv, PlaceInv, NEW e \in Ends, EndMark(e) \in Marks(Stored)
    PROVE  e[1] <= pipes
<1>1. names[e] > 0
  BY DEF PlaceInv, EndsNamed
<1>2. NamesSound(names, pipes) /\ pipes \in 0..MaxPipes
  BY DEF IndInv, CountersSound
<1>3. e[1] \in Nat /\ pipes \in Nat
  BY <1>2, BoundsAssumption DEF Ends
<1>4. e[1] > pipes => names[e] = 0
  BY <1>2 DEF NamesSound
<1> QED BY <1>1, <1>3, <1>4

\* It is so to begin with,
LEMMA AllInPlace ==
    ASSUME IndInv, PlaceInv
    PROVE  InPlace(endpoints, wire, call, tasks)
<1>1. \A n \in Nodes : DOMAIN endpoints[n] \subseteq Names
  BY StoredTyped
<1> QED BY <1>1 DEF PlaceInv, InPlace

\* and a step that keeps it so and only moves marks keeps PlaceInv.
LEMMA PlacedAgain ==
    ASSUME IndInv, PlaceInv, InPlace(endpoints', wire', call', tasks'),
           Once(Stored'), Marks(Stored') = Marks(Stored), SameTalk(wire, wire'),
           CallsBound(channels, call'), channels' = channels, pending' = pending,
           held' = held, pipes' = pipes, sent' = sent,
           \A e \in Ends : names[e] \in Nat /\ names'[e] \in Nat /\ names[e] <= names'[e]
    PROVE  PlaceInv'
<1>1. Accounted(Stored', sent')
  BY DEF PlaceInv, Accounted
<1>2. EndsNamed(Stored', names')
  <2> SUFFICES ASSUME NEW e \in Ends, EndMark(e) \in Marks(Stored') PROVE names'[e] > 0
    BY DEF EndsNamed
  <2>1. names[e] > 0
    BY DEF PlaceInv, EndsNamed
  <2> QED BY <2>1
<1>3. InvitesPending(pending, wire') /\ Introductions(channels, wire')
  BY TalkStays
<1>4. HeldOnce(endpoints', pending, held, Stored')
  BY DEF InPlace, HeldOnce
<1> QED BY <1>1, <1>2, <1>3, <1>4 DEF PlaceInv, InPlace

\* What it is for the handles of msg to arrive: n has read it, and E1 is the
\* table with the new endpoints in it.
Arrived(n, m, msg, E1, W1, Q1) ==
    /\ msg.type = "USER" /\ m # n /\ HasRead(wire, W1, Q1, m, n)
    /\ \A l \in Nodes : l # n => E1[l] = endpoints[l]
    /\ DOMAIN E1[n] = DOMAIN endpoints[n] \cup {d.cross : d \in ToSet(msg.descs)}
    /\ \A y \in DOMAIN endpoints[n] : E1[n][y] = endpoints[n][y]
    /\ \A d \in ToSet(msg.descs) :
          /\ d.cross \notin DOMAIN endpoints[n] /\ d.cross \in Names /\ d.cross \in DOMAIN E1[n]
          /\ EndOf(d.cross) \in Ends
          /\ E1[n][d.cross].state = "queueing" /\ E1[n][d.cross].queue = << >>

\* That is what happens.
LEMMA ArrivedFacts ==
    ASSUME IndInv, NEW n \in Nodes, NEW m \in Nodes, ReceivesUserMessage(n, m),
           NEW msg, msg = Head(wire[m][n]), NEW E1, E1 = WithTable(endpoints, n, Recover(n, msg.descs)),
           NEW W1, W1 = [wire EXCEPT ![m][n] = Tail(@)]
    PROVE  \E Q1 : Arrived(n, m, msg, E1, W1, Q1)
<1> DEFINE Q1 == Traffic(endpoints, names, channels, pending, m, n)
           table == Recover(n, msg.descs)
<1>1. /\ wire[m][n] # << >> /\ msg.type = "USER"
      /\ ToSet(msg.descs) \subseteq Carried(endpoints, names)
      /\ \A d \in ToSet(msg.descs) : d.cross \notin DOMAIN endpoints[n]
  BY ReceivedUserFacts
<1>2. m # n
  <2>1. PICK k \in DOMAIN channels[n] : channels[n][k] = m
    BY DEF ReceivesUserMessage, Receives
  <2> QED BY <2>1 DEF IndInv, ChannelsSound, ChannelOk
<1>3. DOMAIN endpoints = Nodes /\ DOMAIN wire = Nodes /\ \A l \in Nodes : DOMAIN wire[l] = Nodes
      /\ wire[m][n] \in Seq(Q1)
  BY WireIsSeq, ZenonT(30) DEF IndInv, EndpointsSound, WiresSound
<1>4. DOMAIN table = DOMAIN endpoints[n] \cup {d.cross : d \in ToSet(msg.descs)}
      /\ \A y \in DOMAIN endpoints[n] : table[y] = endpoints[n][y]
  BY ZenonT(30) DEF Recover, InsertAll
<1>5. \A d \in ToSet(msg.descs) : table[d.cross].state = "queueing" /\ table[d.cross].queue = << >>
  BY <1>1, ZenonT(30) DEF Recover, InsertAll, NewEndpoint
<1>6. \A d \in ToSet(msg.descs) : d.cross \in Names /\ EndOf(d.cross) \in Ends
  <2>1. \A d \in ToSet(msg.descs) : d.cross \in Names
    BY <1>1 DEF Carried, Given
  <2> QED BY <2>1, EndsFit
<1> HIDE DEF Q1, table
<1>7. E1[n] = table /\ \A l \in Nodes : l # n => E1[l] = endpoints[l]
  BY <1>3 DEF WithTable, table
<1>8. HasRead(wire, W1, Q1, m, n)
  <2>1. Tail(wire[m][n]) = W1[m][n]
    BY <1>3
  <2>2. \A k, l \in Nodes : k # m \/ l # n => W1[k][l] = wire[k][l]
    BY <1>3
  <2> QED BY <1>1, <1>3, <2>1, <2>2 DEF HasRead
<1>9. Arrived(n, m, msg, E1, W1, Q1)
  BY <1>1, <1>2, <1>4, <1>5, <1>6, <1>7, <1>8, ZenonT(30) DEF Arrived
<1> QED BY <1>9

\* All is in place, and the marks of msg are nowhere in V1.
Came(n, msg, E1, W1, V1) ==
    /\ InPlace(E1, W1, call, tasks)
    /\ V1 \in Shelves(Boxes, AllMarks) /\ Once(V1)
    /\ Marks(V1) = Marks(Stored) \ MailMarks(msg) /\ MailMarks(msg) \subseteq Marks(Stored)
    /\ CallReady(E1, pending, n, msg)
    /\ \A d \in ToSet(msg.descs) : Available(E1, pending, n, d.cross)
    /\ \A e : EndMark(e) \in MailMarks(msg) => ~Travels(W1, e)

\* That is what comes of it.
LEMMA ArrivedPlaces ==
    ASSUME IndInv, PlaceInv, NEW n \in Nodes, NEW m \in Nodes, NEW msg, msg = Head(wire[m][n]),
           NEW E1, NEW W1, NEW Q1, Arrived(n, m, msg, E1, W1, Q1),
           NEW V1, V1 = Contents(E1, W1, call, tasks, got)
    PROVE  Came(n, msg, E1, W1, V1)
<1> DEFINE S == {EndOf(d.name) : d \in ToSet(msg.descs)}
           V0 == Contents(endpoints, W1, call, tasks, got)
<1>1. /\ msg.type = "USER" /\ m # n /\ HasRead(wire, W1, Q1, m, n)
      /\ \A l \in Nodes : l # n => E1[l] = endpoints[l]
      /\ DOMAIN E1[n] = DOMAIN endpoints[n] \cup {d.cross : d \in ToSet(msg.descs)}
      /\ \A y \in DOMAIN endpoints[n] : E1[n][y] = endpoints[n][y]
  BY DEF Arrived
<1>2. \A d \in ToSet(msg.descs) :
          /\ d.cross \notin DOMAIN endpoints[n] /\ d.cross \in Names /\ d.cross \in DOMAIN E1[n]
          /\ EndOf(d.cross) \in Ends
          /\ E1[n][d.cross].state = "queueing" /\ E1[n][d.cross].queue = << >>
  BY DEF Arrived
<1>3. WireMarks(msg) = MailMarks(msg)
  BY <1>1 DEF WireMarks
<1>4. \A l \in Nodes : DOMAIN endpoints[l] \subseteq Names
  BY StoredTyped
<1> HIDE DEF V0
<1>5. /\ V0 \in Shelves(Boxes, AllMarks) /\ Once(V0)
      /\ Marks(V0) = Marks(Stored) \ MailMarks(msg) /\ MailMarks(msg) \subseteq Marks(Stored)
      /\ WireReady(endpoints, m, msg) /\ WiresReady(endpoints, W1)
  <2>1. V0 = Contents(endpoints, W1, call, tasks, got)
    BY DEF V0
  <2>2. HasRead(wire, W1, Q1, m, n)
    BY <1>1
  <2>3. /\ V0 \in Shelves(Boxes, AllMarks) /\ Once(V0)
        /\ Marks(V0) = Marks(Stored) \ WireMarks(msg) /\ WireMarks(msg) \subseteq Marks(Stored)
        /\ WireReady(endpoints, m, msg) /\ WiresReady(endpoints, W1)
    BY <2>1, <2>2, WireRead
  <2> QED BY <1>3, <2>3
<1>6. V1 = V0
  <2>1. \A l \in Nodes : \A x \in Names : QueueOf(E1, l, x) = QueueOf(endpoints, l, x)
    BY <1>1, <1>2 DEF QueueOf
  <2> QED BY <2>1, SameContents DEF V0
<1>7. DistinctEnds(msg) /\ \A d \in ToSet(msg.descs) : /\ d.name \in DOMAIN endpoints[m]
                                                       /\ Unborn(endpoints, d.cross)
  BY <1>1, <1>5 DEF WireReady
<1>8. \A d \in ToSet(msg.descs) : EndOf(d.cross) = EndOf(d.name) /\ EndOf(d.name) \in S
  BY <1>7 DEF DistinctEnds
<1>9. \A e : e \in S <=> EndMark(e) \in MailMarks(msg)
  BY MailMarksAre
<1>10. \A d \in ToSet(msg.descs) : Available(E1, pending, n, d.cross)
  <2> SUFFICES ASSUME NEW d \in ToSet(msg.descs) PROVE Available(E1, pending, n, d.cross)
    OBVIOUS
  <2>1. \A k \in DOMAIN pending[n] : pending[n][k] \in DOMAIN endpoints[n]
    BY DEF PlaceInv, PendingReady
  <2> QED BY <1>2, <2>1 DEF Available
<1>11. \A l \in Nodes : \A y \in DOMAIN endpoints[l] :
           /\ y \in DOMAIN E1[l] /\ E1[l][y] = endpoints[l][y]
           /\ Available(E1, pending, l, y) <=> Available(endpoints, pending, l, y)
  BY <1>1 DEF Available
<1>12. \A l \in Nodes : \A y \in DOMAIN E1[l] :
           y \in DOMAIN endpoints[l] \/ (l = n /\ \E d \in ToSet(msg.descs) : y = d.cross)
  BY <1>1
<1>13. OnlyMoves(endpoints, pending, E1, pending, S)
  <2> SUFFICES ASSUME NEW l \in Nodes
               PROVE  /\ DOMAIN endpoints[l] \subseteq DOMAIN E1[l]
                      /\ \A y \in DOMAIN E1[l] : EndOf(y) \notin S =>
                            /\ y \in DOMAIN endpoints[l]
                            /\ Available(E1, pending, l, y) <=> Available(endpoints, pending, l, y)
                            /\ Available(endpoints, pending, l, y) /\ endpoints[l][y].state = "queueing" =>
                                  E1[l][y].state = "queueing"
    BY DEF OnlyMoves
  <2>1. DOMAIN endpoints[l] \subseteq DOMAIN E1[l]
    BY <1>11
  <2>2. \A y \in DOMAIN E1[l] : EndOf(y) \notin S => y \in DOMAIN endpoints[l]
    BY <1>8, <1>12
  <2> QED BY <1>11, <2>1, <2>2
<1>14. QueuesGain(endpoints, E1, pending)
  <2> SUFFICES ASSUME NEW l \in Nodes, NEW y \in DOMAIN E1[l], NEW i \in DOMAIN E1[l][y].queue
               PROVE  /\ y \in DOMAIN endpoints[l]
                      /\ \E j \in DOMAIN endpoints[l][y].queue :
                            E1[l][y].queue[i] = endpoints[l][y].queue[j]
    BY DEF QueuesGain
  <2>1. y \in DOMAIN endpoints[l]
    BY <1>2, <1>12
  <2> QED BY <1>11, <2>1
<1>15. /\ QueuesReady(E1, pending) /\ CallsReady(E1, pending, call)
       /\ TasksReady(E1, pending, tasks) /\ WiresReady(E1, W1)
  <2>1. CallsGain(E1, pending, call, call) /\ TasksGain(E1, pending, tasks, tasks)
        /\ WiresGain(E1, W1, W1)
    BY NothingNew
  <2>2. /\ QueuesReady(endpoints, pending) /\ CallsReady(endpoints, pending, call)
        /\ TasksReady(endpoints, pending, tasks) /\ WiresReady(endpoints, W1)
    BY <1>5 DEF PlaceInv
  <2>3. \A e \in S : EndMark(e) \notin Marks(Contents(endpoints, W1, call, tasks, got))
    BY <1>5, <1>9 DEF V0
  <2> HIDE DEF S
  <2> QED BY <1>4, <1>13, <1>14, <2>1, <2>2, <2>3, AllStayReady
<1>16. NamesApart(E1)
  <2>1. NamesApart(endpoints)
    BY DEF PlaceInv
  <2>2. \A d \in ToSet(msg.descs) : \A l \in Nodes : d.cross \notin DOMAIN endpoints[l]
    BY <1>7 DEF Unborn
  <2> QED BY <1>1, <2>1, <2>2 DEF NamesApart
<1>17. HeldOnce(E1, pending, held, Stored)
  <2>1. \A l \in Nodes : held[l] \subseteq DOMAIN endpoints[l]
    BY DEF IndInv, HeldSound
  <2> QED BY <1>11, <2>1 DEF PlaceInv, HeldOnce
<1>18. PendingReady(E1, channels, pending)
  BY <1>11 DEF PlaceInv, PendingReady
<1>19. ProxiesReady(E1, channels)
  <2> SUFFICES ASSUME NEW l \in Nodes, NEW y \in DOMAIN E1[l], E1[l][y].state = "proxying"
               PROVE  E1[l][y].target.node \in DOMAIN channels[l]
    BY DEF ProxiesReady
  <2>1. y \in DOMAIN endpoints[l] /\ E1[l][y] = endpoints[l][y]
    BY <1>2, <1>11, <1>12
  <2> QED BY <2>1 DEF PlaceInv, ProxiesReady
<1>20. \A e : Travels(W1, e) <=> Travels(wire, e) /\ EndMark(e) \notin MailMarks(msg)
  BY <1>1, <1>3, ReadNoMore
<1>21. \A e : EndMark(e) \in MailMarks(msg) => Travels(wire, e)
  <2>1. \A e : Travels(wire, e) <=> Travels(W1, e) \/ EndMark(e) \in WireMarks(Head(wire[m][n]))
    BY <1>1, ReadFacts
  <2> QED BY <1>3, <2>1
<1>22. AllAtHome(E1, pending, W1, pipes)
  <2>1. ASSUME NEW e \in S \cap Ends PROVE AtHome(E1, pending, W1, e)
    <3>1. PICK d \in ToSet(msg.descs) : EndOf(d.name) = e
      OBVIOUS
    <3>2. EndOf(d.cross) = e /\ d.cross \in DOMAIN E1[n]
      BY <1>2, <1>8, <3>1
    <3>3. Travels(wire, e) /\ ~Travels(W1, e)
      BY <1>9, <1>20, <1>21
    <3>4. AtHome(endpoints, pending, wire, e)
      <4>1. EndMark(e) \in Marks(Stored)
        BY <1>5, <1>9
      <4>2. e[1] <= pipes
        BY <4>1, CarriedIsThere
      <4> QED BY <4>2 DEF PlaceInv, AllAtHome
    <3>5. \A k \in Nodes : \A y \in DOMAIN E1[k] : EndOf(y) = e /\ Available(E1, pending, k, y) =>
               (k = n /\ y = d.cross) \/ (y \in DOMAIN endpoints[k] /\ Available(endpoints, pending, k, y))
      <4> SUFFICES ASSUME NEW k \in Nodes, NEW y \in DOMAIN E1[k], EndOf(y) = e,
                          Available(E1, pending, k, y), y \notin DOMAIN endpoints[k]
                   PROVE  k = n /\ y = d.cross
        BY <1>11
      <4>1. k = n /\ \E f \in ToSet(msg.descs) : y = f.cross
        BY <1>12
      <4>2. PICK f \in ToSet(msg.descs) : y = f.cross
        BY <4>1
      <4>3. EndOf(f.name) = EndOf(d.name)
        BY <1>8, <3>1, <4>2
      <4>4. f = d
        BY <1>7, <4>3 DEF DistinctEnds, ToSet
      <4> QED BY <4>1, <4>2, <4>4
    <3>6. DOMAIN endpoints[n] \subseteq DOMAIN E1[n] /\ \A k \in Nodes : k # n => E1[k] = endpoints[k]
      BY <1>1
    <3>7. Available(E1, pending, n, d.cross)
      BY <1>10
    <3> QED BY <3>2, <3>3, <3>4, <3>5, <3>6, <3>7, Arrives
  <2>2. HomesMove(E1, pending, wire, W1, pipes, pipes, S)
    BY <1>9, <1>20, <2>1 DEF HomesMove
  <2>3. AllAtHome(endpoints, pending, wire, pipes)
    BY DEF PlaceInv
  <2> HIDE DEF S
  <2> QED BY <1>13, <2>2, <2>3, HomesStay
<1>23. \A l \in Nodes : DOMAIN E1[l] \subseteq Names
  BY <1>1, <1>2, <1>4
<1>24. InPlace(E1, W1, call, tasks)
  BY <1>15, <1>16, <1>17, <1>18, <1>19, <1>22, <1>23 DEF InPlace
<1>25. CallReady(E1, pending, n, msg)
  <2>1. CASE msg.descs = << >>
    <3>1. ToSet(msg.descs) = {}
      BY <2>1 DEF ToSet
    <3> QED BY <1>7, <3>1 DEF CallReady, Fresh
  <2>2. CASE msg.descs # << >>
    <3>1. \A d \in ToSet(msg.descs) : d.name \in DOMAIN E1[m]
      BY <1>7, <1>11
    <3>2. Stale(E1, n, msg)
      BY <1>1, <2>2, <3>1 DEF Stale
    <3> QED BY <1>7, <3>2 DEF CallReady
  <2> QED BY <2>1, <2>2
<1> QED BY <1>5, <1>6, <1>10, <1>20, <1>24, <1>25 DEF Came

\* A message for an endpoint of n is accepted by it.
LEMMA OnReceivedUserMessagePlaces ==
    ASSUME IndInv, PlaceInv, NEW n \in Nodes, NEW m \in Nodes, OnReceivedUserMessage(n, m)
    PROVE  PlaceInv'
<1> DEFINE msg == Head(wire[m][n])
           x == msg.target
           mail == [msg EXCEPT !.pipes = [i \in DOMAIN msg.descs |-> msg.descs[i].cross]]
           table == Recover(n, msg.descs)
           E1 == WithTable(endpoints, n, table)
           W1 == [wire EXCEPT ![m][n] = Tail(@)]
           V1 == Contents(E1, W1, call, tasks, got)
<1>1. ReceivesUserMessage(n, m) /\ AcceptMessage(n, table, x, mail) /\ wire' = W1
  BY DEF OnReceivedUserMessage
<1>2. /\ channels' = channels /\ pending' = pending /\ call' = call /\ held' = held
      /\ sent' = sent /\ got' = got /\ names' = names /\ pipes' = pipes
  BY DEF OnReceivedUserMessage, appVars
<1>3. /\ msg \in RoutedMail(endpoints, names) /\ x \in DOMAIN endpoints[n]
      /\ ToSet(msg.descs) \subseteq Carried(endpoints, names)
      /\ \A d \in ToSet(msg.descs) : d.cross \notin DOMAIN endpoints[n]
  BY <1>1, ReceivedUserFacts
<1>4. /\ mail.id = msg.id /\ mail.descs = msg.descs
      /\ mail.pipes = [i \in DOMAIN msg.descs |-> msg.descs[i].cross]
  BY <1>3 DEF RoutedMail, Mail
<1> HIDE DEF msg, x, mail, W1
<1>5. msg = Head(wire[m][n]) /\ W1 = [wire EXCEPT ![m][n] = Tail(@)]
  BY DEF msg, W1
<1>6. PICK Q1 : Arrived(n, m, msg, E1, W1, Q1)
  <2>1. E1 = WithTable(endpoints, n, Recover(n, msg.descs))
    OBVIOUS
  <2> HIDE DEF E1
  <2> QED BY <1>1, <1>5, <2>1, ArrivedFacts
<1>7. Came(n, msg, E1, W1, V1)
  <2>1. V1 = Contents(E1, W1, call, tasks, got)
    OBVIOUS
  <2>2. msg = Head(wire[m][n]) /\ Arrived(n, m, msg, E1, W1, Q1)
    BY <1>5, <1>6
  <2> HIDE DEF E1, V1
  <2> QED BY <2>1, <2>2, ArrivedPlaces
<1>8. /\ InPlace(E1, W1, call, tasks)
       /\ V1 \in Shelves(Boxes, AllMarks) /\ Once(V1)
       /\ Marks(V1) = Marks(Stored) \ MailMarks(msg) /\ MailMarks(msg) \subseteq Marks(Stored)
       /\ CallReady(E1, pending, n, msg)
       /\ \A d \in ToSet(msg.descs) : Available(E1, pending, n, d.cross)
  <2> HIDE DEF E1, V1
  <2> QED BY <1>7 DEF Came
<1>9. QueueReady(E1, pending, n, mail)
  <2>1. CallReady(E1, pending, n, mail)
    BY <1>4, <1>8, SameReady
  <2>2. \A i \in DOMAIN msg.descs : msg.descs[i] \in ToSet(msg.descs)
    BY DEF ToSet
  <2>3. \A d \in ToSet(msg.descs) : EndOf(d.cross) = EndOf(d.name)
    BY <1>8 DEF CallReady, DistinctEnds
  <2>4. PipesReady(E1, pending, n, mail)
    BY <1>4, <1>8, <2>2, <2>3 DEF PipesReady
  <2> QED BY <2>1, <2>4 DEF QueueReady
<1>10. Accepted(E1, endpoints', tasks, tasks', n, x, mail)
  <2>1. /\ E1[n] = table /\ \A l \in Nodes : l # n => E1[l] = endpoints[l]
        /\ DOMAIN endpoints[n] \subseteq DOMAIN table
        /\ \A y \in DOMAIN table : table[y] \in SoundEndpoints(E1, names, n, y)
    BY <1>3, RecoverSound
  <2> DEFINE Q == QueuedMail(E1, names, n, EndOf(x))
  <2>2. x \in Names /\ x \in DOMAIN table /\ table[x] \in SoundEndpoints(E1, names, n, x)
    BY <1>3, <2>1, EndpointFacts
  <2> HIDE DEF E1, table
  <2>3. /\ table[x].queue \in Seq(Q)
        /\ table[x].state = "bound" => table[x].runner \in Threads
        /\ table[x] = [state |-> table[x].state, peer |-> table[x].peer, target |-> table[x].target,
                       runner |-> table[x].runner, queue |-> table[x].queue]
    BY <2>2 DEF SoundEndpoints
  <2> HIDE DEF Q
  <2> QED BY <1>1, <2>1, <2>2, <2>3, AcceptFacts
<1> HIDE DEF E1, V1, table
<1> DEFINE E2 == endpoints'
           T2 == tasks'
<1>11. Accepted(E1, E2, tasks, T2, n, x, mail)
  BY <1>10
<1>12. Stored' = Contents(E2, W1, call, T2, got)
  BY <1>1, <1>2 DEF Stored
<1>13. SameStates(E1, E2)
  BY <1>11 DEF Accepted
<1> HIDE DEF E2, T2
<1>14. /\ QueuesReady(E2, pending) /\ CallsReady(E2, pending, call)
       /\ TasksReady(E2, pending, T2) /\ WiresReady(E2, W1)
  <2>1. /\ QueuesReady(E1, pending) /\ CallsReady(E1, pending, call)
        /\ TasksReady(E1, pending, tasks) /\ WiresReady(E1, W1)
        /\ \A l \in Nodes : DOMAIN E1[l] \subseteq Names
    BY <1>8 DEF InPlace
  <2> QED BY <1>9, <1>11, <2>1, AcceptedReady
<1>15. InPlace(E2, W1, call, T2)
  <2>1. /\ HeldOnce(E1, pending, held, Stored) /\ NamesApart(E1) /\ PendingReady(E1, channels, pending)
        /\ ProxiesReady(E1, channels) /\ AllAtHome(E1, pending, W1, pipes)
    BY <1>8 DEF InPlace
  <2>2. /\ HeldOnce(E2, pending, held, Stored) /\ NamesApart(E2) /\ PendingReady(E2, channels, pending)
        /\ ProxiesReady(E2, channels) /\ AllAtHome(E2, pending, W1, pipes)
    BY <1>13, <2>1, StatesKept
  <2>3. \A l \in Nodes : DOMAIN E2[l] \subseteq Names
    BY <1>8, <1>13 DEF InPlace, SameStates
  <2> QED BY <1>14, <2>2, <2>3 DEF InPlace
<1>16. Once(Stored') /\ Marks(Stored') = Marks(Stored)
  <2>1. MailMarks(mail) = MailMarks(msg)
    BY <1>4 DEF MailMarks
  <2>2. \E b \in Boxes : Contents(E2, W1, call, T2, got)
                           = Post(Contents(E1, W1, call, tasks, got), b, MailMarks(mail))
    BY <1>11, AcceptedContents
  <2>3. PICK b \in Boxes : Stored' = Post(V1, b, MailMarks(msg))
    BY <1>12, <2>1, <2>2 DEF V1
  <2> DEFINE a == MailMarks(msg)
  <2>4. a \in SUBSET AllMarks
    <3>1. msg \in Mail(endpoints, names)
      BY <1>3 DEF RoutedMail
    <3> QED BY <3>1, MailMarked
  <2>5. a \cap Marks(V1) = {} /\ Marks(V1) \cup a = Marks(Stored) /\ Stored' = Post(V1, b, a)
    BY <1>8, <2>3
  <2> HIDE DEF a
  <2>6. Once(Post(V1, b, a)) /\ Marks(Post(V1, b, a)) = Marks(V1) \cup a
    BY <1>8, <2>4, <2>5, PostOnce
  <2> QED BY <2>5, <2>6
<1>17. SameTalk(wire, wire')
  <2>1. HasRead(wire, W1, Q1, m, n)
    BY <1>6 DEF Arrived
  <2>2. Remains(wire, W1)
    BY <2>1, ReadFacts
  <2> QED BY <1>1, <2>2 DEF SameTalk, Remains
<1>18. \A e \in Ends : names[e] \in Nat /\ names'[e] \in Nat /\ names[e] <= names'[e]
  BY <1>2 DEF IndInv, NamesSound
<1>19. InPlace(endpoints', wire', call', tasks') /\ CallsBound(channels, call')
  BY <1>1, <1>2, <1>15 DEF E2, T2, PlaceInv
<1> QED BY <1>2, <1>16, <1>17, <1>18, <1>19, PlacedAgain
-----------------------------------------------------------------------------
(* Handles leave with the message they are in.                              *)

\* The endpoints in msg, on which nothing is queued, become proxies of n for
\* their next selves at dest.
MovedOn(E, E2, n, msg, dest) ==
    /\ \A l \in Nodes : l # n => E2[l] = E[l]
    /\ DOMAIN E2[n] = DOMAIN E[n]
    /\ \A y \in DOMAIN E[n] : (\A d \in ToSet(msg.descs) : d.name # y) => E2[n][y] = E[n][y]
    /\ \A d \in ToSet(msg.descs) :
          /\ d.name \in DOMAIN E[n] /\ E[n][d.name].queue = << >>
          /\ E2[n][d.name].state = "proxying" /\ E2[n][d.name].queue = << >>
          /\ E2[n][d.name].target.node = dest
    /\ dest \in DOMAIN channels[n]

\* All stays in place when msg is written to k.
LEMMA Departs ==
    ASSUME IndInv, PlaceInv, NEW E, NEW W, NEW K, NEW T, InPlace(E, W, K, T),
           NEW n \in Nodes, NEW msg, msg.type = "USER", DistinctEnds(msg), Fresh(E, pending, n, msg),
           NEW E2, NEW dest, MovedOn(E, E2, n, msg, dest),
           NEW W2, NEW Q, NEW k \in Nodes, Wrote(W, W2, Q, n, k, msg),
           NEW G, MailMarks(msg) \cap Marks(Contents(E, W, K, T, G)) = {},
           MailMarks(msg) \subseteq Marks(Stored)
    PROVE  /\ InPlace(E2, W2, K, T)
           /\ Contents(E2, W2, K, T, G) = Post(Contents(E, W, K, T, G), WireBox(n, k), MailMarks(msg))
<1> DEFINE S == {EndOf(d.name) : d \in ToSet(msg.descs)}
<1>1. /\ \A l \in Nodes : l # n => E2[l] = E[l]
      /\ DOMAIN E2[n] = DOMAIN E[n]
      /\ \A y \in DOMAIN E[n] : (\A d \in ToSet(msg.descs) : d.name # y) => E2[n][y] = E[n][y]
  BY DEF MovedOn
<1>2. \A d \in ToSet(msg.descs) :
          /\ d.name \in DOMAIN E[n] /\ E[n][d.name].queue = << >>
          /\ E2[n][d.name].state = "proxying" /\ E2[n][d.name].queue = << >>
          /\ E2[n][d.name].target.node = dest
  BY DEF MovedOn
<1>3. WireMarks(msg) = MailMarks(msg)
  BY DEF WireMarks
<1>4. \A e : e \in S <=> EndMark(e) \in MailMarks(msg)
  BY MailMarksAre
<1>5. \A l \in Nodes : DOMAIN E2[l] = DOMAIN E[l]
  BY <1>1
<1>6. \A l \in Nodes : \A y \in DOMAIN E[l] : EndOf(y) \notin S =>
          E2[l][y] = E[l][y] /\ (Available(E2, pending, l, y) <=> Available(E, pending, l, y))
  BY <1>1 DEF Available
<1>7. OnlyMoves(E, pending, E2, pending, S)
  BY <1>5, <1>6 DEF OnlyMoves
<1>8. \A l \in Nodes : \A y \in Names : QueueOf(E2, l, y) = QueueOf(E, l, y)
  BY <1>1, <1>2, <1>5 DEF QueueOf
<1>9. Contents(E2, W2, K, T, G) = Post(Contents(E, W, K, T, G), WireBox(n, k), MailMarks(msg))
  <2>1. Contents(E2, W2, K, T, G) = Contents(E, W2, K, T, G)
    BY <1>8, SameContents
  <2>2. Contents(E, W2, K, T, G) = Post(Contents(E, W, K, T, G), WireBox(n, k), WireMarks(msg))
    BY WroteContents
  <2> QED BY <1>3, <2>1, <2>2
<1>10. WireReady(E2, n, msg)
  <2>1. \A d \in ToSet(msg.descs) : d.name \in DOMAIN E2[n]
    BY <1>2, <1>5
  <2>2. \A d \in ToSet(msg.descs) : Unborn(E2, d.cross)
    BY <1>5 DEF Fresh, Unborn
  <2> QED BY <2>1, <2>2 DEF WireReady
<1>11. QueuesGain(E, E2, pending)
  <2> SUFFICES ASSUME NEW l \in Nodes, NEW y \in DOMAIN E2[l], NEW i \in DOMAIN E2[l][y].queue
               PROVE  /\ y \in DOMAIN E[l]
                      /\ \E j \in DOMAIN E[l][y].queue : E2[l][y].queue[i] = E[l][y].queue[j]
    BY DEF QueuesGain
  <2>1. y \in DOMAIN E[l]
    BY <1>5
  <2>2. E2[l][y] = E[l][y]
    BY <1>1, <1>2, <2>1
  <2> QED BY <2>1, <2>2
<1>12. /\ QueuesReady(E2, pending) /\ CallsReady(E2, pending, K)
       /\ TasksReady(E2, pending, T) /\ WiresReady(E2, W2)
  <2>1. CallsGain(E2, pending, K, K) /\ TasksGain(E2, pending, T, T)
    BY NothingNew
  <2>2. WiresGain(E2, W, W2)
    BY <1>10, WroteReady
  <2>3. /\ QueuesReady(E, pending) /\ CallsReady(E, pending, K)
        /\ TasksReady(E, pending, T) /\ WiresReady(E, W)
        /\ \A l \in Nodes : DOMAIN E[l] \subseteq Names
    BY DEF InPlace
  <2>4. \A e \in S : EndMark(e) \notin Marks(Contents(E, W, K, T, G))
    BY <1>4
  <2> HIDE DEF S
  <2> QED BY <1>7, <1>11, <2>1, <2>2, <2>3, <2>4, AllStayReady
<1>13. NamesApart(E2)
  BY <1>5 DEF InPlace, NamesApart
<1>14. HeldOnce(E2, pending, held, Stored)
  <2>1. HeldOnce(E, pending, held, Stored)
    BY DEF InPlace
  <2>2. ASSUME NEW l \in Nodes, NEW x \in held[l] PROVE Available(E2, pending, l, x)
    <3>1. Available(E, pending, l, x) /\ EndMark(EndOf(x)) \notin Marks(Stored)
      BY <2>1 DEF HeldOnce
    <3>2. EndOf(x) \notin S
      BY <1>4, <3>1
    <3>3. x \in DOMAIN E[l]
      BY <3>1 DEF Available
    <3> QED BY <1>6, <3>1, <3>2, <3>3
  <2> QED BY <2>1, <2>2 DEF HeldOnce
<1>15. PendingReady(E2, channels, pending)
  <2>1. PendingReady(E, channels, pending)
    BY DEF InPlace
  <2>2. ASSUME NEW l \in Nodes, NEW o \in DOMAIN pending[l]
        PROVE  E2[l][pending[l][o]] = E[l][pending[l][o]]
    <3>1. pending[l][o] \in DOMAIN E[l]
      BY <2>1 DEF PendingReady
    <3>2. l = n => \A d \in ToSet(msg.descs) : d.name # pending[l][o]
      BY DEF Fresh, Available
    <3> QED BY <1>1, <3>1, <3>2
  <2> QED BY <1>5, <2>1, <2>2 DEF PendingReady
<1>16. ProxiesReady(E2, channels)
  <2> SUFFICES ASSUME NEW l \in Nodes, NEW y \in DOMAIN E2[l], E2[l][y].state = "proxying"
               PROVE  E2[l][y].target.node \in DOMAIN channels[l]
    BY DEF ProxiesReady
  <2>1. y \in DOMAIN E[l]
    BY <1>5
  <2>2. CASE E2[l][y] = E[l][y]
    BY <2>1, <2>2 DEF InPlace, ProxiesReady
  <2>3. CASE E2[l][y] # E[l][y]
    <3>1. l = n /\ \E d \in ToSet(msg.descs) : d.name = y
      BY <1>1, <2>1, <2>3
    <3>2. E2[n][y].target.node = dest
      BY <1>2, <3>1
    <3> QED BY <3>1, <3>2 DEF MovedOn
  <2> QED BY <2>2, <2>3
<1>17. AllAtHome(E2, pending, W2, pipes)
  <2>1. \A e : Travels(W2, e) <=> Travels(W, e) \/ e \in S
    <3>1. \A e : Travels(W2, e) <=> Travels(W, e) \/ EndMark(e) \in WireMarks(msg)
      BY WroteFacts
    <3> QED BY <1>3, <1>4, <3>1
  <2>2. AllAtHome(E, pending, W, pipes)
    BY DEF InPlace
  <2>3. ASSUME NEW e \in S \cap Ends PROVE AtHome(E2, pending, W2, e)
    <3>1. PICK d \in ToSet(msg.descs) : EndOf(d.name) = e
      OBVIOUS
    <3>2. ~Travels(W, e)
      <4>1. EndMark(e) \notin Marks(Contents(E, W, K, T, G))
        BY <1>4
      <4> QED BY <4>1, TravelsMarked
    <3>3. AtHome(E, pending, W, e)
      <4>1. EndMark(e) \in Marks(Stored)
        BY <1>4
      <4>2. e[1] <= pipes
        BY <4>1, CarriedIsThere
      <4> QED BY <2>2, <4>2 DEF AllAtHome
    <3>4. Available(E, pending, n, d.name)
      BY DEF Fresh
    <3>5. ASSUME NEW l \in Nodes, NEW y \in DOMAIN E2[l], EndOf(y) = e, Available(E2, pending, l, y)
          PROVE  FALSE
      <4>1. y \in DOMAIN E[l]
        BY <1>5
      <4>2. l = n => \A f \in ToSet(msg.descs) : f.name # y
        BY <1>2, <3>5 DEF Available
      <4>3. E2[l][y] = E[l][y]
        BY <1>1, <4>1, <4>2
      <4>4. Available(E, pending, l, y)
        BY <3>5, <4>1, <4>3 DEF Available
      <4>5. d.name \in DOMAIN E[n]
        BY <1>2
      <4>6. l = n /\ y = d.name
        BY <3>1, <3>2, <3>3, <3>4, <3>5, <4>1, <4>4, <4>5 DEF AtHome
      <4> QED BY <4>2, <4>6
    <3>6. Travels(W2, e)
      BY <2>1
    <3> QED BY <3>5, <3>6 DEF AtHome
  <2>4. HomesMove(E2, pending, W, W2, pipes, pipes, S)
    BY <2>1, <2>3 DEF HomesMove
  <2> HIDE DEF S
  <2> QED BY <1>7, <2>2, <2>4, HomesStay
<1>18. \A l \in Nodes : DOMAIN E2[l] \subseteq Names
  BY <1>5 DEF InPlace
<1> QED BY <1>9, <1>12, <1>13, <1>14, <1>15, <1>16, <1>17, <1>18 DEF InPlace

\* What it is to send msg on to k as mail: once its handles have arrived, they
\* leave with it.
Forwarded(n, m, k, msg, mail, E1, W1, Q1, Q2) ==
    /\ Arrived(n, m, msg, E1, W1, Q1) /\ k \in Nodes
    /\ mail.type = "USER" /\ mail.id = msg.id /\ DOMAIN mail.descs = DOMAIN msg.descs
    /\ \A i \in DOMAIN msg.descs : /\ mail.descs[i].name = msg.descs[i].cross
                                   /\ mail.descs[i].cross = FreshName(EndOf(msg.descs[i].cross))
    /\ \A d \in ToSet(msg.descs) : d.cross \in Given(names)
    /\ MovedOn(E1, endpoints', n, mail, k)
    /\ Wrote(W1, wire', Q2, n, k, mail)
    /\ MailMarks(msg) \in SUBSET AllMarks

\* That is what happens.
LEMMA ForwardedFacts ==
    ASSUME IndInv, NEW n \in Nodes, NEW m \in Nodes, ForwardUserMessage(n, m)
    PROVE  \E k, msg, mail, E1, W1, Q1, Q2 :
               msg = Head(wire[m][n]) /\ Forwarded(n, m, k, msg, mail, E1, W1, Q1, Q2)
<1> DEFINE msg    == Head(wire[m][n])
           old    == msg.descs
           a      == endpoints[n][msg.target].target
           k      == a.node
           descs  == [i \in DOMAIN old |-> Inchworm(old[i])]
           table  == Recover(n, old)
           E1     == WithTable(endpoints, n, table)
           W1     == [wire EXCEPT ![m][n] = Tail(@)]
           mail   == [msg EXCEPT !.target = a.ep, !.descs = descs]
           Q2     == Traffic(endpoints, names, channels, pending, n, k)
<1>1. /\ ReceivesUserMessage(n, m)
      /\ endpoints' = [endpoints EXCEPT ![n] = Moved(table, descs, k)]
      /\ wire' = [wire EXCEPT ![m][n] = Tail(@), ![n][channels[n][k]] = Append(@, mail)]
      /\ k \in DOMAIN channels[n]
  BY ZenonT(30) DEF ForwardUserMessage
<1>2. /\ msg \in RoutedMail(endpoints, names) /\ msg.type = "USER"
      /\ ToSet(old) \subseteq Carried(endpoints, names)
      /\ \A d \in ToSet(old) : d.cross \notin DOMAIN endpoints[n]
  BY <1>1, ReceivedUserFacts, ZenonT(30)
<1>3. k \in Nodes /\ k # n /\ channels[n][k] = k
  BY ForwardFacts, ZenonT(30)
<1>4. mail.type = "USER" /\ mail.id = msg.id /\ mail.descs = descs
  BY <1>2 DEF RoutedMail, Mail
<1>5. DOMAIN descs = DOMAIN old /\ \A i \in DOMAIN old : descs[i] = Inchworm(old[i])
  OBVIOUS
<1>6. /\ old = msg.descs /\ msg = Head(wire[m][n]) /\ table = Recover(n, old)
      /\ E1 = WithTable(endpoints, n, table) /\ W1 = [wire EXCEPT ![m][n] = Tail(@)]
  OBVIOUS
<1> HIDE DEF msg, old, a, k, descs, table, E1, W1, mail
<1>7. PICK Q1 : Arrived(n, m, msg, E1, W1, Q1)
  BY <1>1, <1>6, ArrivedFacts
<1>8. \A i \in DOMAIN old : old[i] \in ToSet(old)
  BY DEF ToSet
<1>9. \A d \in ToSet(old) : /\ d.cross \in Given(names)
                            /\ d = [name |-> d.name, cross |-> d.cross, peer |-> d.peer]
  BY <1>2 DEF Carried
<1>10. \A i \in DOMAIN old : /\ descs[i].name = old[i].cross
                             /\ descs[i].cross = FreshName(EndOf(old[i].cross))
  <2> SUFFICES ASSUME NEW i \in DOMAIN old
               PROVE  /\ descs[i].name = old[i].cross
                      /\ descs[i].cross = FreshName(EndOf(old[i].cross))
    OBVIOUS
  <2> DEFINE d == old[i]
             y == FreshName(EndOf(d.cross))
  <2>1. d = [name |-> d.name, cross |-> d.cross, peer |-> d.peer]
    BY <1>8, <1>9
  <2>2. descs[i] = [d EXCEPT !.name = d.cross, !.cross = y]
    BY <1>5, ZenonT(30) DEF Inchworm
  <2> HIDE DEF d, y
  <2>3. descs[i].name = d.cross /\ descs[i].cross = y
    BY <2>1, <2>2
  <2> QED BY <2>3 DEF d, y
<1>11. /\ E1[n] = table /\ \A l \in Nodes : l # n => E1[l] = endpoints[l]
       /\ DOMAIN endpoints[n] \subseteq DOMAIN table
       /\ \A d \in ToSet(old) : d.cross \in DOMAIN table
       /\ \A y \in DOMAIN table : table[y] \in SoundEndpoints(E1, names, n, y)
  <2>1. /\ DOMAIN E1 = Nodes /\ E1[n] = table
        /\ \A l \in Nodes : l # n => E1[l] = endpoints[l]
        /\ DOMAIN endpoints[n] \subseteq DOMAIN table
        /\ \A d \in ToSet(old) : d.cross \in DOMAIN table
        /\ \A y \in DOMAIN table : /\ y \in Given(names)
                                   /\ table[y] \in SoundEndpoints(E1, names, n, y)
    BY <1>2, <1>6, RecoverSound, SMTT(60)
  <2> QED BY <2>1
<1>12. /\ endpoints'[n] = Moved(table, descs, k)
       /\ \A l \in Nodes : l # n => endpoints'[l] = E1[l]
  BY <1>1, <1>11 DEF IndInv, EndpointsSound
<1>13. \A d \in ToSet(descs) : \E i \in DOMAIN old : d = descs[i] /\ d.name = old[i].cross
  BY <1>5, <1>10 DEF ToSet
<1>14. \A d \in ToSet(descs) : d.name \in DOMAIN table
  BY <1>8, <1>11, <1>13
<1>15. \A d \in ToSet(descs) : E1[n][d.name].queue = << >>
  BY <1>6, <1>7, <1>8, <1>13 DEF Arrived
<1>16. \A d \in ToSet(descs) :
           /\ endpoints'[n][d.name].state = "proxying" /\ endpoints'[n][d.name].queue = << >>
           /\ endpoints'[n][d.name].target.node = k
  <2> SUFFICES ASSUME NEW d \in ToSet(descs)
               PROVE  /\ endpoints'[n][d.name].state = "proxying" /\ endpoints'[n][d.name].queue = << >>
                      /\ endpoints'[n][d.name].target.node = k
    OBVIOUS
  <2>1. d.name \in DOMAIN table /\ d.name \in DescriptorNames(descs)
    BY <1>14 DEF DescriptorNames
  <2>2. PICK f \in ToSet(descs) :
            Moved(table, descs, k)[d.name] = Proxying(table[d.name], Address(k, f.cross))
    BY <2>1, MovedFacts
  <2> DEFINE ep == table[d.name]
  <2>3. ep \in SoundEndpoints(E1, names, n, d.name)
    BY <1>11, <2>1
  <2> HIDE DEF ep
  <2>4. ep = [state |-> ep.state, peer |-> ep.peer, target |-> ep.target, runner |-> ep.runner,
              queue |-> ep.queue]
    BY <2>3 DEF SoundEndpoints
  <2>5. LET p == Proxying(ep, Address(k, f.cross))
        IN p.state = "proxying" /\ p.queue = << >> /\ p.target.node = k
    BY <2>4 DEF Proxying, Address
  <2> QED BY <1>12, <2>2, <2>5 DEF ep
<1>17. MovedOn(E1, endpoints', n, mail, k)
  <2>1. DOMAIN endpoints'[n] = DOMAIN E1[n]
    BY <1>11, <1>12, MovedFacts
  <2>2. \A y \in DOMAIN E1[n] : (\A d \in ToSet(descs) : d.name # y) => endpoints'[n][y] = E1[n][y]
    <3>1. \A y \in DOMAIN table : (\A d \in ToSet(descs) : d.name # y) =>
              Moved(table, descs, k)[y] = table[y]
      BY MovedFacts
    <3> QED BY <1>11, <1>12, <3>1
  <2>3. \A d \in ToSet(descs) : d.name \in DOMAIN E1[n]
    BY <1>11, <1>14
  <2> QED BY <1>1, <1>4, <1>12, <1>15, <1>16, <2>1, <2>2, <2>3 DEF MovedOn
<1>18. Wrote(W1, wire', Q2, n, k, mail)
  <2>1. DOMAIN wire = Nodes /\ \A l \in Nodes : DOMAIN wire[l] = Nodes
    BY DEF IndInv, WiresSound
  <2>2. m # n
    BY <1>7 DEF Arrived
  <2>3. wire[n][k] \in Seq(Q2)
    BY <1>3, WireIsSeq DEF IndInv
  <2>4. W1[n][k] = wire[n][k]
    BY <1>3, <1>6, <2>1, <2>2
  <2>5. Append(W1[n][k], mail) = wire'[n][k]
    BY <1>1, <1>3, <2>1, <2>2, <2>4
  <2>6. \A l, o \in Nodes : l # n \/ o # k => wire'[l][o] = W1[l][o]
    BY <1>1, <1>3, <1>6, <2>1, <2>2, ZenonT(30)
  <2> QED BY <2>3, <2>4, <2>5, <2>6 DEF Wrote
<1>19. MailMarks(msg) \in SUBSET AllMarks
  <2>1. msg \in Mail(endpoints, names)
    BY <1>2, ZenonT(30) DEF RoutedMail
  <2> QED BY <2>1, MailMarked, ZenonT(30)
<1>20. Forwarded(n, m, k, msg, mail, E1, W1, Q1, Q2)
  BY <1>3, <1>4, <1>5, <1>6, <1>7, <1>9, <1>10, <1>17, <1>18, <1>19 DEF Forwarded
<1> QED BY <1>6, <1>20, SMTT(30)

\* What is sent on is ready to leave.
LEMMA ForwardedReady ==
    ASSUME IndInv, PlaceInv, NEW n \in Nodes, NEW m \in Nodes, NEW k, NEW msg, NEW mail, NEW E1, NEW W1,
           NEW Q1, NEW Q2, Forwarded(n, m, k, msg, mail, E1, W1, Q1, Q2),
           NEW V1, Came(n, msg, E1, W1, V1)
    PROVE  /\ DistinctEnds(mail) /\ Fresh(E1, pending, n, mail)
           /\ MailMarks(mail) = MailMarks(msg)
<1>1. /\ mail.id = msg.id /\ DOMAIN mail.descs = DOMAIN msg.descs
      /\ \A i \in DOMAIN msg.descs : /\ mail.descs[i].name = msg.descs[i].cross
                                     /\ mail.descs[i].cross = FreshName(EndOf(msg.descs[i].cross))
      /\ \A d \in ToSet(msg.descs) : d.cross \in Given(names)
  BY DEF Forwarded
<1>2. /\ \A l \in Nodes : l # n => E1[l] = endpoints[l]
      /\ DOMAIN E1[n] = DOMAIN endpoints[n] \cup {d.cross : d \in ToSet(msg.descs)}
      /\ \A d \in ToSet(msg.descs) : /\ EndOf(d.cross) \in Ends /\ d.cross \in DOMAIN E1[n]
                                     /\ E1[n][d.cross].state = "queueing"
  BY DEF Forwarded, Arrived
<1>3. DistinctEnds(msg) /\ \A d \in ToSet(msg.descs) : Available(E1, pending, n, d.cross)
  BY DEF Came, CallReady
<1>4. \A i \in DOMAIN msg.descs : msg.descs[i] \in ToSet(msg.descs)
  BY DEF ToSet
<1>5. \A d \in ToSet(mail.descs) : \E i \in DOMAIN msg.descs : d = mail.descs[i]
  BY <1>1 DEF ToSet
<1>6. \A i \in DOMAIN msg.descs :
          /\ EndOf(mail.descs[i].name) = EndOf(msg.descs[i].name)
          /\ EndOf(mail.descs[i].cross) = EndOf(msg.descs[i].name)
  <2> SUFFICES ASSUME NEW i \in DOMAIN msg.descs
               PROVE  /\ EndOf(mail.descs[i].name) = EndOf(msg.descs[i].name)
                      /\ EndOf(mail.descs[i].cross) = EndOf(msg.descs[i].name)
    OBVIOUS
  <2>1. EndOf(msg.descs[i].cross) = EndOf(msg.descs[i].name)
    BY <1>3, <1>4 DEF DistinctEnds
  <2>2. EndOf(msg.descs[i].cross) \in Ends
    BY <1>2, <1>4
  <2>3. EndOf(FreshName(EndOf(msg.descs[i].cross))) = EndOf(msg.descs[i].cross)
    BY <2>2, FreshUnborn
  <2> QED BY <1>1, <2>1, <2>3
<1>7. DistinctEnds(mail)
  <2>1. \A i, j \in DOMAIN mail.descs :
            EndOf(mail.descs[i].name) = EndOf(mail.descs[j].name) => i = j
    BY <1>1, <1>3, <1>6 DEF DistinctEnds
  <2>2. \A d \in ToSet(mail.descs) : EndOf(d.cross) = EndOf(d.name)
    BY <1>5, <1>6
  <2> QED BY <2>1, <2>2 DEF DistinctEnds
<1>8. \A e \in Ends : Unborn(E1, FreshName(e))
  <2> SUFFICES ASSUME NEW e \in Ends, NEW l \in Nodes, FreshName(e) \in DOMAIN E1[l] PROVE FALSE
    BY DEF Unborn
  <2>1. EndOf(FreshName(e)) = e /\ Unborn(endpoints, FreshName(e))
    BY FreshUnborn
  <2>2. FreshName(e) \notin DOMAIN endpoints[l]
    BY <2>1 DEF Unborn
  <2>3. PICK d \in ToSet(msg.descs) : FreshName(e) = d.cross
    BY <1>2, <2>2
  <2>4. FreshName(e)[3] < names[e]
    BY <1>1, <2>1, <2>3 DEF Given
  <2>5. FreshName(e)[3] = names[e] /\ names[e] \in Nat
    BY DEF FreshName, IndInv, NamesSound
  <2> QED BY <2>4, <2>5
<1>9. Fresh(E1, pending, n, mail)
  <2> SUFFICES ASSUME NEW i \in DOMAIN msg.descs
               PROVE  LET d == mail.descs[i]
                      IN Available(E1, pending, n, d.name) /\ E1[n][d.name].state = "queueing"
                         /\ Unborn(E1, d.cross)
    BY <1>5 DEF Fresh
  <2> QED BY <1>1, <1>2, <1>3, <1>4, <1>8
<1>10. MailMarks(mail) = MailMarks(msg)
  <2>1. \A d \in ToSet(mail.descs) : \E f \in ToSet(msg.descs) : EndOf(d.name) = EndOf(f.name)
    BY <1>4, <1>5, <1>6
  <2>2. \A f \in ToSet(msg.descs) : \E d \in ToSet(mail.descs) : EndOf(d.name) = EndOf(f.name)
    BY <1>1, <1>6 DEF ToSet
  <2>3. DescMarks(mail.descs) = DescMarks(msg.descs)
    BY <2>1, <2>2 DEF DescMarks
  <2> QED BY <1>1, <2>3 DEF MailMarks
<1> QED BY <1>7, <1>9, <1>10

\* So a message for an endpoint that has moved is sent on.
LEMMA ForwardUserMessagePlaces ==
    ASSUME IndInv, PlaceInv, NEW n \in Nodes, NEW m \in Nodes, ForwardUserMessage(n, m)
    PROVE  PlaceInv'
<1>1. PICK k, msg, mail, E1, W1, Q1, Q2 :
          msg = Head(wire[m][n]) /\ Forwarded(n, m, k, msg, mail, E1, W1, Q1, Q2)
  BY ForwardedFacts
<1> DEFINE V1 == Contents(E1, W1, call, tasks, got)
           E2 == endpoints'
           W2 == wire'
<1>2. /\ channels' = channels /\ pending' = pending /\ call' = call /\ tasks' = tasks
      /\ held' = held /\ sent' = sent /\ got' = got /\ pipes' = pipes
      /\ names' = [e \in Ends |->
             IF \E d \in ToSet([i \in DOMAIN Head(wire[m][n]).descs |->
                                    Inchworm(Head(wire[m][n]).descs[i])]) : EndOf(d.name) = e
             THEN names[e] + 1 ELSE names[e]]
  BY ZenonT(30) DEF ForwardUserMessage, appVars
<1>3. /\ k \in Nodes /\ mail.type = "USER" /\ MailMarks(msg) \in SUBSET AllMarks
      /\ MovedOn(E1, E2, n, mail, k) /\ Wrote(W1, W2, Q2, n, k, mail)
      /\ Arrived(n, m, msg, E1, W1, Q1)
  BY <1>1 DEF Forwarded
<1>4. Came(n, msg, E1, W1, V1)
  <2>1. V1 = Contents(E1, W1, call, tasks, got) /\ msg = Head(wire[m][n])
    BY <1>1
  <2> HIDE DEF V1
  <2> QED BY <1>3, <2>1, ArrivedPlaces
<1>5. Stored' = Contents(E2, W2, call, tasks, got)
  BY <1>2 DEF Stored
<1> HIDE DEF V1, E2, W2
<1>6. /\ DistinctEnds(mail) /\ Fresh(E1, pending, n, mail)
      /\ MailMarks(mail) = MailMarks(msg)
  BY <1>1, <1>4, ForwardedReady
<1>7. /\ InPlace(E1, W1, call, tasks) /\ V1 \in Shelves(Boxes, AllMarks) /\ Once(V1)
      /\ Marks(V1) = Marks(Stored) \ MailMarks(mail) /\ MailMarks(mail) \subseteq Marks(Stored)
  BY <1>4, <1>6 DEF Came
<1>8. /\ InPlace(E2, W2, call, tasks)
      /\ Stored' = Post(V1, WireBox(n, k), MailMarks(mail))
  <2>1. MailMarks(mail) \cap Marks(Contents(E1, W1, call, tasks, got)) = {}
    BY <1>7 DEF V1
  <2>2. /\ InPlace(E2, W2, call, tasks)
        /\ Contents(E2, W2, call, tasks, got)
               = Post(Contents(E1, W1, call, tasks, got), WireBox(n, k), MailMarks(mail))
    BY <1>3, <1>6, <1>7, <2>1, Departs
  <2> QED BY <1>5, <2>2 DEF V1
<1>9. Once(Stored') /\ Marks(Stored') = Marks(Stored)
  <2> DEFINE a == MailMarks(mail)
             b == WireBox(n, k)
  <2>1. b \in Boxes
    BY <1>3, InWireBox
  <2>2. a \in SUBSET AllMarks /\ a \cap Marks(V1) = {} /\ Marks(V1) \cup a = Marks(Stored)
        /\ Stored' = Post(V1, b, a)
    BY <1>3, <1>6, <1>7, <1>8
  <2> HIDE DEF a, b
  <2>3. Once(Post(V1, b, a)) /\ Marks(Post(V1, b, a)) = Marks(V1) \cup a
    BY <1>7, <2>1, <2>2, PostOnce
  <2> QED BY <2>2, <2>3
<1>10. SameTalk(wire, W2)
  <2> SUFFICES ASSUME NEW l \in Nodes, NEW o \in Nodes, NEW i \in DOMAIN W2[l][o],
                      W2[l][o][i].type # "USER"
               PROVE  \E j \in DOMAIN wire[l][o] : W2[l][o][i] = wire[l][o][j]
    BY DEF SameTalk
  <2>1. i \in DOMAIN W1[l][o] /\ W2[l][o][i] = W1[l][o][i]
    <3>1. Wrote(W1, W2, Q2, n, k, mail) /\ k \in Nodes
      BY <1>3
    <3>2. \/ i \in DOMAIN W1[l][o] /\ W2[l][o][i] = W1[l][o][i]
          \/ l = n /\ o = k /\ W2[l][o][i] = mail
      BY <3>1, WroteFacts
    <3> QED BY <1>3, <3>2
  <2>2. Remains(wire, W1)
    <3>1. HasRead(wire, W1, Q1, m, n)
      BY <1>3 DEF Arrived
    <3> QED BY <3>1, ReadFacts
  <2> QED BY <2>1, <2>2 DEF Remains
<1>11. \A e \in Ends : names[e] \in Nat /\ names'[e] \in Nat /\ names[e] <= names'[e]
  BY <1>2 DEF IndInv, NamesSound
<1>12. InPlace(endpoints', wire', call', tasks') /\ CallsBound(channels, call') /\ SameTalk(wire, wire')
  BY <1>2, <1>8, <1>10 DEF E2, W2, PlaceInv
<1> QED BY <1>2, <1>9, <1>11, <1>12, PlacedAgain
-----------------------------------------------------------------------------
(* A message is written, and what was queued on its dependents is to be      *)
(* written next.                                                            *)

\* What is in joined sequences is in one of them,
LEMMA InFlattened ==
    ASSUME NEW S, NEW s \in Seq(Seq(S)), NEW j \in DOMAIN FlattenSeq(s)
    PROVE  \E i \in DOMAIN s : \E l \in DOMAIN s[i] : FlattenSeq(s)[j] = s[i][l]
<1> DEFINE M == {x \in S : \E i \in DOMAIN s : \E l \in DOMAIN s[i] : x = s[i][l]}
<1>1. ASSUME NEW i \in DOMAIN s PROVE s[i] \in Seq(M)
  <2>1. s[i] \in Seq(S)
    OBVIOUS
  <2>2. DOMAIN s[i] = 1..Len(s[i]) /\ Len(s[i]) \in Nat /\ s[i] = [l \in 1..Len(s[i]) |-> s[i][l]]
    BY <2>1
  <2>3. \A l \in 1..Len(s[i]) : s[i][l] \in M
    BY <2>1, <2>2
  <2> HIDE DEF M
  <2> QED BY <2>2, <2>3
<1> HIDE DEF M
<1>2. s \in Seq(Seq(M))
  <2>1. DOMAIN s = 1..Len(s) /\ Len(s) \in Nat /\ s = [i \in 1..Len(s) |-> s[i]]
    OBVIOUS
  <2> DEFINE X == Seq(M)
  <2>2. \A i \in 1..Len(s) : s[i] \in X
    BY <1>1, <2>1
  <2> HIDE DEF X
  <2> DEFINE k == Len(s)
  <2>3. k \in Nat /\ s = [i \in 1..k |-> s[i]] /\ \A i \in 1..k : s[i] \in X
    BY <2>1, <2>2
  <2> HIDE DEF k
  <2>4. s \in [1..k -> X]
    BY <2>3
  <2>5. s \in Seq(X)
    BY <2>3, <2>4
  <2> QED BY <2>5 DEF X
<1>3. FlattenSeq(s) \in Seq(M)
  BY <1>2, FlattenType
<1>4. FlattenSeq(s)[j] \in M
  BY <1>3
<1> QED BY <1>4 DEF M

\* marks and all;
LEMMA FlattenMail ==
    ASSUME NEW S, NEW s \in Seq(Seq(S))
    PROVE  InMail(FlattenSeq(s)) = FlattenSeq([i \in DOMAIN s |-> InMail(s[i])])
<1> DEFINE M == {MailMarks(x) : x \in S}
           r == [i \in DOMAIN s |-> InMail(s[i])]
           n == Len(s)
<1>0. DOMAIN s = 1..n /\ n \in Nat /\ \A i \in 1..n : s[i] \in Seq(S)
  OBVIOUS
<1>1. ASSUME NEW q \in Seq(S) PROVE InMail(q) \in Seq(M)
  <2>1. DOMAIN q = 1..Len(q) /\ Len(q) \in Nat /\ \A i \in 1..Len(q) : q[i] \in S
    OBVIOUS
  <2>2. InMail(q) = [i \in 1..Len(q) |-> MailMarks(q[i])]
    BY <2>1 DEF InMail
  <2>3. \A i \in 1..Len(q) : MailMarks(q[i]) \in M
    BY <2>1
  <2> HIDE DEF M
  <2> QED BY <2>1, <2>2, <2>3
<1>2. DOMAIN r = 1..n /\ \A i \in 1..n : r[i] = InMail(s[i])
  BY <1>0
<1>3. r = [i \in 1..n |-> r[i]]
  BY <1>0
<1> HIDE DEF M, r, n
<1>4. r \in Seq(Seq(M)) /\ Len(r) = n
  <2> DEFINE X == Seq(M)
  <2>1. \A i \in 1..n : r[i] \in X
    BY <1>0, <1>1, <1>2
  <2> HIDE DEF X
  <2>2. r \in [1..n -> X]
    BY <1>3, <2>1
  <2>3. r \in Seq(X) /\ Len(r) = n
    BY <1>0, <2>2
  <2> QED BY <2>3 DEF X
<1>5. CASE s = << >>
  <2>1. n = 0 /\ r = << >>
    <3>1. n = 0
      BY <1>5 DEF n
    <3> QED BY <1>4, <3>1, EmptySeq
  <2>2. InMail(<< >>) = << >>
    BY DEF InMail
  <2> QED BY <1>5, <2>1, <2>2, FlattenEmpty DEF r
<1>6. CASE s # << >>
  <2>1. n > 0 /\ r # << >>
    <3>1. n > 0
      BY <1>6, EmptySeq DEF n
    <3> QED BY <1>0, <1>4, <3>1
  <2>2. PICK f : Joins(f, s, n) /\ FlattenSeq(s) = f[n]
    BY <1>6, FlattenJoins DEF n
  <2>3. PICK g : Joins(g, r, n) /\ FlattenSeq(r) = g[n]
    BY <1>4, <2>1, FlattenJoins
  <2>4. \A i \in 1..n : f[i] \in Seq(S)
    BY <2>2, JoinsType DEF n
  <2>5. /\ f = [i \in 1..n |-> IF i = 1 THEN s[i] ELSE f[i - 1] \o s[i]]
        /\ g = [i \in 1..n |-> IF i = 1 THEN r[i] ELSE g[i - 1] \o r[i]]
    BY <2>2, <2>3 DEF Joins
  <2>6. \A i \in 1..n : f[i] = IF i = 1 THEN s[i] ELSE f[i - 1] \o s[i]
    BY <2>5, Zenon
  <2>7. \A i \in 1..n : g[i] = IF i = 1 THEN r[i] ELSE g[i - 1] \o r[i]
    BY <2>5, Zenon
  <2> DEFINE T == {k \in Nat : k \in 1..n => InMail(f[k]) = g[k]}
  <2>8. 0 \in T
    BY <1>0
  <2>9. ASSUME NEW k \in Nat, k \in T PROVE k + 1 \in T
    <3> SUFFICES ASSUME k + 1 \in 1..n PROVE InMail(f[k + 1]) = g[k + 1]
      OBVIOUS
    <3>1. CASE k = 0
      <4>1. f[1] = s[1] /\ g[1] = r[1] /\ 1 \in 1..n
        BY <3>1, <2>6, <2>7
      <4> QED BY <3>1, <4>1, <1>2
    <3>2. CASE k # 0
      <4>1. k \in 1..n /\ k + 1 # 1 /\ (k + 1) - 1 = k
        BY <3>2, <1>0
      <4>2. f[k + 1] = f[k] \o s[k + 1] /\ g[k + 1] = g[k] \o r[k + 1]
        BY <4>1, <2>6, <2>7
      <4>3. InMail(f[k]) = g[k] /\ r[k + 1] = InMail(s[k + 1])
        BY <4>1, <2>9, <1>2
      <4>4. InMail(f[k]) \o InMail(s[k + 1]) = InMail(f[k] \o s[k + 1])
        BY <4>1, <2>4, <1>0, Concatenated
      <4> QED BY <4>2, <4>3, <4>4
    <3> QED BY <3>1, <3>2
  <2> HIDE DEF T
  <2>10. Nat \subseteq T
    BY <2>8, <2>9, NatSetInduction
  <2>11. n \in T /\ n \in 1..n
    BY <1>0, <2>1, <2>10
  <2>12. InMail(f[n]) = g[n]
    BY <2>11 DEF T
  <2> QED BY <2>2, <2>3, <2>12 DEF r
<1> QED BY <1>5, <1>6

\* and what was queued is still mail for its next endpoint.
LEMMA RetargetedMail ==
    ASSUME NEW E, NEW N, NEW q \in Seq(Mail(E, N)), NEW y \in Names
    PROVE  Retarget(q, y) \in Seq(Mail(E, N))
<1>1. DOMAIN q = 1..Len(q) /\ Len(q) \in Nat /\ \A i \in 1..Len(q) : q[i] \in Mail(E, N)
  OBVIOUS
<1>2. ASSUME NEW msg \in Mail(E, N) PROVE [msg EXCEPT !.target = y] \in Mail(E, N)
  BY DEF Mail
<1>3. Retarget(q, y) = [i \in 1..Len(q) |-> [q[i] EXCEPT !.target = y]]
  BY <1>1 DEF Retarget
<1>4. \A i \in 1..Len(q) : [q[i] EXCEPT !.target = y] \in Mail(E, N)
  BY <1>1, <1>2
<1> QED BY <1>1, <1>3, <1>4

\* What it is to write msg, the front of t's call, to k as mail: Ep are the
\* endpoints once their queues are taken, q what was queued on them.
Flushed(n, t, k, msg, mail, Ep, q, Q2) ==
    /\ call[n][t].msgs # << >> /\ call[n][t].msgs \in Seq(RoutedMail(endpoints, names))
    /\ k \in Nodes /\ k = call[n][t].dest
    /\ msg \in RoutedMail(endpoints, names)
    /\ mail.type = "USER" /\ mail.id = msg.id /\ mail.descs = msg.descs
    /\ msg.descs \in Seq(Carried(endpoints, names))
    /\ \A d \in ToSet(msg.descs) :
          /\ d.name \in DOMAIN endpoints[n] /\ d.name \in Names /\ d.cross \in Names
          /\ endpoints[n][d.name].state = "queueing"
          /\ Ep[n][d.name].queue = << >>
    /\ SameStates(endpoints, Ep)
    /\ \A l \in Nodes : l # n => Ep[l] = endpoints[l]
    /\ \A y \in DOMAIN endpoints[n] :
          (\A d \in ToSet(msg.descs) : d.name # y) => Ep[n][y] = endpoints[n][y]
    /\ MovedOn(Ep, endpoints', n, mail, k)
    /\ Wrote(wire, wire', Q2, n, k, mail)
    /\ q = [i \in DOMAIN msg.descs |->
               Retarget(endpoints[n][msg.descs[i].name].queue, msg.descs[i].cross)]
    /\ call'[n][t].msgs = Tail(call[n][t].msgs) \o FlattenSeq(q)
    /\ call'[n][t].op = call[n][t].op /\ call'[n][t].dest = call[n][t].dest
    /\ \A l \in Nodes : \A u \in AllThreads : l # n \/ u # t => call'[l][u] = call[l][u]

\* That is what happens.
LEMMA FlushedFacts ==
    ASSUME IndInv, NEW n \in Nodes, NEW t \in AllThreads, FlushOne(n, t)
    PROVE  \E k, msg, mail, Ep, q, Q2 :
               msg = Head(call[n][t].msgs) /\ Flushed(n, t, k, msg, mail, Ep, q, Q2)
<1> DEFINE k     == call[n][t].dest
           msgs  == call[n][t].msgs
           msg   == Head(msgs)
           descs == msg.descs
           mail  == [msg EXCEPT !.pipes = << >>]
           empty == [y \in DOMAIN endpoints[n] |->
                        IF y \in DescriptorNames(descs)
                        THEN [endpoints[n][y] EXCEPT !.queue = << >>] ELSE endpoints[n][y]]
           Ep    == WithTable(endpoints, n, empty)
           q     == [i \in DOMAIN descs |->
                        Retarget(endpoints[n][descs[i].name].queue, descs[i].cross)]
           Q2    == Traffic(endpoints, names, channels, pending, n, k)
           c     == [call[n][t] EXCEPT !.msgs = Tail(msgs) \o FlattenSeq(q)]
<1>1. /\ k \in Nodes \ {n} /\ k \in DOMAIN channels[n] /\ channels[n][k] = k
      /\ msgs # << >>
      /\ msg \in Outgoing(endpoints, names, wire, n, k)
      /\ ToSet(descs) \subseteq Carried(endpoints, names)
      /\ descs \in Seq(Carried(endpoints, names))
  BY FlushFacts
<1>2. /\ DOMAIN call = Nodes /\ \A l \in Nodes : DOMAIN call[l] = AllThreads
      /\ call[n][t] \in Calls(endpoints, names, wire, n)
      /\ DOMAIN endpoints = Nodes
  BY DEF IndInv, CallsSound, EndpointsSound
<1>3. /\ \A x \in DescriptorNames(descs) :
            x \in DOMAIN endpoints[n] /\ endpoints[n][x].state = "queueing"
      /\ endpoints' = [endpoints EXCEPT ![n] = Moved(@, descs, k)]
      /\ wire' = [wire EXCEPT ![n][k] = Append(@, mail)]
      /\ call' = [call EXCEPT ![n][t] = c]
  <2>1. QueuedOn(n, descs) = FlattenSeq(q)
    BY DEF QueuedOn
  <2> QED BY <1>1, <1>2, <2>1, ZenonT(30) DEF FlushOne, Local
<1>4. /\ msg = Head(call[n][t].msgs) /\ descs = msg.descs /\ k = call[n][t].dest /\ msgs = call[n][t].msgs
      /\ Ep = WithTable(endpoints, n, empty)
  OBVIOUS
<1>5. msg \in RoutedMail(endpoints, names)
  BY <1>1 DEF Outgoing
<1>6. mail.type = "USER" /\ mail.id = msg.id /\ mail.descs = msg.descs
  BY <1>5 DEF RoutedMail, Mail
<1>7. /\ DOMAIN empty = DOMAIN endpoints[n]
      /\ \A y \in DOMAIN endpoints[n] :
            empty[y] = IF y \in DescriptorNames(descs)
                       THEN [endpoints[n][y] EXCEPT !.queue = << >>] ELSE endpoints[n][y]
  OBVIOUS
<1>8. q = [i \in DOMAIN descs |-> Retarget(endpoints[n][descs[i].name].queue, descs[i].cross)]
  OBVIOUS
<1>9. /\ c.op = call[n][t].op /\ c.dest = call[n][t].dest /\ c.msgs = Tail(msgs) \o FlattenSeq(q)
      /\ msgs \in Seq(RoutedMail(endpoints, names))
  <2> DEFINE s == Tail(msgs) \o FlattenSeq(q)
             r == call[n][t]
  <2>1. /\ r \in [op : {"idle", "send", "accept"}, via : Names \cup {NoOne},
                  lock : Names \cup {NoOne}, dest : Nodes \cup {NoOne},
                  msgs : Seq(RoutedMail(endpoints, names))]
        /\ c = [r EXCEPT !.msgs = s]
    BY <1>2 DEF Calls
  <2>2. msgs = r.msgs
    OBVIOUS
  <2> HIDE DEF s, r, c
  <2>3. c.op = r.op /\ c.dest = r.dest /\ c.msgs = s /\ r.msgs \in Seq(RoutedMail(endpoints, names))
    BY <2>1
  <2> QED BY <2>2, <2>3, ZenonT(30) DEF s, r
<1> HIDE DEF k, msgs, msg, descs, mail, empty, Ep, q, c
<1>10. /\ \A l \in Nodes : \A u \in AllThreads : l # n \/ u # t => call'[l][u] = call[l][u]
       /\ call'[n][t] = c
  BY <1>2, <1>3
<1>11. \A l \in Nodes : l # n => Ep[l] = endpoints[l]
  BY <1>2, <1>4 DEF WithTable
<1>12. Ep[n] = empty
  BY <1>2, <1>4 DEF WithTable
<1>13. ASSUME NEW y \in DOMAIN endpoints[n]
       PROVE  /\ empty[y].state = endpoints[n][y].state /\ empty[y].target = endpoints[n][y].target
              /\ y \in DescriptorNames(descs) => empty[y].queue = << >>
              /\ y \notin DescriptorNames(descs) => empty[y] = endpoints[n][y]
  <2> DEFINE ep == endpoints[n][y]
  <2>1. ep \in SoundEndpoints(endpoints, names, n, y)
    BY EndpointFacts
  <2>2. empty[y] = IF y \in DescriptorNames(descs) THEN [ep EXCEPT !.queue = << >>] ELSE ep
    BY <1>7
  <2> HIDE DEF ep
  <2>3. ep = [state |-> ep.state, peer |-> ep.peer, target |-> ep.target, runner |-> ep.runner,
              queue |-> ep.queue]
    BY <2>1 DEF SoundEndpoints
  <2>4. /\ empty[y].state = ep.state /\ empty[y].target = ep.target
        /\ y \in DescriptorNames(descs) => empty[y].queue = << >>
        /\ y \notin DescriptorNames(descs) => empty[y] = ep
    BY <2>2, <2>3
  <2> QED BY <2>4 DEF ep
<1>14. SameStates(endpoints, Ep)
  BY <1>7, <1>11, <1>12, <1>13 DEF SameStates
<1>15. \A d \in ToSet(descs) :
          /\ d.name \in DescriptorNames(descs)
          /\ d.name \in DOMAIN endpoints[n] /\ d.name \in Names /\ d.cross \in Names
          /\ endpoints[n][d.name].state = "queueing"
  BY <1>1, <1>3 DEF DescriptorNames, Carried, Given
<1>16. \A d \in ToSet(descs) : Ep[n][d.name].queue = << >>
  BY <1>12, <1>13, <1>15
<1>17. \A y \in DOMAIN endpoints[n] :
          (\A d \in ToSet(descs) : d.name # y) => y \notin DescriptorNames(descs)
  BY DEF DescriptorNames
<1>18. \A y \in DOMAIN endpoints[n] :
          (\A d \in ToSet(descs) : d.name # y) => Ep[n][y] = endpoints[n][y]
  BY <1>12, <1>13, <1>17
<1>19. /\ endpoints'[n] = Moved(endpoints[n], descs, k)
       /\ \A l \in Nodes : l # n => endpoints'[l] = endpoints[l]
  BY <1>2, <1>3
<1>20. \A d \in ToSet(descs) :
          /\ endpoints'[n][d.name].state = "proxying" /\ endpoints'[n][d.name].queue = << >>
          /\ endpoints'[n][d.name].target.node = k
  <2> SUFFICES ASSUME NEW d \in ToSet(descs)
               PROVE  /\ endpoints'[n][d.name].state = "proxying" /\ endpoints'[n][d.name].queue = << >>
                      /\ endpoints'[n][d.name].target.node = k
    OBVIOUS
  <2>1. d.name \in DOMAIN endpoints[n] /\ d.name \in DescriptorNames(descs)
    BY <1>15
  <2>2. PICK f \in ToSet(descs) :
            Moved(endpoints[n], descs, k)[d.name] = Proxying(endpoints[n][d.name], Address(k, f.cross))
    BY <2>1, MovedFacts
  <2> DEFINE ep == endpoints[n][d.name]
  <2>3. ep \in SoundEndpoints(endpoints, names, n, d.name)
    BY <2>1, EndpointFacts
  <2> HIDE DEF ep
  <2>4. ep = [state |-> ep.state, peer |-> ep.peer, target |-> ep.target, runner |-> ep.runner,
              queue |-> ep.queue]
    BY <2>3 DEF SoundEndpoints
  <2>5. LET p == Proxying(ep, Address(k, f.cross))
        IN p.state = "proxying" /\ p.queue = << >> /\ p.target.node = k
    BY <2>4 DEF Proxying, Address
  <2> QED BY <1>19, <2>2, <2>5 DEF ep
<1>21. MovedOn(Ep, endpoints', n, mail, k)
  <2>1. DOMAIN endpoints'[n] = DOMAIN Ep[n]
    BY <1>7, <1>12, <1>19, MovedFacts
  <2>2. \A y \in DOMAIN endpoints[n] : (\A d \in ToSet(descs) : d.name # y) =>
            Moved(endpoints[n], descs, k)[y] = endpoints[n][y]
    BY MovedFacts
  <2>3. \A y \in DOMAIN Ep[n] : (\A d \in ToSet(descs) : d.name # y) => endpoints'[n][y] = Ep[n][y]
    BY <1>7, <1>12, <1>18, <1>19, <2>2
  <2>4. \A l \in Nodes : l # n => endpoints'[l] = Ep[l]
    BY <1>11, <1>19
  <2>5. \A d \in ToSet(descs) : d.name \in DOMAIN Ep[n]
    BY <1>7, <1>12, <1>15
  <2>6. mail.descs = descs
    BY <1>4, <1>6
  <2> QED BY <1>1, <1>16, <1>20, <2>1, <2>3, <2>4, <2>5, <2>6 DEF MovedOn
<1>22. Wrote(wire, wire', Q2, n, k, mail)
  <2>1. DOMAIN wire = Nodes /\ \A l \in Nodes : DOMAIN wire[l] = Nodes
    BY DEF IndInv, WiresSound
  <2>2. wire[n][k] \in Seq(Q2)
    BY <1>1, WireIsSeq DEF IndInv
  <2>3. Append(wire[n][k], mail) = wire'[n][k]
    BY <1>1, <1>3, <2>1
  <2>4. \A l, o \in Nodes : l # n \/ o # k => wire'[l][o] = wire[l][o]
    BY <1>1, <1>3, <2>1
  <2> QED BY <2>2, <2>3, <2>4 DEF Wrote
<1>23. Flushed(n, t, k, msg, mail, Ep, q, Q2)
  <2>1. call'[n][t].msgs = Tail(call[n][t].msgs) \o FlattenSeq(q)
    BY <1>4, <1>9, <1>10
  <2>2. call'[n][t].op = call[n][t].op /\ call'[n][t].dest = call[n][t].dest
    BY <1>9, <1>10
  <2>3. k \in Nodes /\ call[n][t].msgs # << >> /\ call[n][t].msgs \in Seq(RoutedMail(endpoints, names))
    BY <1>1, <1>4, <1>9
  <2>4. msg.descs \in Seq(Carried(endpoints, names))
    BY <1>1, <1>4
  <2>5. q = [i \in DOMAIN msg.descs |->
               Retarget(endpoints[n][msg.descs[i].name].queue, msg.descs[i].cross)]
    BY <1>4, <1>8, ZenonT(30)
  <2>6. \A d \in ToSet(msg.descs) :
          /\ d.name \in DOMAIN endpoints[n] /\ d.name \in Names /\ d.cross \in Names
          /\ endpoints[n][d.name].state = "queueing"
          /\ Ep[n][d.name].queue = << >>
    BY <1>4, <1>15, <1>16
  <2>7. \A y \in DOMAIN endpoints[n] :
          (\A d \in ToSet(msg.descs) : d.name # y) => Ep[n][y] = endpoints[n][y]
    BY <1>4, <1>18
  <2> QED BY <1>4, <1>5, <1>6, <1>10, <1>11, <1>14, <1>21, <1>22, <2>1, <2>2, <2>3, <2>4, <2>5, <2>6, <2>7, ZenonT(30)
          DEF Flushed
<1> QED BY <1>4, <1>23

\* The message leaves, with handles of its own.
LEMMA FlushedReady ==
    ASSUME IndInv, PlaceInv, NEW n \in Nodes, NEW t \in AllThreads, NEW k, NEW msg, NEW mail, NEW Ep,
           NEW q, NEW Q2, msg = Head(call[n][t].msgs), Flushed(n, t, k, msg, mail, Ep, q, Q2)
    PROVE  /\ DistinctEnds(mail) /\ Fresh(Ep, pending, n, mail)
           /\ MailMarks(mail) = MailMarks(msg) /\ DistinctEnds(msg)
<1> DEFINE s == call[n][t].msgs
<1>1. /\ s # << >> /\ s \in Seq(RoutedMail(endpoints, names)) /\ msg = Head(s)
      /\ mail.id = msg.id /\ mail.descs = msg.descs
      /\ msg.descs \in Seq(Carried(endpoints, names))
      /\ SameStates(endpoints, Ep)
  BY ZenonT(30) DEF Flushed
<1>2. \A d \in ToSet(msg.descs) :
          d.name \in DOMAIN endpoints[n] /\ endpoints[n][d.name].state = "queueing"
  BY ZenonT(30) DEF Flushed
<1>3. \A i \in DOMAIN s : CallReady(endpoints, pending, n, s[i])
  BY DEF PlaceInv, CallsReady
<1> HIDE DEF s
<1>4. CallReady(endpoints, pending, n, msg)
  <2> DEFINE r == Tail(s)
  <2>1. Tail(s) = r
    OBVIOUS
  <2> HIDE DEF r
  <2>2. \E i \in DOMAIN s : s[i] = Head(s)
    BY <1>1, <2>1, HeadAndTail
  <2> QED BY <1>1, <1>3, <2>2
<1>5. ~Stale(endpoints, n, msg)
  <2> SUFFICES ASSUME Stale(endpoints, n, msg) PROVE FALSE
    OBVIOUS
  <2>1. msg.descs # << >> /\ \A d \in ToSet(msg.descs) : \E m \in Nodes \ {n} : d.name \in DOMAIN endpoints[m]
    BY DEF Stale
  <2>2. \E i \in DOMAIN msg.descs : TRUE
    <3> DEFINE ds == msg.descs
    <3>1. ds \in Seq(Carried(endpoints, names)) /\ ds # << >>
      BY <1>1, <2>1
    <3> HIDE DEF ds
    <3>2. 1 \in DOMAIN ds
      BY <3>1
    <3> QED BY <3>2 DEF ds
  <2>3. PICK i \in DOMAIN msg.descs : TRUE
    BY <2>2
  <2>4. msg.descs[i] \in ToSet(msg.descs)
    BY DEF ToSet
  <2>5. NamesApart(endpoints)
    BY DEF PlaceInv
  <2> QED BY <1>2, <2>1, <2>4, <2>5 DEF NamesApart
<1>6. DistinctEnds(msg) /\ Fresh(endpoints, pending, n, msg)
  BY <1>4, <1>5 DEF CallReady
<1>7. /\ \A l \in Nodes : \A x : Available(Ep, pending, l, x) <=> Available(endpoints, pending, l, x)
      /\ \A y : Unborn(Ep, y) <=> Unborn(endpoints, y)
  BY <1>1, StatesAvailable
<1>8. Fresh(Ep, pending, n, mail)
  BY <1>1, <1>2, <1>6, <1>7 DEF Fresh, SameStates
<1>9. DistinctEnds(mail)
  BY <1>1, <1>6 DEF DistinctEnds
<1>10. MailMarks(mail) = MailMarks(msg)
  BY <1>1 DEF MailMarks
<1> QED BY <1>6, <1>8, <1>9, <1>10

\* What was queued on its dependents is mail that is ready to be written.
LEMMA FlushedQueues ==
    ASSUME IndInv, PlaceInv, NEW n \in Nodes, NEW t \in AllThreads, NEW k, NEW msg, NEW mail, NEW Ep,
           NEW q, NEW Q2, Flushed(n, t, k, msg, mail, Ep, q, Q2)
    PROVE  /\ q \in Seq(Seq(Mail(endpoints, names))) /\ DOMAIN q = DOMAIN msg.descs
           /\ \A i \in DOMAIN q :
                 /\ InMail(q[i]) = InMail(QueueOf(endpoints, n, msg.descs[i].name))
                 /\ \A j \in DOMAIN q[i] : CallReady(Ep, pending, n, q[i][j])
<1> DEFINE M == Mail(endpoints, names)
           ds == msg.descs
           C == Carried(endpoints, names)
<1>1. /\ ds \in Seq(C)
      /\ \A d \in ToSet(ds) : d.name \in DOMAIN endpoints[n] /\ d.cross \in Names
      /\ SameStates(endpoints, Ep)
      /\ q = [i \in DOMAIN ds |-> Retarget(endpoints[n][ds[i].name].queue, ds[i].cross)]
  BY ZenonT(30) DEF Flushed
<1> HIDE DEF ds, C, M
<1>2. \A i \in DOMAIN ds : ds[i] \in ToSet(ds)
  BY DEF ToSet
<1>3. DOMAIN ds = 1..Len(ds) /\ Len(ds) \in Nat
  BY <1>1
<1>4. DOMAIN q = DOMAIN ds /\ q = [i \in DOMAIN ds |-> q[i]]
      /\ \A i \in DOMAIN ds : q[i] = Retarget(endpoints[n][ds[i].name].queue, ds[i].cross)
  BY <1>1
<1>5. OnlyMoves(endpoints, pending, Ep, pending, {})
  BY <1>1, StatesAvailable
<1>6. ASSUME NEW i \in DOMAIN ds
      PROVE  /\ q[i] \in Seq(M) /\ InMail(q[i]) = InMail(QueueOf(endpoints, n, ds[i].name))
             /\ \A j \in DOMAIN q[i] : CallReady(Ep, pending, n, q[i][j])
  <2> DEFINE x == ds[i].name
             y == ds[i].cross
             o == endpoints[n][x].queue
  <2>1. x \in DOMAIN endpoints[n] /\ y \in Names
    BY <1>1, <1>2
  <2>2. QueueOf(endpoints, n, x) \in Seq(Mail(endpoints, names)) /\ QueueOf(endpoints, n, x) = o
    BY <2>1, QueueTyped
  <2>3. \A j \in DOMAIN endpoints[n][x].queue : Clear(endpoints[n][x].queue[j], {})
    BY DEF Clear
  <2>4. q[i] = Retarget(o, y)
    BY <1>4
  <2> HIDE DEF x, y
  <2>5. \A j \in DOMAIN Retarget(o, y) : CallReady(Ep, pending, n, Retarget(o, y)[j])
    BY <1>5, <2>1, <2>3, QueuedCanBeWritten
  <2> HIDE DEF o
  <2>6. InMail(Retarget(o, y)) = InMail(o)
    BY <2>2, SameMarks
  <2>7. Retarget(o, y) \in Seq(M)
    BY <2>1, <2>2, RetargetedMail DEF M
  <2> QED BY <2>2, <2>4, <2>5, <2>6, <2>7 DEF x
<1>7. q \in Seq(Seq(M))
  <2> DEFINE X == Seq(M)
             l == Len(ds)
  <2>1. l \in Nat /\ q = [i \in 1..l |-> q[i]] /\ \A i \in 1..l : q[i] \in X
    BY <1>3, <1>4, <1>6
  <2> HIDE DEF X, l
  <2>2. q \in [1..l -> X]
    BY <2>1
  <2>3. q \in Seq(X)
    BY <2>1, <2>2
  <2> QED BY <2>3 DEF X
<1> QED BY <1>4, <1>6, <1>7, ZenonT(30) DEF M, ds

\* All is in one place, but for msg, which is nowhere.
Gone(msg, V) ==
    /\ V \in Shelves(Boxes, AllMarks) /\ Once(V)
    /\ Marks(V) = Marks(Stored) \ MailMarks(msg) /\ MailMarks(msg) \subseteq Marks(Stored)

\* So it is when msg has left the call, and what was queued on its dependents
\* has come into it.
LEMMA FlushedContents ==
    ASSUME IndInv, PlaceInv, NEW n \in Nodes, NEW t \in AllThreads, NEW k, NEW msg, NEW mail, NEW Ep,
           NEW q, NEW Q2, msg = Head(call[n][t].msgs), Flushed(n, t, k, msg, mail, Ep, q, Q2),
           DistinctEnds(msg)
    PROVE  Gone(msg, Contents(Ep, wire, call', tasks, got))
<1> SUFFICES ASSUME NEW V2, V2 = Contents(Ep, wire, call', tasks, got) PROVE Gone(msg, V2)
  OBVIOUS
<1> DEFINE s == call[n][t].msgs
           M == Mail(endpoints, names)
           ds == msg.descs
           l == Len(ds)
           r == Tail(s)
           K1 == [m \in Nodes |-> [u \in AllThreads |->
                     IF m = n /\ u = t THEN [msgs |-> r] ELSE [msgs |-> call[m][u].msgs]]]
           V1 == Contents(endpoints, wire, K1, tasks, got)
           c == CallBox(n, t)
           bs == [i \in 1..l |-> QueueBox(n, ds[i].name)]
           g == FlattenSeq(q)
<1>1. /\ s # << >> /\ s \in Seq(RoutedMail(endpoints, names)) /\ msg = Head(s)
      /\ ds \in Seq(Carried(endpoints, names))
      /\ \A d \in ToSet(ds) : /\ d.name \in DOMAIN endpoints[n] /\ d.name \in Names
                              /\ Ep[n][d.name].queue = << >>
      /\ SameStates(endpoints, Ep)
      /\ \A m \in Nodes : m # n => Ep[m] = endpoints[m]
      /\ \A y \in DOMAIN endpoints[n] : (\A d \in ToSet(ds) : d.name # y) => Ep[n][y] = endpoints[n][y]
      /\ call'[n][t].msgs = r \o g
      /\ \A m \in Nodes : \A u \in AllThreads : m # n \/ u # t => call'[m][u] = call[m][u]
  BY ZenonT(30) DEF Flushed
<1>2. RoutedMail(endpoints, names) \subseteq M
  BY DEF RoutedMail
<1>3. \A m \in Nodes : \A u \in AllThreads :
          K1[m][u].msgs = IF m = n /\ u = t THEN r ELSE call[m][u].msgs
  OBVIOUS
<1>4. /\ q \in Seq(Seq(M)) /\ DOMAIN q = DOMAIN ds
      /\ \A i \in DOMAIN q : InMail(q[i]) = InMail(QueueOf(endpoints, n, ds[i].name))
  BY FlushedQueues
<1>5. DOMAIN ds = 1..l /\ l \in Nat
  <2> DEFINE C == Carried(endpoints, names)
  <2>1. ds \in Seq(C)
    BY <1>1
  <2> HIDE DEF ds, C
  <2> QED BY <2>1
<1> HIDE DEF M, K1
<1>6. r \in Seq(M) /\ s \in Seq(M) /\ g \in Seq(M)
  <2>1. s \in Seq(M)
    BY <1>1, <1>2, SeqMonotonic
  <2> HIDE DEF s
  <2>2. r \in Seq(M)
    BY <1>1, <2>1, HeadTailProperties
  <2>3. g \in Seq(M)
    BY <1>4, FlattenType
  <2> QED BY <2>1, <2>2, <2>3
<1>7. /\ V1 = Drop(Stored, c)
      /\ c \in Boxes /\ Stored[c] # << >> /\ Head(Stored[c]) = MailMarks(msg)
  <2>1. Tail(call[n][t].msgs) = K1[n][t].msgs
    BY <1>3
  <2>2. \A m \in Nodes : \A u \in AllThreads : m # n \/ u # t => K1[m][u].msgs = call[m][u].msgs
    BY <1>3
  <2>3. call[n][t].msgs # << >> /\ call[n][t].msgs \in Seq(M)
    BY <1>1, <1>6
  <2>4. /\ Contents(endpoints, wire, K1, tasks, got) = Drop(Contents(endpoints, wire, call, tasks, got), CallBox(n, t))
        /\ CallBox(n, t) \in Boxes /\ Contents(endpoints, wire, call, tasks, got)[CallBox(n, t)] # << >>
        /\ Head(Contents(endpoints, wire, call, tasks, got)[CallBox(n, t)]) = MailMarks(Head(call[n][t].msgs))
    BY <2>1, <2>2, <2>3, CallDropped
  <2> QED BY <2>4, <1>1 DEF Stored
<1>8. Stored \in Shelves(Boxes, AllMarks) /\ Once(Stored)
  BY StoredTyped DEF PlaceInv
<1>9. V1 \in Shelves(Boxes, AllMarks) /\ Once(V1) /\ Marks(V1) = Marks(Stored) \ MailMarks(msg)
  <2> HIDE DEF V1, c
  <2> QED BY <1>7, <1>8, DropOnce
<1>10. MailMarks(msg) \subseteq Marks(Stored)
  <2> DEFINE b == Stored[c]
             o == Head(b)
  <2>1. b \in Seq(SUBSET AllMarks) /\ b # << >> /\ o = MailMarks(msg)
    BY <1>7, <1>8 DEF Shelves
  <2>2. o = b[1] /\ 1 \in DOMAIN b
    <3> HIDE DEF b
    <3> QED BY <2>1
  <2>3. c \in DOMAIN Stored
    BY <1>7, <1>8 DEF Shelves
  <2> QED BY <2>1, <2>2, <2>3 DEF Marks, MarksIn
<1>11. ASSUME NEW i \in 1..l
       PROVE  /\ ds[i] \in ToSet(ds) /\ ds[i].name \in Names /\ ds[i].name \in DOMAIN endpoints[n]
              /\ bs[i] = QueueBox(n, ds[i].name) /\ bs[i] \in Boxes /\ bs[i] # c
              /\ QueueOf(Ep, n, ds[i].name) = << >>
              /\ V1[bs[i]] = InMail(QueueOf(endpoints, n, ds[i].name))
  <2>1. ds[i] \in ToSet(ds)
    BY <1>5 DEF ToSet
  <2>2. ds[i].name \in Names /\ ds[i].name \in DOMAIN endpoints[n] /\ Ep[n][ds[i].name].queue = << >>
    BY <1>1, <2>1, ZenonT(30)
  <2>3. bs[i] = QueueBox(n, ds[i].name)
    OBVIOUS
  <2>4. QueueBox(n, ds[i].name) \in Boxes /\ V1[QueueBox(n, ds[i].name)] = InMail(QueueOf(endpoints, n, ds[i].name))
    <3> DEFINE x == ds[i].name
    <3>1. x \in Names
      BY <2>2, ZenonT(30)
    <3> HIDE DEF x
    <3>2. QueueBox(n, x) \in Boxes
      BY <3>1 DEF QueueBox, Boxes
    <3>3. V1[QueueBox(n, x)] = InMail(QueueOf(endpoints, n, x))
      BY <3>2 DEF Contents, QueueBox
    <3> QED BY <3>2, <3>3 DEF x
  <2>5. QueueBox(n, ds[i].name) # c
    BY DEF QueueBox, CallBox
  <2>6. QueueOf(Ep, n, ds[i].name) = << >>
    BY <2>2, ZenonT(30) DEF QueueOf
  <2> QED BY <2>1, <2>2, <2>3, <2>4, <2>5, <2>6, ZenonT(30)
<1>12. ElseSame(endpoints, wire, K1, tasks, got, Ep, wire, call', tasks, got,
                {bs[i] : i \in 1..l} \cup {c})
  <2> DEFINE B == {bs[i] : i \in 1..l} \cup {c}
  <2>1. ASSUME NEW m \in Nodes, NEW x \in Names, QueueBox(m, x) \notin B
        PROVE  QueueOf(Ep, m, x) = QueueOf(endpoints, m, x)
    <3>1. DOMAIN Ep[m] = DOMAIN endpoints[m]
      BY <1>1 DEF SameStates
    <3>2. CASE m # n
      BY <1>1, <3>2 DEF QueueOf
    <3>3. CASE m = n
      <4>1. \A i \in 1..l : ds[i].name # x
        BY <1>11, <2>1, <3>3, ZenonT(30)
      <4>2. \A d \in ToSet(ds) : d.name # x
        BY <1>5, <4>1 DEF ToSet
      <4> QED BY <1>1, <3>1, <3>3, <4>2, ZenonT(30) DEF QueueOf
    <3> QED BY <3>2, <3>3
  <2>2. ASSUME NEW m \in Nodes, NEW u \in AllThreads, CallBox(m, u) \notin B
        PROVE  call'[m][u].msgs = K1[m][u].msgs
    <3>1. m # n \/ u # t
      BY <2>2, ZenonT(30)
    <3>2. K1[m][u].msgs = call[m][u].msgs
      BY <1>3, <3>1
    <3>3. call'[m][u] = call[m][u]
      BY <1>1, <3>1
    <3> QED BY <3>2, <3>3
  <2> HIDE DEF B
  <2>3. ElseSame(endpoints, wire, K1, tasks, got, Ep, wire, call', tasks, got, B)
    BY <2>1, <2>2 DEF ElseSame
  <2> QED BY <2>3, ZenonT(30) DEF B
<1>13. \A b \in Boxes : b # c /\ (\A i \in 1..l : bs[i] # b) => V2[b] = V1[b]
  <2> DEFINE B == {bs[i] : i \in 1..l} \cup {c}
  <2>1. \A b : b # c /\ (\A i \in 1..l : bs[i] # b) => b \notin B
    BY ZenonT(30)
  <2>2. ElseSame(endpoints, wire, K1, tasks, got, Ep, wire, call', tasks, got, B)
    BY <1>12, ZenonT(30)
  <2> HIDE DEF B, bs, c
  <2>3. \A b \in Boxes : b \notin B => V2[b] = V1[b]
    BY <2>2, OtherBoxes
  <2> QED BY <2>1, <2>3
<1>14. \A i \in 1..l : V2[bs[i]] = << >>
  <2> SUFFICES ASSUME NEW i \in 1..l PROVE V2[bs[i]] = << >>
    BY ZenonT(30)
  <2> DEFINE x == ds[i].name
  <2>1. x \in Names /\ bs[i] = QueueBox(n, x) /\ QueueOf(Ep, n, x) = << >>
    BY <1>11, ZenonT(30)
  <2> HIDE DEF x, bs
  <2>2. V2[QueueBox(n, x)] = InMail(QueueOf(Ep, n, x))
    BY <2>1, InQueueBox
  <2>3. InMail(<< >>) = << >>
    BY DEF InMail
  <2> QED BY <2>1, <2>2, <2>3
<1>15. V2[c] = V1[c] \o FlattenSeq([i \in 1..l |-> V1[bs[i]]])
  <2>1. V2[c] = InMail(call'[n][t].msgs)
    BY <1>7 DEF Contents, CallBox
  <2>2. V1[c] = InMail(r)
    <3>1. V1[c] = InMail(K1[n][t].msgs)
      BY InCallBox
    <3> QED BY <1>3, <3>1
  <2>3. [i \in DOMAIN q |-> InMail(q[i])] = [i \in 1..l |-> V1[bs[i]]]
    <3> HIDE DEF V1, bs
    <3> QED BY <1>4, <1>5, <1>11, ZenonT(30)
  <2>4. InMail(g) = FlattenSeq([i \in DOMAIN q |-> InMail(q[i])])
    BY <1>4, FlattenMail
  <2> HIDE DEF V1, bs, r, g, c
  <2>5. InMail(r) \o InMail(g) = InMail(r \o g)
    BY <1>6, Concatenated
  <2> QED BY <1>1, <2>1, <2>2, <2>3, <2>4, <2>5, ZenonT(30)
<1>16. V2 = Poured(V1, bs, c, l)
  <2>1. DOMAIN V1 = Boxes /\ V2 = [b \in Boxes |-> V2[b]]
    BY DEF Contents
  <2> HIDE DEF V1, bs, c, l
  <2>2. ASSUME NEW b \in Boxes
        PROVE  V2[b] = IF b = c THEN V1[c] \o FlattenSeq([i \in 1..l |-> V1[bs[i]]])
                       ELSE IF \E i \in 1..l : bs[i] = b THEN << >> ELSE V1[b]
    <3>1. CASE b = c
      BY <1>15, <3>1
    <3>2. CASE b # c /\ \E i \in 1..l : bs[i] = b
      BY <1>14, <3>2
    <3>3. CASE b # c /\ \A i \in 1..l : bs[i] # b
      BY <1>13, <3>3
    <3> QED BY <3>1, <3>2, <3>3
  <2>3. Poured(V1, bs, c, l) = [b \in Boxes |->
            IF b = c THEN V1[c] \o FlattenSeq([i \in 1..l |-> V1[bs[i]]])
            ELSE IF \E i \in 1..l : bs[i] = b THEN << >> ELSE V1[b]]
    BY <2>1 DEF Poured
  <2> QED BY <2>1, <2>2, <2>3
<1>17. V2 \in Shelves(Boxes, AllMarks) /\ Once(V2) /\ Marks(V2) = Marks(V1)
  <2>1. bs = [i \in 1..l |-> bs[i]]
    OBVIOUS
  <2>2. \A i, j \in 1..l : bs[i] = bs[j] => i = j
    <3> SUFFICES ASSUME NEW i \in 1..l, NEW j \in 1..l, bs[i] = bs[j] PROVE i = j
      BY ZenonT(30)
    <3>1. QueueBox(n, ds[i].name) = QueueBox(n, ds[j].name)
      BY <1>11, ZenonT(30)
    <3>2. ds[i].name = ds[j].name
      BY <3>1, ZenonT(30) DEF QueueBox
    <3> QED BY <1>5, <3>2, ZenonT(30) DEF DistinctEnds
  <2> HIDE DEF V1, bs, c, l
  <2>3. bs \in [1..l -> Boxes] /\ \A i \in 1..l : bs[i] # c
    BY <1>11, <2>1
  <2>4. V1 \in Shelves(Boxes, AllMarks) /\ Once(V1) /\ l \in Nat /\ c \in Boxes
    BY <1>5, <1>7, <1>9
  <2>5. LET U == Poured(V1, bs, c, l)
        IN U \in Shelves(Boxes, AllMarks) /\ Once(U) /\ Marks(U) = Marks(V1)
    BY <2>2, <2>3, <2>4, PouredOnce
  <2> QED BY <1>16, <2>5
<1> QED BY <1>9, <1>10, <1>17 DEF Gone

\* All is in place between the two: the queues are empty, their messages are in
\* the call, and the message has yet to be written.
LEMMA FlushedInPlace ==
    ASSUME IndInv, PlaceInv, NEW n \in Nodes, NEW t \in AllThreads, NEW k, NEW msg, NEW mail, NEW Ep,
           NEW q, NEW Q2, Flushed(n, t, k, msg, mail, Ep, q, Q2)
    PROVE  InPlace(Ep, wire, call', tasks)
<1> DEFINE s == call[n][t].msgs
           r == Tail(s)
           g == FlattenSeq(q)
           M == Mail(endpoints, names)
           K2 == call'
<1>1. /\ s # << >> /\ s \in Seq(RoutedMail(endpoints, names))
      /\ SameStates(endpoints, Ep)
      /\ \A l \in Nodes : l # n => Ep[l] = endpoints[l]
      /\ \A y \in DOMAIN endpoints[n] :
            (\A d \in ToSet(msg.descs) : d.name # y) => Ep[n][y] = endpoints[n][y]
      /\ \A d \in ToSet(msg.descs) : Ep[n][d.name].queue = << >>
      /\ K2[n][t].msgs = r \o g
      /\ \A l \in Nodes : \A u \in AllThreads : l # n \/ u # t => K2[l][u] = call[l][u]
  BY ZenonT(30) DEF Flushed
<1>2. /\ q \in Seq(Seq(M))
      /\ \A i \in DOMAIN q : \A j \in DOMAIN q[i] : CallReady(Ep, pending, n, q[i][j])
  BY FlushedQueues
<1>3. \A i \in DOMAIN r : \E j \in DOMAIN s : r[i] = s[j]
  <2>1. Tail(s) = r
    OBVIOUS
  <2> HIDE DEF s, r
  <2> QED BY <1>1, <2>1, HeadAndTail
<1>4. r \in Seq(M)
  <2>1. s \in Seq(M)
    <3>1. RoutedMail(endpoints, names) \subseteq M
      BY DEF RoutedMail
    <3> QED BY <1>1, <3>1, SeqMonotonic
  <2> HIDE DEF s, M
  <2> QED BY <1>1, <2>1, HeadTailProperties
<1>5. \A i \in DOMAIN g : CallReady(Ep, pending, n, g[i])
  <2> SUFFICES ASSUME NEW i \in DOMAIN g PROVE CallReady(Ep, pending, n, g[i])
    OBVIOUS
  <2> HIDE DEF M
  <2>1. \E o \in DOMAIN q : \E l \in DOMAIN q[o] : FlattenSeq(q)[i] = q[o][l]
    BY <1>2, InFlattened
  <2> QED BY <1>2, <2>1
<1>6. g \in Seq(M)
  <2> HIDE DEF M
  <2> QED BY <1>2, FlattenType
<1> HIDE DEF r, g, M, K2, s
<1>7. CallsGain(Ep, pending, call, K2)
  <2> SUFFICES ASSUME NEW l \in Nodes, NEW u \in AllThreads, NEW i \in DOMAIN K2[l][u].msgs
               PROVE  \/ \E j \in DOMAIN call[l][u].msgs : K2[l][u].msgs[i] = call[l][u].msgs[j]
                      \/ CallReady(Ep, pending, l, K2[l][u].msgs[i])
    BY DEF CallsGain
  <2>1. CASE l # n \/ u # t
    BY <1>1, <2>1
  <2>2. CASE l = n /\ u = t
    <3>1. K2[l][u].msgs = r \o g
      BY <1>1, <2>2
    <3>2. \/ i \in DOMAIN r /\ (r \o g)[i] = r[i]
          \/ \E j \in DOMAIN g : (r \o g)[i] = g[j]
      BY <1>4, <1>6, <3>1, Concatenated
    <3> QED BY <1>3, <1>5, <2>2, <3>1, <3>2 DEF s
  <2> QED BY <2>1, <2>2
<1>8. QueuesGain(endpoints, Ep, pending)
  <2> SUFFICES ASSUME NEW l \in Nodes, NEW x \in DOMAIN Ep[l], NEW i \in DOMAIN Ep[l][x].queue
               PROVE  /\ x \in DOMAIN endpoints[l]
                      /\ \E j \in DOMAIN endpoints[l][x].queue :
                            Ep[l][x].queue[i] = endpoints[l][x].queue[j]
    BY DEF QueuesGain
  <2>1. x \in DOMAIN endpoints[l]
    BY <1>1 DEF SameStates
  <2>2. CASE l = n /\ \E d \in ToSet(msg.descs) : d.name = x
    BY <1>1, <2>2
  <2>3. CASE l # n \/ \A d \in ToSet(msg.descs) : d.name # x
    BY <1>1, <2>1, <2>3
  <2> QED BY <2>1, <2>2, <2>3
<1>9. TasksGain(Ep, pending, tasks, tasks) /\ WiresGain(Ep, wire, wire)
  BY NothingNew
<1>10. InPlace(endpoints, wire, call, tasks)
  BY AllInPlace
<1>11. /\ QueuesReady(Ep, pending) /\ CallsReady(Ep, pending, K2)
       /\ TasksReady(Ep, pending, tasks) /\ WiresReady(Ep, wire)
  <2> DEFINE S == {}
             G == << >>
  <2>1. \A e \in S : EndMark(e) \notin Marks(Contents(endpoints, wire, call, tasks, G))
    OBVIOUS
  <2>2. OnlyMoves(endpoints, pending, Ep, pending, S)
    BY <1>1, StatesAvailable
  <2>3. /\ \A l \in Nodes : DOMAIN endpoints[l] \subseteq Names
        /\ QueuesReady(endpoints, pending) /\ CallsReady(endpoints, pending, call)
        /\ TasksReady(endpoints, pending, tasks) /\ WiresReady(endpoints, wire)
    BY <1>10 DEF InPlace
  <2> HIDE DEF S, G
  <2> QED BY <1>7, <1>8, <1>9, <2>1, <2>2, <2>3, AllStayReady
<1>12. /\ HeldOnce(Ep, pending, held, Stored) /\ NamesApart(Ep) /\ PendingReady(Ep, channels, pending)
       /\ ProxiesReady(Ep, channels) /\ AllAtHome(Ep, pending, wire, pipes)
  <2>1. /\ HeldOnce(endpoints, pending, held, Stored) /\ NamesApart(endpoints)
        /\ PendingReady(endpoints, channels, pending) /\ ProxiesReady(endpoints, channels)
        /\ AllAtHome(endpoints, pending, wire, pipes)
    BY <1>10 DEF InPlace
  <2> QED BY <1>1, <2>1, StatesKept
<1>13. \A l \in Nodes : DOMAIN Ep[l] \subseteq Names
  BY <1>1, <1>10 DEF InPlace, SameStates
<1>14. InPlace(Ep, wire, K2, tasks)
  BY <1>11, <1>12, <1>13 DEF InPlace
<1> QED BY <1>14 DEF K2

\* So one turn of the flushing loop keeps all in its place.
LEMMA FlushOnePlaces ==
    ASSUME IndInv, PlaceInv, NEW n \in Nodes, NEW t \in AllThreads, FlushOne(n, t)
    PROVE  PlaceInv'
<1>1. PICK k, msg, mail, Ep, q, Q2 :
          msg = Head(call[n][t].msgs) /\ Flushed(n, t, k, msg, mail, Ep, q, Q2)
  BY FlushedFacts
<1> DEFINE V1 == Contents(Ep, wire, call', tasks, got)
           E2 == endpoints'
           W2 == wire'
           K2 == call'
<1>2. /\ channels' = channels /\ pending' = pending /\ tasks' = tasks
      /\ held' = held /\ sent' = sent /\ got' = got /\ pipes' = pipes /\ names' = names
  BY ZenonT(30) DEF FlushOne, appVars
<1>3. /\ k \in Nodes /\ mail.type = "USER" /\ k = call[n][t].dest /\ call[n][t].msgs # << >>
      /\ MovedOn(Ep, E2, n, mail, k) /\ Wrote(wire, W2, Q2, n, k, mail)
      /\ msg \in RoutedMail(endpoints, names)
      /\ K2[n][t].op = call[n][t].op /\ K2[n][t].dest = call[n][t].dest
      /\ \A l \in Nodes : \A u \in AllThreads : l # n \/ u # t => K2[l][u] = call[l][u]
  BY <1>1, ZenonT(30) DEF Flushed
<1>4. InPlace(Ep, wire, K2, tasks)
  BY <1>1, FlushedInPlace
<1>5. Stored' = Contents(E2, W2, K2, tasks, got)
  BY <1>2 DEF Stored
<1>6. /\ DistinctEnds(mail) /\ Fresh(Ep, pending, n, mail)
      /\ MailMarks(mail) = MailMarks(msg) /\ DistinctEnds(msg)
  BY <1>1, FlushedReady
<1>7. /\ V1 \in Shelves(Boxes, AllMarks) /\ Once(V1)
      /\ Marks(V1) = Marks(Stored) \ MailMarks(mail) /\ MailMarks(mail) \subseteq Marks(Stored)
  <2>1. Gone(msg, Contents(Ep, wire, call', tasks, got))
    <3>1. msg = Head(call[n][t].msgs) /\ Flushed(n, t, k, msg, mail, Ep, q, Q2)
      BY <1>1
    <3> QED BY <3>1, <1>6, FlushedContents
  <2> QED BY <1>6, <2>1 DEF Gone
<1>8. V1 = Contents(Ep, wire, K2, tasks, got)
  OBVIOUS
<1> HIDE DEF V1, E2, W2, K2
<1>9. /\ InPlace(E2, W2, K2, tasks)
      /\ Stored' = Post(V1, WireBox(n, k), MailMarks(mail))
  <2>1. MailMarks(mail) \cap Marks(Contents(Ep, wire, K2, tasks, got)) = {}
    BY <1>7, <1>8
  <2>2. /\ InPlace(E2, W2, K2, tasks)
        /\ Contents(E2, W2, K2, tasks, got)
               = Post(Contents(Ep, wire, K2, tasks, got), WireBox(n, k), MailMarks(mail))
    BY <1>3, <1>4, <1>6, <1>7, <2>1, Departs
  <2> QED BY <1>5, <1>8, <2>2
<1>10. Once(Stored') /\ Marks(Stored') = Marks(Stored)
  <2> DEFINE a == MailMarks(mail)
             b == WireBox(n, k)
  <2>1. b \in Boxes
    BY <1>3, InWireBox
  <2>2. MailMarks(msg) \in SUBSET AllMarks
    BY <1>3, MailMarked DEF RoutedMail
  <2>3. a \in SUBSET AllMarks /\ a \cap Marks(V1) = {} /\ Marks(V1) \cup a = Marks(Stored)
        /\ Stored' = Post(V1, b, a)
    BY <1>6, <1>7, <1>9, <2>2
  <2> HIDE DEF a, b
  <2>4. Once(Post(V1, b, a)) /\ Marks(Post(V1, b, a)) = Marks(V1) \cup a
    BY <1>7, <2>1, <2>3, PostOnce
  <2> QED BY <2>3, <2>4
<1>11. SameTalk(wire, W2)
  <2> SUFFICES ASSUME NEW l \in Nodes, NEW o \in Nodes, NEW i \in DOMAIN W2[l][o],
                      W2[l][o][i].type # "USER"
               PROVE  \E j \in DOMAIN wire[l][o] : W2[l][o][i] = wire[l][o][j]
    BY DEF SameTalk
  <2>1. Wrote(wire, W2, Q2, n, k, mail) /\ k \in Nodes
    BY <1>3
  <2>2. \/ i \in DOMAIN wire[l][o] /\ W2[l][o][i] = wire[l][o][i]
        \/ l = n /\ o = k /\ W2[l][o][i] = mail
    BY <2>1, WroteFacts
  <2> QED BY <1>3, <2>2
<1>12. CallsBound(channels, K2)
  <2>1. \A l \in Nodes : \A u \in AllThreads :
            call[l][u].msgs # << >> => call[l][u].op # "idle" /\ call[l][u].dest \in DOMAIN channels[l]
    BY DEF PlaceInv, CallsBound
  <2> SUFFICES ASSUME NEW l \in Nodes, NEW u \in AllThreads, K2[l][u].msgs # << >>
               PROVE  K2[l][u].op # "idle" /\ K2[l][u].dest \in DOMAIN channels[l]
    BY DEF CallsBound
  <2>2. CASE l # n \/ u # t
    BY <1>3, <2>1, <2>2
  <2>3. CASE l = n /\ u = t
    BY <1>3, <2>1, <2>3
  <2> QED BY <2>2, <2>3
<1>13. \A e \in Ends : names[e] \in Nat /\ names'[e] \in Nat /\ names[e] <= names'[e]
  BY <1>2 DEF IndInv, NamesSound
<1>14. InPlace(endpoints', wire', call', tasks') /\ CallsBound(channels, call') /\ SameTalk(wire, wire')
  BY <1>2, <1>9, <1>11, <1>12 DEF E2, W2, K2
<1> QED BY <1>2, <1>10, <1>13, <1>14, PlacedAgain
=============================================================================
