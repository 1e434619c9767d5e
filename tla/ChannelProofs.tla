---------------------------- MODULE ChannelProofs ----------------------------
(***************************************************************************)
(* `Channel` proved for any threads, sizes of messages, chunks, sockets and  *)
(* number of messages.  The inductive invariant `IndInv` says that what is   *)
(* read, held in the buffer and in the socket, followed by what the one      *)
(* unfinished thread has yet to write, is the stream of the messages that    *)
(* were begun; that the lock, or the handshake before anyone else may send,  *)
(* keeps a second thread from writing meanwhile; and that the reader takes   *)
(* headers and bodies at the places where the stream has them.               *)
(***************************************************************************)
EXTENDS Channel, FlattenLemmas
-----------------------------------------------------------------------------
(* Bytes and their sequences.                                               *)

\* The bytes of Channel: a message's number and a place in it.
Octets == Nat \X Nat
-----------------------------------------------------------------------------
(* Sequences of bytes.                                                      *)

\* Concatenation is associative.
LEMMA Associative ==
    \A s, t, u \in Seq(Octets) : (s \o t) \o u = s \o (t \o u)
BY ConcatAssociative

\* It yields a sequence of bytes as long as both together.
LEMMA ConcatType ==
    \A s, t \in Seq(Octets) : s \o t \in Seq(Octets) /\ Len(s \o t) = Len(s) + Len(t)
BY ConcatProperties

\* It has a unit.
LEMMA ConcatEmpty ==
    << >> \in Seq(Octets) /\ \A s \in Seq(Octets) : s \o << >> = s /\ << >> \o s = s
BY ConcatEmptySeq, EmptySeq

\* It can be cancelled on the left.
LEMMA CancelLeft ==
    \A s, t, u \in Seq(Octets) : s \o t = s \o u => t = u
BY ConcatSimplifications
-----------------------------------------------------------------------------
(* Bytes.                                                                   *)

\* Bytes(m, from, to) is the sequence of the bytes of message m from one place to another.
LEMMA BytesProperties ==
    ASSUME NEW m \in Nat, NEW from \in Nat, NEW to \in Nat, from <= to + 1
    PROVE  /\ Bytes(m, from, to) \in Seq(Octets)
           /\ Len(Bytes(m, from, to)) = to - from + 1
           /\ \A i \in 1..(to - from + 1) : Bytes(m, from, to)[i] = <<m, from + i - 1>>
<1> DEFINE n == to - from + 1
<1>1. n \in Nat
  OBVIOUS
<1>2. \A i \in 1..n : <<m, from + i - 1>> \in Octets
  BY DEF Octets
<1>3. Bytes(m, from, to) = [i \in 1..n |-> <<m, from + i - 1>>]
  BY DEF Bytes, Byte
<1> HIDE DEF n
<1>4. [i \in 1..n |-> <<m, from + i - 1>>] \in Seq(Octets)
  BY <1>1, <1>2
<1>5. Len([i \in 1..n |-> <<m, from + i - 1>>]) = n
  BY <1>1
<1> QED BY <1>3, <1>4, <1>5 DEF n

\* Bytes of a message up to some place and those after it are all of them.
IsCut(m, from, k, to) == Bytes(m, from, to) = Bytes(m, from, k) \o Bytes(m, k + 1, to)

\* Wherever it is cut.
LEMMA BytesSplit ==
    ASSUME NEW m \in Nat, NEW from \in Nat, NEW k \in Nat, NEW to \in Nat,
           from <= k + 1, k <= to
    PROVE  IsCut(m, from, k, to)
<1> DEFINE a == Bytes(m, from, k)
           b == Bytes(m, k + 1, to)
           c == Bytes(m, from, to)
<1>1. /\ a \in Seq(Octets) /\ Len(a) = k - from + 1
      /\ \A i \in 1..(k - from + 1) : a[i] = <<m, from + i - 1>>
  BY BytesProperties, ZenonT(60)
<1>2. /\ b \in Seq(Octets) /\ Len(b) = to - (k + 1) + 1
      /\ \A i \in 1..(to - (k + 1) + 1) : b[i] = <<m, (k + 1) + i - 1>>
  <2>1. m \in Nat /\ to \in Nat /\ k + 1 \in Nat /\ k + 1 <= to + 1
    OBVIOUS
  <2> QED BY <2>1, BytesProperties, ZenonT(60)
<1>3. /\ c \in Seq(Octets) /\ Len(c) = to - from + 1
      /\ \A i \in 1..(to - from + 1) : c[i] = <<m, from + i - 1>>
  <2>1. from <= to + 1
    OBVIOUS
  <2> QED BY <2>1, BytesProperties, ZenonT(60)
<1> HIDE DEF a, b, c
<1>4. Len(a) + Len(b) = Len(c)
  BY <1>1, <1>2, <1>3
<1>5. /\ a \o b \in Seq(Octets) /\ Len(a \o b) = Len(c)
      /\ \A i \in 1..Len(c) : (a \o b)[i] = IF i <= Len(a) THEN a[i] ELSE b[i - Len(a)]
  BY <1>1, <1>2, <1>4, ConcatProperties, SMTT(30)
<1>6. \A i \in 1..Len(c) : (a \o b)[i] = c[i]
  <2> SUFFICES ASSUME NEW i \in 1..Len(c) PROVE (a \o b)[i] = c[i]
    OBVIOUS
  <2>1. CASE i <= Len(a)
    <3>1. i \in 1..(k - from + 1) /\ i \in 1..(to - from + 1)
      BY <2>1, <1>1, <1>3
    <3>2. a[i] = <<m, from + i - 1>> /\ c[i] = <<m, from + i - 1>>
      BY <3>1, <1>1, <1>3
    <3> QED BY <2>1, <3>2, <1>5
  <2>2. CASE ~(i <= Len(a))
    <3>1. i - Len(a) \in 1..(to - (k + 1) + 1) /\ (k + 1) + (i - Len(a)) - 1 = from + i - 1
      BY <2>2, <1>1, <1>3
    <3> QED BY <3>1, <2>2, <1>2, <1>3, <1>5
  <2> QED BY <2>1, <2>2
<1>7. a \o b = c
  BY <1>3, <1>5, <1>6, SeqEqual
<1> QED BY <1>7 DEF IsCut, a, b, c

\* No bytes.
LEMMA BytesEmpty ==
    ASSUME NEW m \in Nat, NEW to \in Nat
    PROVE  Bytes(m, to + 1, to) = << >>
<1>1. m \in Nat /\ to \in Nat /\ to + 1 \in Nat /\ to + 1 <= to + 1 /\ to - (to + 1) + 1 = 0
  OBVIOUS
<1>2. Bytes(m, to + 1, to) \in Seq(Octets) /\ Len(Bytes(m, to + 1, to)) = to - (to + 1) + 1
  BY <1>1, BytesProperties, Zenon
<1> QED BY <1>1, <1>2, EmptySeq

\* The first bytes of a message.
LEMMA FirstBytes ==
    ASSUME NEW m \in Nat, NEW k \in Nat
    PROVE  /\ Bytes(m, 1, k) \in Seq(Octets) /\ Len(Bytes(m, 1, k)) = k
           /\ \A i \in 1..k : Bytes(m, 1, k)[i] = <<m, i>>
<1>1. m \in Nat /\ k \in Nat /\ 1 \in Nat /\ 1 <= k + 1
  OBVIOUS
<1>2. /\ Bytes(m, 1, k) \in Seq(Octets) /\ Len(Bytes(m, 1, k)) = k - 1 + 1
      /\ \A i \in 1..(k - 1 + 1) : Bytes(m, 1, k)[i] = <<m, 1 + i - 1>>
  BY <1>1, BytesProperties, Zenon
<1>3. k - 1 + 1 = k /\ \A i \in 1..k : 1 + i - 1 = i
  OBVIOUS
<1> QED BY <1>2, <1>3
-----------------------------------------------------------------------------
(* Streams of whole messages.                                               *)

\* The bytes of the first n messages of the given sizes.
Upto(sizes, n) == FlattenSeq([m \in 1..n |-> Bytes(m, 1, sizes[m])])

\* They are a sequence of bytes, none for no message, and those of one message
\* more end with its bytes.
LEMMA UptoProperties ==
    ASSUME NEW sizes \in Seq(Nat), NEW n \in 0..Len(sizes)
    PROVE  /\ Upto(sizes, n) \in Seq(Octets)
           /\ Upto(sizes, 0) = << >>
           /\ n < Len(sizes) =>
                 Upto(sizes, n + 1) = Upto(sizes, n) \o Bytes(n + 1, 1, sizes[n + 1])
<1> DEFINE S(k) == [m \in 1..k |-> Bytes(m, 1, sizes[m])]
<1>1. \A k \in 0..Len(sizes) : S(k) \in Seq(Seq(Octets)) /\ Len(S(k)) = k
  <2> SUFFICES ASSUME NEW k \in 0..Len(sizes)
               PROVE  S(k) \in Seq(Seq(Octets)) /\ Len(S(k)) = k
    OBVIOUS
  <2>1. \A m \in 1..k : Bytes(m, 1, sizes[m]) \in Seq(Octets)
    <3> SUFFICES ASSUME NEW m \in 1..k PROVE Bytes(m, 1, sizes[m]) \in Seq(Octets)
      OBVIOUS
    <3>1. m \in Nat /\ sizes[m] \in Nat
      OBVIOUS
    <3> QED BY <3>1, FirstBytes, Zenon
  <2>2. k \in Nat
    OBVIOUS
  <2> QED BY <2>1, <2>2
<1>2. Upto(sizes, n) \in Seq(Octets)
  BY <1>1, FlattenType DEF Upto
<1>3. Upto(sizes, 0) = << >>
  <2>1. S(0) = << >>
    BY <1>1, EmptySeq
  <2> QED BY <2>1, FlattenEmpty DEF Upto
<1>4. ASSUME n < Len(sizes)
      PROVE  Upto(sizes, n + 1) = Upto(sizes, n) \o Bytes(n + 1, 1, sizes[n + 1])
  <2> DEFINE x == Bytes(n + 1, 1, sizes[n + 1])
  <2>1. x \in Seq(Octets)
    <3>1. n + 1 \in Nat /\ sizes[n + 1] \in Nat
      BY <1>4
    <3> QED BY <3>1, FirstBytes, Zenon
  <2>2. S(n + 1) = Append(S(n), x)
    <3>1. /\ S(n) \in Seq(Seq(Octets)) /\ Len(S(n)) = n /\ n \in Nat
          /\ S(n + 1) \in Seq(Seq(Octets)) /\ Len(S(n + 1)) = n + 1
      BY <1>1, <1>4
    <3>2. /\ Append(S(n), x) \in Seq(Seq(Octets)) /\ Len(Append(S(n), x)) = n + 1
          /\ \A i \in 1..n : Append(S(n), x)[i] = S(n)[i]
          /\ Append(S(n), x)[n + 1] = x
      <4> HIDE DEF S, x
      <4> QED BY <3>1, <2>1, AppendProperties
    <3>3. \A i \in 1..n : S(n)[i] = S(n + 1)[i]
      BY <3>1
    <3>4. S(n + 1)[n + 1] = x
      BY <3>1
    <3> HIDE DEF S, x
    <3>5. \A i \in 1..(n + 1) : S(n + 1)[i] = Append(S(n), x)[i]
      BY <3>1, <3>2, <3>3, <3>4
    <3> QED BY <3>1, <3>2, <3>5, SeqEqual
  <2>3. FlattenSeq(Append(S(n), x)) = FlattenSeq(S(n)) \o x
    <3>1. S(n) \in Seq(Seq(Octets))
      BY <1>1
    <3> HIDE DEF S, x
    <3> QED BY <3>1, <2>1, FlattenAppend
  <2>4. Upto(sizes, n + 1) = FlattenSeq(S(n + 1)) /\ Upto(sizes, n) = FlattenSeq(S(n))
    BY DEF Upto
  <2> QED BY <2>2, <2>3, <2>4
<1> QED BY <1>2, <1>3, <1>4

\* A message more in the sequence of sizes changes nothing before it.
LEMMA UptoAppend ==
    ASSUME NEW sizes \in Seq(Nat), NEW size \in Nat, NEW n \in 0..Len(sizes)
    PROVE  Upto(Append(sizes, size), n) = Upto(sizes, n)
<1>1. \A m \in 1..n : Append(sizes, size)[m] = sizes[m]
  BY AppendProperties
<1>2. [m \in 1..n |-> Bytes(m, 1, Append(sizes, size)[m])] = [m \in 1..n |-> Bytes(m, 1, sizes[m])]
  BY <1>1
<1> QED BY <1>2 DEF Upto

\* The bytes of some messages begin with those of fewer.
LEMMA UptoSplit ==
    ASSUME NEW sizes \in Seq(Nat), NEW n \in 0..Len(sizes)
    PROVE  \A k \in 0..n : \E u \in Seq(Octets) : Upto(sizes, n) = Upto(sizes, k) \o u
<1> DEFINE T == {j \in Nat : j <= n => \E u \in Seq(Octets) : Upto(sizes, n) = Upto(sizes, n - j) \o u}
<1>1. 0 \in T
  <2>1. Upto(sizes, n) = Upto(sizes, n - 0) \o << >>
    <3>1. n - 0 = n /\ Upto(sizes, n) \in Seq(Octets)
      BY UptoProperties
    <3> QED BY <3>1, ConcatEmptySeq
  <2> QED BY <2>1, EmptySeq
<1>2. ASSUME NEW j \in Nat, j \in T PROVE j + 1 \in T
  <2>0. SUFFICES (j + 1 <= n) =>
                     \E u \in Seq(Octets) : Upto(sizes, n) = Upto(sizes, n - (j + 1)) \o u
    <3>1. j + 1 \in Nat
      OBVIOUS
    <3> QED BY <3>1
  <2> HAVE j + 1 <= n
  <2> DEFINE k == n - (j + 1)
  <2>1. k \in 0..Len(sizes) /\ k < Len(sizes) /\ n - j = k + 1 /\ j <= n /\ k + 1 \in Nat
    OBVIOUS
  <2>2. PICK u \in Seq(Octets) : Upto(sizes, n) = Upto(sizes, k + 1) \o u
    BY <1>2, <2>1
  <2> DEFINE x == Bytes(k + 1, 1, sizes[k + 1])
  <2>3. Upto(sizes, k + 1) = Upto(sizes, k) \o x /\ Upto(sizes, k) \in Seq(Octets)
    <3> HIDE DEF k
    <3> QED BY <2>1, UptoProperties
  <2>4. x \in Seq(Octets)
    <3>1. sizes[k + 1] \in Nat
      BY <2>1
    <3> HIDE DEF k
    <3> QED BY <3>1, <2>1, FirstBytes, Zenon
  <2> DEFINE a == Upto(sizes, k)
  <2> HIDE DEF k, x
  <2>5. Upto(sizes, n) = a \o (x \o u)
    <3>1. Upto(sizes, n) = (a \o x) \o u /\ a \in Seq(Octets)
      BY <2>2, <2>3
    <3> HIDE DEF a
    <3>2. (a \o x) \o u = a \o (x \o u)
      BY <3>1, <2>2, <2>4, Associative, Zenon
    <3> QED BY <3>1, <3>2
  <2>6. x \o u \in Seq(Octets)
    BY <2>2, <2>4, ConcatProperties
  <2> QED BY <2>5, <2>6 DEF k, a
<1>3. Nat \subseteq T
  <2> HIDE DEF T
  <2> QED BY <1>1, <1>2, NatSetInduction
<1>4. SUFFICES ASSUME NEW k \in 0..n
               PROVE  \E u \in Seq(Octets) : Upto(sizes, n) = Upto(sizes, k) \o u
  OBVIOUS
<1>5. n - k \in Nat /\ n - k <= n /\ n - (n - k) = k
  OBVIOUS
<1>6. n - k \in T
  <2> HIDE DEF T
  <2> QED BY <1>3, <1>5
<1> QED BY <1>5, <1>6

\* Two ways to cut a sequence in two agree on what both have in front.
LEMMA SameFront ==
    ASSUME NEW s \in Seq(Octets), NEW t \in Seq(Octets), NEW b \in Seq(Octets),
           NEW u \in Seq(Octets), s \o t = b \o u,
           NEW k \in Nat, k <= Len(s), k <= Len(b)
    PROVE  SubSeq(s, 1, k) = SubSeq(b, 1, k)
<1>1. Len(s) \in Nat /\ Len(t) \in Nat /\ Len(b) \in Nat /\ Len(u) \in Nat
  BY LenProperties
<1>2. \A i \in 1..Len(s) + Len(t) : (s \o t)[i] = IF i <= Len(s) THEN s[i] ELSE t[i - Len(s)]
  BY ConcatProperties
<1>3. \A i \in 1..Len(b) + Len(u) : (b \o u)[i] = IF i <= Len(b) THEN b[i] ELSE u[i - Len(b)]
  BY ConcatProperties
<1>4. \A i \in 1..k : s[i] = b[i]
  <2> SUFFICES ASSUME NEW i \in 1..k PROVE s[i] = b[i]
    OBVIOUS
  <2>1. i \in 1..Len(s) + Len(t) /\ i <= Len(s) /\ i \in 1..Len(b) + Len(u) /\ i <= Len(b)
    BY <1>1
  <2> QED BY <2>1, <1>2, <1>3
<1>5. \A i \in 1..k : s[i] \in Octets /\ b[i] \in Octets
  BY <1>1, ElementOfSeq
<1>6. /\ SubSeq(s, 1, k) \in Seq(Octets) /\ Len(SubSeq(s, 1, k)) = k
      /\ \A i \in 1..k : SubSeq(s, 1, k)[i] = s[i]
  BY <1>5, SubSeqProperties
<1>7. /\ SubSeq(b, 1, k) \in Seq(Octets) /\ Len(SubSeq(b, 1, k)) = k
      /\ \A i \in 1..k : SubSeq(b, 1, k)[i] = b[i]
  BY <1>5, SubSeqProperties
<1> QED BY <1>4, <1>6, <1>7, SeqEqual

\* The first bytes of a message.
LEMMA FrontOfBytes ==
    ASSUME NEW m \in Nat, NEW size \in Nat, NEW k \in 0..size
    PROVE  SubSeq(Bytes(m, 1, size), 1, k) = Bytes(m, 1, k)
<1> DEFINE b == Bytes(m, 1, size)
           c == Bytes(m, 1, k)
<1>1. /\ b \in Seq(Octets) /\ Len(b) = size /\ \A i \in 1..size : b[i] = <<m, i>>
  BY FirstBytes
<1>2. /\ c \in Seq(Octets) /\ Len(c) = k /\ \A i \in 1..k : c[i] = <<m, i>>
  <2>1. k \in Nat
    OBVIOUS
  <2> QED BY <2>1, FirstBytes
<1> HIDE DEF b, c
<1>3. \A i \in 1..k : b[i] \in Octets
  BY <1>1, ElementOfSeq
<1>4. /\ SubSeq(b, 1, k) \in Seq(Octets) /\ Len(SubSeq(b, 1, k)) = k
      /\ \A i \in 1..k : SubSeq(b, 1, k)[i] = b[i]
  BY <1>3, SubSeqProperties
<1>5. \A i \in 1..k : SubSeq(b, 1, k)[i] = c[i]
  <2>1. \A i \in 1..k : i \in 1..size
    OBVIOUS
  <2> QED BY <2>1, <1>1, <1>2, <1>4, Zenon
<1>6. SubSeq(b, 1, k) = c
  BY <1>2, <1>4, <1>5, SeqEqual
<1> QED BY <1>6 DEF b, c

\* What recvmsg takes of a socket and what it leaves there.
LEMMA CutInTwo ==
    ASSUME NEW s \in Seq(Octets), NEW k \in 0..Len(s)
    PROVE  /\ SubSeq(s, 1, k) \in Seq(Octets) /\ Len(SubSeq(s, 1, k)) = k
           /\ SubSeq(s, 1 + k, Len(s)) \in Seq(Octets)
           /\ s = SubSeq(s, 1, k) \o SubSeq(s, 1 + k, Len(s))
<1>1. Len(s) \in Nat /\ k \in Nat /\ \A i \in 1..Len(s) : s[i] \in Octets
  BY LenProperties, ElementOfSeq
<1>2. SubSeq(s, 1, k) \in Seq(Octets) /\ Len(SubSeq(s, 1, k)) = k
  <2>1. \A i \in 1..k : s[i] \in Octets
    BY <1>1
  <2> QED BY <1>1, <2>1, SubSeqProperties
<1>3. SubSeq(s, 1 + k, Len(s)) \in Seq(Octets)
  <2>1. \A i \in (1 + k)..Len(s) : s[i] \in Octets
    BY <1>1
  <2> QED BY <1>1, <2>1, SubSeqProperties
<1>4. SubSeq(s, 1, k) \o SubSeq(s, k + 1, Len(s)) = SubSeq(s, 1, Len(s))
  <2>1. 1 \in 1..Len(s) + 1 /\ k \in 1 - 1..Len(s) /\ Len(s) \in k..Len(s)
    BY <1>1
  <2> QED BY <2>1, ConcatAdjacentSubSeq
<1>5. SubSeq(s, 1, Len(s)) = s /\ 1 + k = k + 1
  BY SubSeqFull
<1> QED BY <1>2, <1>3, <1>4, <1>5
-----------------------------------------------------------------------------
(* A stream of messages of the given sizes, of which r are read.            *)

\* After the first r of n messages there comes the next one.
LEMMA NextMessage ==
    ASSUME NEW sizes \in Seq(Nat), NEW n \in 0..Len(sizes), NEW r \in 0..n, r < n
    PROVE  \E u \in Seq(Octets) :
              Upto(sizes, n) = Upto(sizes, r) \o (Bytes(r + 1, 1, sizes[r + 1]) \o u)
<1> DEFINE R == Upto(sizes, r)
           B == Bytes(r + 1, 1, sizes[r + 1])
<1>1. r + 1 \in 0..n /\ r \in 0..Len(sizes) /\ r < Len(sizes) /\ r + 1 \in Nat
  OBVIOUS
<1>2. PICK u \in Seq(Octets) : Upto(sizes, n) = Upto(sizes, r + 1) \o u
  BY <1>1, UptoSplit
<1>3. R \in Seq(Octets) /\ Upto(sizes, r + 1) = R \o B
  BY <1>1, UptoProperties
<1>4. B \in Seq(Octets)
  <2>1. sizes[r + 1] \in Nat
    BY <1>1
  <2> QED BY <1>1, <2>1, FirstBytes, Zenon
<1> HIDE DEF R, B
<1>5. Upto(sizes, n) = R \o (B \o u)
  <2>1. Upto(sizes, n) = (R \o B) \o u
    BY <1>2, <1>3
  <2>2. (R \o B) \o u = R \o (B \o u)
    BY <1>2, <1>3, <1>4, Associative, Zenon
  <2> QED BY <2>1, <2>2
<1> QED BY <1>5 DEF R, B

\* If all are read, nothing is held or still to be written.
LEMMA AllRead ==
    ASSUME NEW sizes \in Seq(Nat), NEW n \in 0..Len(sizes),
           NEW held \in Seq(Octets), NEW rest \in Seq(Octets),
           Upto(sizes, n) = (Upto(sizes, n) \o held) \o rest
    PROVE  held = << >> /\ rest = << >>
<1> DEFINE R == Upto(sizes, n)
<1>1. R \in Seq(Octets)
  BY UptoProperties
<1> HIDE DEF R
<1>2. R = R \o (held \o rest)
  <2>1. R = (R \o held) \o rest
    BY DEF R
  <2>2. (R \o held) \o rest = R \o (held \o rest)
    BY <1>1, Associative, Zenon
  <2> QED BY <2>1, <2>2
<1>3. held \o rest \in Seq(Octets)
  BY ConcatType, Zenon
<1>4. held \o rest = << >>
  BY <1>1, <1>2, <1>3, ConcatEqualIffEmpty
<1> QED BY <1>4, ConcatEqualIffEmpty

\* What is held in the buffer and the socket, and what is still to be written,
\* begins with the next message.
LEMMA AfterRead ==
    ASSUME NEW sizes \in Seq(Nat), NEW n \in 0..Len(sizes), NEW r \in 0..n, r < n,
           NEW held \in Seq(Octets), NEW rest \in Seq(Octets),
           Upto(sizes, n) = (Upto(sizes, r) \o held) \o rest
    PROVE  \E u \in Seq(Octets) : held \o rest = Bytes(r + 1, 1, sizes[r + 1]) \o u
<1> DEFINE R == Upto(sizes, r)
           B == Bytes(r + 1, 1, sizes[r + 1])
<1>1. R \in Seq(Octets)
  <2>1. r \in 0..Len(sizes)
    OBVIOUS
  <2> QED BY <2>1, UptoProperties
<1>2. Upto(sizes, n) = R \o (held \o rest)
  <2> HIDE DEF R
  <2>1. (R \o held) \o rest = R \o (held \o rest)
    BY <1>1, Associative, Zenon
  <2> QED BY <2>1 DEF R
<1>3. held \o rest \in Seq(Octets)
  BY ConcatType, Zenon
<1>4. PICK u \in Seq(Octets) : Upto(sizes, n) = R \o (B \o u)
  BY NextMessage
<1>5. B \in Seq(Octets)
  <2>1. r + 1 \in Nat /\ sizes[r + 1] \in Nat
    OBVIOUS
  <2> QED BY <2>1, FirstBytes, Zenon
<1> HIDE DEF R, B
<1>6. R \o (held \o rest) = R \o (B \o u)
  BY <1>2, <1>4
<1>7. B \o u \in Seq(Octets)
  BY <1>5, ConcatType, Zenon
<1>8. held \o rest = B \o u
  BY <1>1, <1>3, <1>6, <1>7, CancelLeft, Zenon
<1> QED BY <1>8 DEF B

\* A sequence and the front of another.
LEMMA FrontOfConcat ==
    ASSUME NEW b \in Seq(Octets), NEW s \in Seq(Octets), NEW k \in 0..Len(s)
    PROVE  SubSeq(b \o s, 1, Len(b) + k) = b \o SubSeq(s, 1, k)
<1> DEFINE a == SubSeq(s, 1, k)
           c == SubSeq(s, 1 + k, Len(s))
           h == b \o a
<1>1. a \in Seq(Octets) /\ Len(a) = k /\ c \in Seq(Octets) /\ s = a \o c
  BY CutInTwo
<1> HIDE DEF a, c
<1>2. h \in Seq(Octets) /\ Len(h) = Len(b) + k /\ b \o s \in Seq(Octets)
  BY <1>1, ConcatProperties
<1>3. b \o s = h \o c
  BY <1>1, Associative, Zenon
<1>4. (b \o s) \o << >> = b \o s /\ << >> \in Seq(Octets)
  BY <1>2, ConcatEmpty, Zenon
<1>5. Len(b \o s) = Len(b) + Len(s) /\ Len(b) \in Nat /\ Len(s) \in Nat /\ k \in Nat /\ k <= Len(s)
  BY ConcatProperties, LenProperties
<1> HIDE DEF h
<1> DEFINE w == b \o s
<1>6. /\ h \o c = w \o << >> /\ w \in Seq(Octets) /\ Len(b) + k \in Nat
      /\ Len(b) + k <= Len(h) /\ Len(b) + k <= Len(w)
  BY <1>2, <1>3, <1>4, <1>5
<1>7. SubSeq(h, 1, Len(b) + k) = SubSeq(w, 1, Len(b) + k)
  <2> HIDE DEF w
  <2> DEFINE z == Len(b) + k
  <2>1. z \in Nat /\ z <= Len(h) /\ z <= Len(w)
    BY <1>6
  <2> HIDE DEF z
  <2>2. SubSeq(h, 1, z) = SubSeq(w, 1, z)
    BY <2>1, <1>1, <1>2, <1>4, <1>6, SameFront
  <2> QED BY <2>2 DEF z
<1>8. SubSeq(h, 1, Len(h)) = h
  BY <1>2, SubSeqFull
<1> QED BY <1>2, <1>7, <1>8 DEF h, a

\* If k bytes are there and the next message has as many, they are its first.
LEMMA FrontHeld ==
    ASSUME NEW sizes \in Seq(Nat), NEW n \in 0..Len(sizes), NEW r \in 0..n,
           NEW held \in Seq(Octets), NEW rest \in Seq(Octets),
           Upto(sizes, n) = (Upto(sizes, r) \o held) \o rest,
           NEW k \in Nat \ {0}, k <= Len(held), r < n => k <= sizes[r + 1]
    PROVE  r < n /\ SubSeq(held, 1, k) = Bytes(r + 1, 1, k)
<1>1. r < n
  <2>1. r # n
    <3>1. Len(held) # 0
      BY LenProperties
    <3>2. held # << >>
      BY <3>1, EmptySeq
    <3> QED BY <3>2, AllRead
  <2> QED BY <2>1
<1>1a. \E u \in Seq(Octets) : held \o rest = Bytes(r + 1, 1, sizes[r + 1]) \o u
  BY <1>1, AfterRead, ZenonT(60)
<1> DEFINE size == sizes[r + 1]
           B == Bytes(r + 1, 1, size)
<1>2. r + 1 \in Nat /\ size \in Nat /\ k <= size /\ k \in 0..size
  BY <1>1
<1>3. PICK u \in Seq(Octets) : held \o rest = B \o u
  BY <1>1a
<1>4. B \in Seq(Octets) /\ Len(B) = size
  BY <1>2, FirstBytes
<1>5. SubSeq(B, 1, k) = Bytes(r + 1, 1, k)
  <2> HIDE DEF size
  <2> QED BY <1>2, FrontOfBytes
<1> HIDE DEF B, size
<1>6. SubSeq(held, 1, k) = SubSeq(B, 1, k)
  BY <1>2, <1>3, <1>4, SameFront
<1> QED BY <1>1, <1>5, <1>6

\* If messages are written whole, those that are there at all are there whole.
LEMMA WholeHeld ==
    ASSUME NEW sizes \in Seq(Nat), NEW n \in 0..Len(sizes), NEW r \in 0..n,
           NEW held \in Seq(Octets), NEW rest \in Seq(Octets),
           Upto(sizes, n) = (Upto(sizes, r) \o held) \o rest,
           rest = << >> \/ rest = Bytes(n, 1, sizes[n]),
           held # << >>
    PROVE  r < n /\ sizes[r + 1] <= Len(held)
<1>1. r < n
  <2>1. r # n
    BY AllRead
  <2> QED BY <2>1
<1> DEFINE R == Upto(sizes, r)
           B == Bytes(r + 1, 1, sizes[r + 1])
<1>2. r + 1 \in Nat /\ sizes[r + 1] \in Nat
  <2>1. r + 1 \in 1..Len(sizes) /\ r + 1 \in Nat
    BY <1>1
  <2> QED BY <2>1, ElementOfSeq
<1>3. B \in Seq(Octets) /\ Len(B) = sizes[r + 1]
  BY <1>2, FirstBytes
<1>4. R \in Seq(Octets)
  <2>1. r \in 0..Len(sizes)
    OBVIOUS
  <2> QED BY <2>1, UptoProperties
<1>5. ASSUME NEW u \in Seq(Octets), held = B \o u PROVE sizes[r + 1] <= Len(held)
  <2> HIDE DEF B
  <2>1. Len(held) = Len(B) + Len(u) /\ Len(u) \in Nat
    BY <1>3, <1>5, ConcatProperties, LenProperties
  <2> QED BY <2>1, <1>2, <1>3
<1>6. CASE rest = << >>
  <2>1. PICK u \in Seq(Octets) : held \o rest = B \o u
    BY <1>1, AfterRead
  <2>2. held \o rest = held
    BY <1>6, ConcatEmpty, Zenon
  <2> QED BY <2>1, <2>2, <1>1, <1>5
<1>7. CASE rest = Bytes(n, 1, sizes[n])
  <2> DEFINE m == n - 1
  <2>1. m \in 0..Len(sizes) /\ m < Len(sizes) /\ m + 1 = n /\ r \in 0..m
    BY <1>1, SMTT(30)
  <2>2. Upto(sizes, n) = Upto(sizes, m) \o rest /\ Upto(sizes, m) \in Seq(Octets)
    <3> HIDE DEF m
    <3> QED BY <1>7, <2>1, UptoProperties
  <2>3. R \o held = Upto(sizes, m)
    <3>1. (R \o held) \o rest = Upto(sizes, m) \o rest
      BY <2>2
    <3>2. R \o held \in Seq(Octets)
      <4> HIDE DEF R
      <4> QED BY <1>4, ConcatType, Zenon
    <3> HIDE DEF R, m
    <3> QED BY <2>2, <3>1, <3>2, ConcatSimplifications
  <2>4. r < m
    <3>1. r # m
      <4>1. ASSUME r = m PROVE FALSE
        <5>1. R \o held = R
          BY <2>3, <4>1
        <5> HIDE DEF R
        <5> QED BY <5>1, <1>4, ConcatEqualIffEmpty
      <4> QED BY <4>1
    <3> QED BY <3>1, <2>1
  <2>5. PICK u \in Seq(Octets) : Upto(sizes, m) = R \o (B \o u)
    <3> HIDE DEF m
    <3> QED BY <2>1, <2>4, NextMessage
  <2>6. B \o u \in Seq(Octets)
    <3> HIDE DEF B
    <3> QED BY <1>3, ConcatType, Zenon
  <2>7. held = B \o u
    <3>1. R \o held = R \o (B \o u)
      BY <2>3, <2>5
    <3> HIDE DEF R, B
    <3> QED BY <1>4, <2>6, <3>1, CancelLeft, Zenon
  <2> QED BY <2>7, <1>1, <1>5
<1> QED BY <1>6, <1>7
-----------------------------------------------------------------------------
(* The invariant.                                                           *)

\* Thread t of p has begun to write a message and not written all of it.
Unfinished(p, t) == pc[p][t] = "write" /\ written[p][t] < SizeOf(p, t)

\* What thread t of p has yet to write of its message.
Rest(p, t) == Bytes(message[p][t], written[p][t] + 1, SizeOf(p, t))

\* How many messages of p the other process has received.
Heard(p) == Len(received[Other(p)])

\* What p has begun to write, and what of it the kernel has taken.
Begun(p) == Upto(sent[p], Len(sent[p]))
Carried(p) == (Upto(sent[p], Heard(p)) \o buffer[Other(p)]) \o socket[p]

\* The types of the variables.
Types ==
    /\ setup \in AllSetups
    /\ started \subseteq Processes /\ joined \subseteq Processes
    /\ alive \subseteq Processes /\ killed \subseteq Processes
    /\ lock \in [Processes -> (UNION {AllThreads(p) : p \in Processes}) \cup {NoThread}]
    /\ socket \in [Processes -> Seq(Octets)] /\ buffer \in [Processes -> Seq(Octets)]
    /\ sent \in [Processes -> Seq(Sizes \cup {ControlSize})]
    /\ received \in [Processes -> Seq(Nat)]
    /\ DOMAIN pc = Processes /\ DOMAIN message = Processes /\ DOMAIN written = Processes
    /\ \A p \in Processes :
          /\ pc[p] \in [AllThreads(p) -> {"idle", "relay", "write", "body"}]
          /\ message[p] \in [AllThreads(p) -> Nat]
          /\ written[p] \in [AllThreads(p) -> Nat]

\* The stream p began is what it has carried so far and what its unfinished
\* thread, if there is one, has yet to write.
StreamKept(p) ==
    /\ (\A t \in AllThreads(p) : ~Unfinished(p, t)) => Begun(p) = Carried(p)
    /\ \A t \in AllThreads(p) :
          Unfinished(p, t) => Begun(p) = Carried(p) \o Rest(p, t)

\* A thread writes a message that was begun; the unfinished one is alone, writes
\* the newest and has the lock, unless that is its process's first message.
\* If the kernel takes each message at once, no message is half written.
WritersApart(p) ==
    /\ \A t \in AllThreads(p) :
          pc[p][t] = "write" => /\ message[p][t] \in 1..Len(sent[p])
                                /\ written[p][t] <= SizeOf(p, t)
    /\ \A t \in AllThreads(p) :
          Unfinished(p, t) => /\ message[p][t] = Len(sent[p])
                              /\ lock[p] = t \/ Len(sent[p]) = 1
    /\ \A t, u \in AllThreads(p) : Unfinished(p, t) /\ Unfinished(p, u) => t = u
    /\ (\A i \in 1..Len(sent[p]) : sent[p][i] <= Chunk)
          => \A t \in AllThreads(p) : Unfinished(p, t) => written[p][t] = 0

\* The messages of p are received in the order in which they were begun; a
\* header in the buffer is that of the next.
ReadInOrder(p) ==
    /\ received[Other(p)] = [i \in 1..Heard(p) |-> i]
    /\ Heard(p) <= Len(sent[p])
    /\ pc[Other(p)][IO] = "body" =>
          Heard(p) < Len(sent[p]) /\ buffer[Other(p)] = Bytes(Heard(p) + 1, 1, HeaderSize)
    /\ pc[Other(p)][IO] # "body" => buffer[Other(p)] = << >>

\* How the channel starts: the invitation first, its receipt before the
\* acceptance, the acceptance written before the invitee sends anything else,
\* and received before the inviter does.
Handshake ==
    /\ Inviter \notin started => sent[Inviter] = << >>
    /\ Inviter \in joined => received[Inviter] # << >>
    /\ \A p \in Processes : pc[p][IO] \in {"relay", "write"} => received[p] # << >>
    /\ pc[Invitee][IO] = "relay" => Invitee \in joined
    /\ received[Invitee] # << >> /\ pc[Invitee][IO] # "write" => Invitee \in joined
    /\ sent[Invitee] # << >> => received[Invitee] # << >>
    /\ Invitee \in joined => sent[Invitee] # << >>
    /\ Invitee \in joined /\ Len(sent[Invitee]) = 1 =>
          \A t \in AllThreads(Invitee) : ~Unfinished(Invitee, t)
    /\ Invitee \notin joined =>
          \A t \in AllThreads(Invitee) \ {IO} : pc[Invitee][t] # "write"

\* No process sends more than it may, a message that waits for the lock counted.
WithinBounds == \A p \in Processes : Len(sent[p]) + Waiting(p) <= MaxMessages[p]

\* What each direction of the channel keeps.
Directions == \A p \in Processes : StreamKept(p) /\ WritersApart(p) /\ ReadInOrder(p)

\* The inductive invariant.
IndInv ==
    /\ Types
    /\ Directions
    /\ Handshake
    /\ WithinBounds
    /\ AbortsForCause
-----------------------------------------------------------------------------
(* The two processes.                                                       *)

\* Each process is the other of the other.
LEMMA Others ==
    /\ Inviter \in Processes /\ Invitee \in Processes /\ Inviter # Invitee
    /\ Other(Inviter) = Invitee /\ Other(Invitee) = Inviter
    /\ \A p \in Processes : /\ Other(p) \in Processes /\ Other(p) # p /\ Other(Other(p)) = p
                            /\ \A q \in Processes : q = p \/ q = Other(p)
                            /\ IO \in AllThreads(p)
<1>1. Inviter \in Processes /\ Invitee \in Processes /\ Inviter # Invitee
  BY ProcessesAssumption DEF Processes
<1>2. Other(Inviter) = Invitee
  <2>1. \A q \in Processes : q # Inviter <=> q = Invitee
    BY <1>1 DEF Processes
  <2> QED BY <1>1, <2>1 DEF Other
<1>3. Other(Invitee) = Inviter
  <2>1. \A q \in Processes : q # Invitee <=> q = Inviter
    BY <1>1 DEF Processes
  <2> QED BY <1>1, <2>1 DEF Other
<1>4. \A p \in Processes : p = Inviter \/ p = Invitee
  BY DEF Processes
<1>5. \A p \in Processes : IO \in AllThreads(p)
  BY DEF AllThreads
<1> QED BY <1>1, <1>2, <1>3, <1>4, <1>5

\* Sizes are numbers, larger than a header's.
LEMMA SizesAreNumbers ==
    ASSUME Types, NEW p \in Processes
    PROVE  /\ sent[p] \in Seq(Nat) /\ Len(sent[p]) \in Nat
           /\ HeaderSize \in Nat \ {0} /\ Chunk \in Nat \ {0}
           /\ \A i \in 1..Len(sent[p]) : sent[p][i] \in Nat /\ HeaderSize < sent[p][i]
<1>1. \A s \in Sizes \cup {ControlSize} : s \in Nat /\ HeaderSize < s
  <2>1. HeaderSize \in Nat /\ Chunk \in Nat
    BY SizesAssumption
  <2>2. ControlSize \in Nat
    BY SizesAssumption
  <2> QED BY <2>1, <2>2, SizesAssumption
<1>2. Sizes \cup {ControlSize} \subseteq Nat
  BY <1>1
<1>3. sent[p] \in Seq(Sizes \cup {ControlSize})
  BY DEF Types
<1>4. sent[p] \in Seq(Nat) /\ Len(sent[p]) \in Nat
  BY <1>2, <1>3, SeqMonotonic, LenProperties
<1>5. \A i \in 1..Len(sent[p]) : sent[p][i] \in Sizes \cup {ControlSize}
  BY <1>3, ElementOfSeq
<1>6. HeaderSize \in Nat \ {0} /\ Chunk \in Nat \ {0}
  BY <1>1, SizesAssumption
<1> QED BY <1>1, <1>4, <1>5, <1>6
-----------------------------------------------------------------------------
(* The parts of a step.                                                     *)

\* A thread goes on.
LEMMA GotoEffect ==
    ASSUME Types, NEW p \in Processes, NEW t \in AllThreads(p), NEW from,
           NEW to \in {"idle", "relay", "write", "body"}, Goto(p, t, from, to)
    PROVE  /\ p \in alive /\ pc[p][t] = from
           /\ DOMAIN pc' = Processes
           /\ \A q \in Processes : pc'[q] \in [AllThreads(q) -> {"idle", "relay", "write", "body"}]
           /\ pc'[p][t] = to /\ \A u \in AllThreads(p) : u # t => pc'[p][u] = pc[p][u]
           /\ pc'[Other(p)] = pc[Other(p)]
<1>1. p \in alive /\ pc[p][t] = from /\ pc' = [pc EXCEPT ![p][t] = to]
  BY DEF Goto
<1>2. DOMAIN pc = Processes /\ \A q \in Processes : pc[q] \in [AllThreads(q) -> {"idle", "relay", "write", "body"}]
  BY DEF Types
<1>3. pc' = [pc EXCEPT ![p] = [pc[p] EXCEPT ![t] = to]]
  BY <1>1
<1>4. pc'[p] = [pc[p] EXCEPT ![t] = to] /\ DOMAIN pc' = Processes
  BY <1>2, <1>3
<1>5. \A q \in Processes : q # p => pc'[q] = pc[q]
  BY <1>2, <1>3
<1>6. pc'[p] \in [AllThreads(p) -> {"idle", "relay", "write", "body"}]
  BY <1>2, <1>4
<1>7. pc'[p][t] = to /\ \A u \in AllThreads(p) : u # t => pc'[p][u] = pc[p][u]
  BY <1>2, <1>4
<1> QED BY <1>1, <1>2, <1>4, <1>5, <1>6, <1>7, Others

\* A thread begins to write.
LEMMA BeginEffect ==
    ASSUME Types, NEW p \in Processes, NEW t \in AllThreads(p),
           NEW size \in Sizes \cup {ControlSize}, Begin(p, t, size)
    PROVE  /\ DOMAIN message' = Processes /\ DOMAIN written' = Processes
           /\ \A q \in Processes : /\ message'[q] \in [AllThreads(q) -> Nat]
                                   /\ written'[q] \in [AllThreads(q) -> Nat]
           /\ sent' \in [Processes -> Seq(Sizes \cup {ControlSize})]
           /\ message'[p][t] = Len(sent[p]) + 1 /\ written'[p][t] = 0
           /\ \A u \in AllThreads(p) :
                 u # t => message'[p][u] = message[p][u] /\ written'[p][u] = written[p][u]
           /\ sent'[p] = Append(sent[p], size)
           /\ message'[Other(p)] = message[Other(p)] /\ written'[Other(p)] = written[Other(p)]
           /\ sent'[Other(p)] = sent[Other(p)]
<1>1. /\ message' = [message EXCEPT ![p] = [message[p] EXCEPT ![t] = Len(sent[p]) + 1]]
      /\ written' = [written EXCEPT ![p] = [written[p] EXCEPT ![t] = 0]]
      /\ sent' = [sent EXCEPT ![p] = Append(sent[p], size)]
  BY DEF Begin
<1>2. /\ DOMAIN message = Processes /\ DOMAIN written = Processes
      /\ sent \in [Processes -> Seq(Sizes \cup {ControlSize})]
      /\ \A q \in Processes : /\ message[q] \in [AllThreads(q) -> Nat]
                              /\ written[q] \in [AllThreads(q) -> Nat]
  BY DEF Types
<1>3. Len(sent[p]) + 1 \in Nat
  BY <1>2, SizesAreNumbers
<1>4. /\ message'[p] = [message[p] EXCEPT ![t] = Len(sent[p]) + 1]
      /\ written'[p] = [written[p] EXCEPT ![t] = 0]
      /\ sent'[p] = Append(sent[p], size)
      /\ DOMAIN message' = Processes /\ DOMAIN written' = Processes
  BY <1>1, <1>2
<1>5. \A q \in Processes : q # p => /\ message'[q] = message[q] /\ written'[q] = written[q]
                                    /\ sent'[q] = sent[q]
  BY <1>1, <1>2
<1>6. message'[p] \in [AllThreads(p) -> Nat] /\ written'[p] \in [AllThreads(p) -> Nat]
  BY <1>2, <1>3, <1>4
<1>7. /\ message'[p][t] = Len(sent[p]) + 1 /\ written'[p][t] = 0
      /\ \A u \in AllThreads(p) :
            u # t => message'[p][u] = message[p][u] /\ written'[p][u] = written[p][u]
  BY <1>2, <1>4
<1>8. sent' \in [Processes -> Seq(Sizes \cup {ControlSize})]
  <2>1. Append(sent[p], size) \in Seq(Sizes \cup {ControlSize})
    <3>1. sent[p] \in Seq(Sizes \cup {ControlSize})
      BY <1>2
    <3> QED BY <3>1, AppendProperties
  <2> QED BY <1>1, <1>2, <2>1
<1> QED BY <1>2, <1>4, <1>5, <1>6, <1>7, <1>8, Others

\* A thread writes no longer, or not more.
LEMMA UnfinishedFrame ==
    ASSUME NEW p \in Processes, NEW t,
           sent'[p] = sent[p], message'[p] = message[p], written'[p] = written[p],
           pc'[p][t] = "write" <=> pc[p][t] = "write"
    PROVE  /\ Unfinished(p, t)' <=> Unfinished(p, t)
           /\ Rest(p, t)' = Rest(p, t)
           /\ SizeOf(p, t)' = SizeOf(p, t)
<1>1. SizeOf(p, t)' = SizeOf(p, t)
  BY DEF SizeOf
<1> QED BY <1>1 DEF Unfinished, Rest

\* The writing of p goes on as before, or its reading does.
WritersSame(p) ==
    /\ sent'[p] = sent[p] /\ message'[p] = message[p] /\ written'[p] = written[p]
    /\ lock'[p] = lock[p]
    /\ \A t \in AllThreads(p) : pc'[p][t] = "write" <=> pc[p][t] = "write"
ReaderSame(p) ==
    /\ buffer'[p] = buffer[p] /\ received'[p] = received[p]
    /\ pc'[p][IO] = "body" <=> pc[p][IO] = "body"

\* A step that leaves the writers alone keeps them apart.
LEMMA WritersKept ==
    ASSUME NEW p \in Processes, WritersApart(p), WritersSame(p)
    PROVE  WritersApart(p)'
<1>1. \A t \in AllThreads(p) : /\ Unfinished(p, t)' <=> Unfinished(p, t)
                               /\ SizeOf(p, t)' = SizeOf(p, t)
                               /\ pc'[p][t] = "write" <=> pc[p][t] = "write"
  BY UnfinishedFrame DEF WritersSame
<1>2. /\ sent'[p] = sent[p] /\ message'[p] = message[p] /\ written'[p] = written[p]
      /\ lock'[p] = lock[p]
  BY DEF WritersSame
<1> QED BY <1>1, <1>2 DEF WritersApart

\* A step that leaves both sides alone changes nothing between them.
LEMMA DirectionKept ==
    ASSUME NEW p \in Processes, StreamKept(p), WritersApart(p), ReadInOrder(p),
           WritersSame(p), ReaderSame(Other(p)), socket'[p] = socket[p]
    PROVE  StreamKept(p)' /\ WritersApart(p)' /\ ReadInOrder(p)'
<1>1. \A t \in AllThreads(p) : /\ Unfinished(p, t)' <=> Unfinished(p, t)
                               /\ Rest(p, t)' = Rest(p, t)
  BY UnfinishedFrame DEF WritersSame
<1>2. Begun(p)' = Begun(p) /\ Carried(p)' = Carried(p)
  BY DEF Begun, Carried, Heard, WritersSame, ReaderSame, Upto
<1>3. StreamKept(p)'
  BY <1>1, <1>2 DEF StreamKept
<1>4. ReadInOrder(p)'
  BY DEF ReadInOrder, Heard, WritersSame, ReaderSame
<1> QED BY <1>3, <1>4, WritersKept

\* What is heard are the first messages of those that are begun.
LEMMA HeardInRange ==
    ASSUME Types, NEW p \in Processes, ReadInOrder(p)
    PROVE  Heard(p) \in 0..Len(sent[p])
<1>1. received[Other(p)] \in Seq(Nat)
  BY Others DEF Types
<1>2. Heard(p) \in Nat
  BY <1>1, LenProperties DEF Heard
<1> QED BY <1>2, SizesAreNumbers DEF ReadInOrder

\* What is carried are bytes.
LEMMA CarriedType ==
    ASSUME Types, NEW p \in Processes, ReadInOrder(p)
    PROVE  /\ Begun(p) \in Seq(Octets) /\ Carried(p) \in Seq(Octets)
           /\ Upto(sent[p], Heard(p)) \in Seq(Octets)
           /\ buffer[Other(p)] \in Seq(Octets) /\ socket[p] \in Seq(Octets)
<1>1. buffer[Other(p)] \in Seq(Octets) /\ socket[p] \in Seq(Octets)
  BY Others DEF Types
<1>2. Upto(sent[p], Heard(p)) \in Seq(Octets)
  BY HeardInRange, SizesAreNumbers, UptoProperties
<1>3. Begun(p) \in Seq(Octets)
  <2>1. Len(sent[p]) \in 0..Len(sent[p]) /\ sent[p] \in Seq(Nat)
    BY SizesAreNumbers
  <2> QED BY <2>1, UptoProperties DEF Begun
<1>4. Carried(p) \in Seq(Octets)
  BY <1>1, <1>2, ConcatType, Zenon DEF Carried
<1> QED BY <1>1, <1>2, <1>3, <1>4

\* A message is begun when no other is unfinished: it is the newest, and all of
\* it is still to be written.
LEMMA BeginKeeps ==
    ASSUME Types, NEW p \in Processes, NEW t \in AllThreads(p),
           NEW size \in Sizes \cup {ControlSize}, Begin(p, t, size),
           StreamKept(p), WritersApart(p), ReadInOrder(p),
           \A u \in AllThreads(p) : ~Unfinished(p, u),
           pc'[p][t] = "write", \A u \in AllThreads(p) : u # t => pc'[p][u] = pc[p][u],
           lock'[p] = t \/ sent[p] = << >>,
           ReaderSame(Other(p)), socket'[p] = socket[p]
    PROVE  StreamKept(p)' /\ WritersApart(p)' /\ ReadInOrder(p)'
<1> DEFINE n == Len(sent[p])
<1>1. /\ sent[p] \in Seq(Nat) /\ n \in Nat /\ size \in Nat /\ size # 0
      /\ \A i \in 1..n : sent[p][i] \in Nat
  <2>1. size \in Nat /\ size # 0
    BY SizesAssumption
  <2> QED BY <2>1, SizesAreNumbers
<1>2. /\ sent'[p] = Append(sent[p], size) /\ Len(sent'[p]) = n + 1
      /\ sent'[p] \in Seq(Nat)
      /\ sent'[p][n + 1] = size /\ \A i \in 1..n : sent'[p][i] = sent[p][i]
  <2>1. sent'[p] = Append(sent[p], size)
    BY BeginEffect
  <2> QED BY <2>1, <1>1, AppendProperties
<1>3. /\ message'[p][t] = n + 1 /\ written'[p][t] = 0
      /\ \A u \in AllThreads(p) :
            u # t => message'[p][u] = message[p][u] /\ written'[p][u] = written[p][u]
  BY BeginEffect
<1> HIDE DEF n
<1>4. \A u \in AllThreads(p) : u # t /\ pc'[p][u] = "write" =>
         /\ message'[p][u] \in 1..n /\ SizeOf(p, u)' = SizeOf(p, u)
         /\ written'[p][u] = SizeOf(p, u)
  <2> SUFFICES ASSUME NEW u \in AllThreads(p), u # t, pc'[p][u] = "write"
               PROVE  /\ message'[p][u] \in 1..n /\ SizeOf(p, u)' = SizeOf(p, u)
                      /\ written'[p][u] = SizeOf(p, u)
    OBVIOUS
  <2>1. pc[p][u] = "write" /\ message'[p][u] = message[p][u] /\ written'[p][u] = written[p][u]
    BY <1>3
  <2>2. message[p][u] \in 1..n /\ written[p][u] <= SizeOf(p, u)
    BY <2>1 DEF WritersApart, n
  <2>3. SizeOf(p, u)' = SizeOf(p, u) /\ SizeOf(p, u) \in Nat
    BY <1>1, <1>2, <2>1, <2>2 DEF SizeOf
  <2>4. written[p][u] \in Nat /\ ~(written[p][u] < SizeOf(p, u))
    BY <2>1 DEF Types, Unfinished
  <2> QED BY <2>1, <2>2, <2>3, <2>4
<1>5. \A u \in AllThreads(p) : u # t => ~Unfinished(p, u)'
  <2> SUFFICES ASSUME NEW u \in AllThreads(p), u # t, Unfinished(p, u)' PROVE FALSE
    OBVIOUS
  <2>1. pc'[p][u] = "write" /\ written'[p][u] < SizeOf(p, u)'
    BY DEF Unfinished
  <2>2. written[p][u] \in Nat /\ written'[p][u] = written[p][u]
    BY <1>3 DEF Types
  <2> QED BY <1>4, <2>1, <2>2
<1>6. SizeOf(p, t)' = size /\ Unfinished(p, t)' /\ Rest(p, t)' = Bytes(n + 1, 1, size)
  <2>1. SizeOf(p, t)' = size
    BY <1>2, <1>3 DEF SizeOf
  <2>2. written'[p][t] + 1 = 1 /\ written'[p][t] < size
    BY <1>1, <1>3
  <2> QED BY <1>3, <2>1, <2>2 DEF Unfinished, Rest
<1>7. Carried(p)' = Carried(p)
  <2>1. Heard(p)' = Heard(p) /\ buffer'[Other(p)] = buffer[Other(p)]
    BY DEF ReaderSame, Heard
  <2>2. Upto(sent'[p], Heard(p)) = Upto(sent[p], Heard(p))
    BY <1>1, <1>2, HeardInRange, UptoAppend
  <2>3. Upto(sent[p], Heard(p))' = Upto(sent'[p], Heard(p))
    BY <2>1 DEF Upto
  <2> QED BY <2>1, <2>2, <2>3 DEF Carried
<1>8. Begun(p)' = Begun(p) \o Bytes(n + 1, 1, size)
  <2>1. Begun(p)' = Upto(sent'[p], n + 1)
    BY <1>2 DEF Begun, Upto
  <2>2. Upto(sent'[p], n + 1) = Upto(sent'[p], n) \o Bytes(n + 1, 1, size)
    <3>1. n \in 0..Len(sent'[p]) /\ n < Len(sent'[p])
      BY <1>1, <1>2
    <3>2. Upto(sent'[p], n + 1) = Upto(sent'[p], n) \o Bytes(n + 1, 1, sent'[p][n + 1])
      BY <3>1, <1>2, UptoProperties
    <3> QED BY <3>2, <1>2
  <2>3. Upto(sent'[p], n) = Begun(p)
    <3>1. n \in 0..Len(sent[p])
      BY <1>1 DEF n
    <3> QED BY <3>1, <1>1, <1>2, UptoAppend DEF Begun, n
  <2> QED BY <2>1, <2>2, <2>3
<1>9. StreamKept(p)'
  <2>1. Begun(p) = Carried(p)
    BY DEF StreamKept
  <2>2. Begun(p)' = Carried(p)' \o Rest(p, t)'
    BY <2>1, <1>6, <1>7, <1>8
  <2> QED BY <2>2, <1>5, <1>6 DEF StreamKept
<1>10. WritersApart(p)'
  <2>1. \A u \in AllThreads(p) : pc'[p][u] = "write" =>
           message'[p][u] \in 1..Len(sent'[p]) /\ written'[p][u] <= SizeOf(p, u)'
    <3> SUFFICES ASSUME NEW u \in AllThreads(p), pc'[p][u] = "write"
                 PROVE  message'[p][u] \in 1..Len(sent'[p]) /\ written'[p][u] <= SizeOf(p, u)'
      OBVIOUS
    <3>1. CASE u = t
      BY <3>1, <1>1, <1>2, <1>3, <1>6
    <3>2. CASE u # t
      <4>1. message'[p][u] \in 1..n /\ written'[p][u] = SizeOf(p, u)'
        BY <3>2, <1>4
      <4>2. written'[p][u] \in Nat
        BY <3>2, <1>3 DEF Types
      <4>3. message'[p][u] \in 1..Len(sent'[p])
        BY <4>1, <1>1, <1>2
      <4> QED BY <4>1, <4>2, <4>3
    <3> QED BY <3>1, <3>2
  <2>2. lock'[p] = t \/ Len(sent'[p]) = 1
    <3>1. sent[p] = << >> => n = 0
      BY EmptySeq DEF n
    <3> QED BY <3>1, <1>1, <1>2
  <2> QED BY <2>1, <2>2, <1>2, <1>3, <1>5 DEF WritersApart
<1>11. ReadInOrder(p)'
  <2>1. Heard(p)' = Heard(p) /\ Heard(p) \in Nat
    BY HeardInRange DEF ReaderSame, Heard
  <2> QED BY <2>1, <1>1, <1>2 DEF ReadInOrder, ReaderSame, n
<1> QED BY <1>9, <1>10, <1>11

\* The smaller of two numbers.
LEMMA SmallerOfTwo ==
    ASSUME NEW a \in Nat, NEW b \in Nat
    PROVE  /\ Min({a, b}) = (IF a <= b THEN a ELSE b)
           /\ Min({a, b}) \in Nat /\ Min({a, b}) <= a /\ Min({a, b}) <= b
<1> DEFINE m == IF a <= b THEN a ELSE b
<1>1. m \in {a, b} /\ \A y \in {a, b} : m <= y
  OBVIOUS
<1>2. \A x \in {a, b} : (\A y \in {a, b} : x <= y) => x = m
  OBVIOUS
<1>3. Min({a, b}) = m
  BY <1>1, <1>2 DEF Min
<1> QED BY <1>3

\* What the kernel takes at once are bytes of the message.
LEMMA ChunkIsBytes ==
    ASSUME Types, NEW p \in Processes, NEW t \in AllThreads(p), WritersApart(p),
           Unfinished(p, t)
    PROVE  /\ NextChunk(p, t) \in Nat
           /\ Bytes(message[p][t], written[p][t] + 1, NextChunk(p, t)) \in Seq(Octets)
<1> DEFINE m == message[p][t]
           w == written[p][t]
           k == NextChunk(p, t)
           size == SizeOf(p, t)
<1>1. w < size /\ m \in 1..Len(sent[p])
  BY DEF WritersApart, Unfinished
<1>2. w \in Nat /\ size \in Nat /\ m \in Nat /\ Chunk \in Nat \ {0}
  BY <1>1, SizesAreNumbers DEF Types, SizeOf
<1>3. k \in Nat /\ w + 1 \in Nat /\ w + 1 <= k + 1
  <2>1. w + Chunk \in Nat
    BY <1>2
  <2>2. k = (IF size <= w + Chunk THEN size ELSE w + Chunk)
    BY <2>1, <1>2, SmallerOfTwo DEF NextChunk
  <2> HIDE DEF w, size, k
  <2> QED BY <2>2, <1>1, <1>2
<1> HIDE DEF m, w, k
<1>4. Bytes(m, w + 1, k) \in Seq(Octets)
  BY <1>2, <1>3, BytesProperties, Zenon
<1> QED BY <1>3, <1>4 DEF m, w, k

\* The kernel takes a chunk of what the unfinished thread has left.
LEMMA ChunkKeeps ==
    ASSUME Types, NEW p \in Processes, NEW t \in AllThreads(p), WriteChunk(p, t),
           StreamKept(p), WritersApart(p), ReadInOrder(p)
    PROVE  StreamKept(p)' /\ WritersApart(p)' /\ ReadInOrder(p)'
<1> DEFINE m == message[p][t]
           w == written[p][t]
           k == NextChunk(p, t)
           size == SizeOf(p, t)
<1>1. /\ pc[p][t] = "write" /\ w < size /\ Unfinished(p, t)
      /\ socket' = [socket EXCEPT ![p] = socket[p] \o Bytes(m, w + 1, k)]
      /\ written' = [written EXCEPT ![p] = [written[p] EXCEPT ![t] = k]]
      /\ pc' = pc /\ lock' = lock /\ message' = message /\ sent' = sent
      /\ buffer' = buffer /\ received' = received
  BY DEF WriteChunk, Writing, Unfinished, readerVars
<1>2. m \in 1..Len(sent[p]) /\ m = Len(sent[p]) /\ (lock[p] = t \/ Len(sent[p]) = 1)
  BY <1>1 DEF WritersApart
<1>3. w \in Nat /\ size \in Nat /\ m \in Nat /\ Chunk \in Nat \ {0}
  BY <1>2, SizesAreNumbers DEF Types, SizeOf
<1>4. k \in Nat /\ k <= size /\ w < k /\ k = (IF size <= w + Chunk THEN size ELSE w + Chunk)
  <2>1. w + Chunk \in Nat
    BY <1>3
  <2>2. k = (IF size <= w + Chunk THEN size ELSE w + Chunk)
    BY <2>1, <1>3, SmallerOfTwo DEF NextChunk
  <2> QED BY <1>1, <1>3, <2>2
<1>5. /\ socket'[p] = socket[p] \o Bytes(m, w + 1, k)
      /\ written'[p][t] = k /\ \A u \in AllThreads(p) : u # t => written'[p][u] = written[p][u]
  BY <1>1 DEF Types
<1> HIDE DEF m, w, k, size
<1>6. \A u \in AllThreads(p) : SizeOf(p, u)' = SizeOf(p, u)
  BY <1>1 DEF SizeOf
<1>7. \A u \in AllThreads(p) : u # t => ~Unfinished(p, u)'
  <2>1. \A u \in AllThreads(p) : u # t => ~Unfinished(p, u)
    BY <1>1 DEF WritersApart
  <2>2. \A u \in AllThreads(p) : u # t => (Unfinished(p, u)' <=> Unfinished(p, u))
    BY <1>1, <1>5, <1>6 DEF Unfinished
  <2> QED BY <2>1, <2>2
<1>8. /\ Unfinished(p, t)' <=> k < size
      /\ Rest(p, t)' = Bytes(m, k + 1, size)
  BY <1>1, <1>5, <1>6 DEF Unfinished, Rest, m, size
<1>9. Carried(p)' = Carried(p) \o Bytes(m, w + 1, k)
  <2> DEFINE x == Bytes(m, w + 1, k)
             a == Upto(sent[p], Heard(p)) \o buffer[Other(p)]
  <2>1. x \in Seq(Octets)
    <3>1. w + 1 \in Nat /\ w + 1 <= k + 1
      BY <1>3, <1>4
    <3> QED BY <1>3, <1>4, <3>1, BytesProperties, Zenon
  <2>2. a \in Seq(Octets) /\ socket[p] \in Seq(Octets)
    BY CarriedType, ConcatType, Zenon
  <2>3. a' = a
    BY <1>1 DEF Heard, Upto
  <2>4. Carried(p)' = a \o (socket[p] \o x)
    BY <1>5, <2>3 DEF Carried
  <2>5. Carried(p) = a \o socket[p]
    BY DEF Carried
  <2> HIDE DEF a, x
  <2>6. (a \o socket[p]) \o x = a \o (socket[p] \o x)
    BY <2>1, <2>2, Associative, Zenon
  <2> QED BY <2>4, <2>5, <2>6 DEF x
<1>10. Begun(p)' = Carried(p)' \o Bytes(m, k + 1, size)
  <2> DEFINE x == Bytes(m, w + 1, k)
             y == Bytes(m, k + 1, size)
             c == Carried(p)
  <2>1. Begun(p)' = Begun(p)
    BY <1>1 DEF Begun, Upto
  <2>2. Begun(p) = c \o Bytes(m, w + 1, size)
    BY <1>1 DEF StreamKept, Rest, m, w, size
  <2>3. Bytes(m, w + 1, size) = x \o y
    <3> DEFINE f == w + 1
    <3>1. f \in Nat /\ f <= k + 1 /\ m \in Nat /\ k \in Nat /\ size \in Nat /\ k <= size
      BY <1>3, <1>4
    <3> HIDE DEF f
    <3>2. IsCut(m, f, k, size)
      BY <3>1, BytesSplit
    <3> QED BY <3>2 DEF f, IsCut
  <2>4. x \in Seq(Octets) /\ y \in Seq(Octets)
    <3>1. w + 1 \in Nat /\ w + 1 <= k + 1 /\ k + 1 \in Nat /\ k + 1 <= size + 1
      BY <1>3, <1>4
    <3> QED BY <1>3, <1>4, <3>1, BytesProperties, Zenon
  <2>5. c \in Seq(Octets)
    BY CarriedType
  <2> HIDE DEF c, x, y
  <2>6. (c \o x) \o y = c \o (x \o y)
    BY <2>4, <2>5, Associative, Zenon
  <2>7. Carried(p)' = c \o x
    BY <1>9 DEF c, x
  <2>8. Begun(p)' = Carried(p)' \o y
    BY <2>1, <2>2, <2>3, <2>6, <2>7
  <2> QED BY <2>8 DEF y
<1>11. StreamKept(p)'
  <2>1. Unfinished(p, t)' => Begun(p)' = Carried(p)' \o Rest(p, t)'
    BY <1>8, <1>10
  <2>2. ~Unfinished(p, t)' => Begun(p)' = Carried(p)'
    <3> SUFFICES ASSUME ~Unfinished(p, t)' PROVE Begun(p)' = Carried(p)'
      OBVIOUS
    <3>1. k = size
      BY <1>3, <1>4, <1>8
    <3>2. Bytes(m, k + 1, size) = << >>
      BY <1>3, <3>1, BytesEmpty, Zenon
    <3>3. Carried(p)' \in Seq(Octets)
      <4>1. Bytes(m, w + 1, k) \in Seq(Octets)
        <5>1. w + 1 \in Nat /\ w + 1 <= k + 1
          BY <1>3, <1>4
        <5> QED BY <1>3, <1>4, <5>1, BytesProperties, Zenon
      <4> QED BY <1>9, <4>1, CarriedType, ConcatType, Zenon
    <3> QED BY <1>10, <3>2, <3>3, ConcatEmpty, Zenon
  <2> QED BY <2>1, <2>2, <1>7 DEF StreamKept
<1>12. WritersApart(p)'
  <2>1. \A u \in AllThreads(p) : pc'[p][u] = "write" =>
           message'[p][u] \in 1..Len(sent'[p]) /\ written'[p][u] <= SizeOf(p, u)'
    <3> SUFFICES ASSUME NEW u \in AllThreads(p), pc'[p][u] = "write"
                 PROVE  message'[p][u] \in 1..Len(sent'[p]) /\ written'[p][u] <= SizeOf(p, u)'
      OBVIOUS
    <3>1. CASE u = t
      BY <3>1, <1>1, <1>2, <1>4, <1>5, <1>6 DEF m, size
    <3>2. CASE u # t
      BY <3>2, <1>1, <1>5, <1>6 DEF WritersApart
    <3> QED BY <3>1, <3>2
  <2>2. message'[p][t] = Len(sent'[p]) /\ (lock'[p] = t \/ Len(sent'[p]) = 1)
    BY <1>1, <1>2 DEF m
  <2>3. (\A i \in 1..Len(sent'[p]) : sent'[p][i] <= Chunk) => ~Unfinished(p, t)'
    <3> SUFFICES ASSUME \A i \in 1..Len(sent[p]) : sent[p][i] <= Chunk
                 PROVE  ~(k < size)
      BY <1>1, <1>8
    <3>1. w = 0
      BY <1>1 DEF WritersApart, w
    <3>2. size <= Chunk
      BY <1>2 DEF size, SizeOf, m
    <3> QED BY <3>1, <3>2, <1>3, <1>4
  <2> QED BY <2>1, <2>2, <2>3, <1>7 DEF WritersApart
<1>13. ReadInOrder(p)'
  BY <1>1 DEF ReadInOrder, Heard
<1> QED BY <1>11, <1>12, <1>13

\* A thread that has written all of its message is done with it.
LEMMA WroteKeeps ==
    ASSUME Types, NEW p \in Processes, NEW t \in AllThreads(p), Wrote(p, t),
           StreamKept(p), WritersApart(p), ReadInOrder(p)
    PROVE  StreamKept(p)' /\ WritersApart(p)' /\ ReadInOrder(p)'
<1>1. /\ pc[p][t] = "write" /\ pc'[p][t] \in {"idle", "relay"} /\ pc'[Other(p)] = pc[Other(p)]
      /\ \A u \in AllThreads(p) : u # t => pc'[p][u] = pc[p][u]
  <2>1. CASE Goto(p, t, "write", "idle")
    BY <2>1, GotoEffect
  <2>2. CASE Goto(p, t, "write", "relay")
    BY <2>2, GotoEffect
  <2> QED BY <2>1, <2>2 DEF Wrote
<1>2. /\ written[p][t] = SizeOf(p, t)
      /\ lock' = IF lock[p] = t THEN [lock EXCEPT ![p] = NoThread] ELSE lock
      /\ written' = [written EXCEPT ![p] = [written[p] EXCEPT ![t] = 0]]
      /\ message' = [message EXCEPT ![p] = [message[p] EXCEPT ![t] = 0]]
      /\ socket' = socket /\ sent' = sent /\ buffer' = buffer /\ received' = received
  BY DEF Wrote, readerVars
<1>3. ~Unfinished(p, t) /\ ~Unfinished(p, t)'
  <2>1. SizeOf(p, t) \in Nat
    <3>1. message[p][t] \in 1..Len(sent[p])
      BY <1>1 DEF WritersApart
    <3> QED BY <3>1, SizesAreNumbers DEF SizeOf
  <2> QED BY <2>1, <1>1, <1>2 DEF Unfinished
<1>4. \A u \in AllThreads(p) : u # t =>
         /\ message'[p][u] = message[p][u] /\ written'[p][u] = written[p][u]
         /\ lock[p] = u => lock'[p] = u
  BY <1>2 DEF Types
<1>5. \A u \in AllThreads(p) : u # t =>
         /\ SizeOf(p, u)' = SizeOf(p, u) /\ Rest(p, u)' = Rest(p, u)
         /\ Unfinished(p, u)' <=> Unfinished(p, u)
  BY <1>1, <1>2, <1>4 DEF SizeOf, Rest, Unfinished
<1>6. Begun(p)' = Begun(p) /\ Carried(p)' = Carried(p)
  BY <1>2 DEF Begun, Carried, Heard, Upto
<1>7. StreamKept(p)'
  BY <1>3, <1>5, <1>6 DEF StreamKept
<1>8. WritersApart(p)'
  <2>1. sent'[p] = sent[p]
    BY <1>2
  <2> QED BY <2>1, <1>1, <1>3, <1>4, <1>5 DEF WritersApart
<1>9. ReadInOrder(p)'
  BY <1>1, <1>2, Others DEF ReadInOrder, Heard
<1> QED BY <1>7, <1>8, <1>9

\* An unfinished thread has something left to write: all of its message, if it
\* has written nothing yet.
LEMMA RestProperties ==
    ASSUME Types, NEW p \in Processes, WritersApart(p),
           NEW t \in AllThreads(p), Unfinished(p, t)
    PROVE  /\ Rest(p, t) \in Seq(Octets) /\ Len(Rest(p, t)) \in Nat \ {0}
           /\ written[p][t] = 0 => Rest(p, t) = Bytes(Len(sent[p]), 1, sent[p][Len(sent[p])])
<1> DEFINE m == message[p][t]
           w == written[p][t]
           size == SizeOf(p, t)
           f == w + 1
<1>1. m \in 1..Len(sent[p]) /\ m = Len(sent[p]) /\ w < size
  BY DEF WritersApart, Unfinished
<1>2. w \in Nat /\ m \in Nat /\ size \in Nat /\ size = sent[p][m]
  BY <1>1, SizesAreNumbers DEF Types, SizeOf
<1>3. f \in Nat /\ f <= size + 1 /\ size - f + 1 \in Nat \ {0} /\ (w = 0 => f = 1)
  <2>1. w \in Nat /\ size \in Nat /\ w < size
    BY <1>1, <1>2
  <2> HIDE DEF w, size
  <2> QED BY <2>1
<1>4. Rest(p, t) = Bytes(m, f, size)
  BY DEF Rest
<1> HIDE DEF m, w, size, f
<1>5. Bytes(m, f, size) \in Seq(Octets) /\ Len(Bytes(m, f, size)) = size - f + 1
  BY <1>2, <1>3, BytesProperties, ZenonT(60)
<1> QED BY <1>1, <1>2, <1>3, <1>4, <1>5 DEF w

\* What is read and held of p's stream, and what is still to be written of it.
LEMMA Outstanding ==
    ASSUME Types, NEW p \in Processes, StreamKept(p), WritersApart(p), ReadInOrder(p)
    PROVE  /\ buffer[Other(p)] \o socket[p] \in Seq(Octets)
           /\ \E rest \in Seq(Octets) :
              /\ Upto(sent[p], Len(sent[p])) =
                    (Upto(sent[p], Heard(p)) \o (buffer[Other(p)] \o socket[p])) \o rest
              /\ (\A t \in AllThreads(p) : ~Unfinished(p, t)) => rest = << >>
              /\ \A t \in AllThreads(p) : Unfinished(p, t) => rest = Rest(p, t)
<1> DEFINE a == Upto(sent[p], Heard(p))
           b == buffer[Other(p)]
           s == socket[p]
           held == b \o s
<1>1. a \in Seq(Octets) /\ b \in Seq(Octets) /\ s \in Seq(Octets)
  BY CarriedType
<1>2. Carried(p) = (a \o b) \o s /\ Begun(p) = Upto(sent[p], Len(sent[p]))
  BY DEF Carried, Begun
<1> HIDE DEF a, b, s
<1>3. held \in Seq(Octets) /\ Carried(p) = a \o held
  BY <1>1, <1>2, Associative, ConcatType, ZenonT(60)
<1>4. a \o held \in Seq(Octets)
  BY <1>1, <1>3, ConcatType, Zenon
<1>5. CASE \A t \in AllThreads(p) : ~Unfinished(p, t)
  <2>1. Begun(p) = (a \o held) \o << >>
    <3>1. Begun(p) = a \o held
      BY <1>3, <1>5 DEF StreamKept
    <3> QED BY <3>1, <1>4, ConcatEmpty, Zenon
  <2> QED BY <2>1, <1>2, <1>3, <1>5, ConcatEmpty, Zenon DEF a, b, s
<1>6. ASSUME NEW t \in AllThreads(p), Unfinished(p, t)
      PROVE  \E rest \in Seq(Octets) :
                /\ Upto(sent[p], Len(sent[p])) = (a \o held) \o rest
                /\ (\A u \in AllThreads(p) : ~Unfinished(p, u)) => rest = << >>
                /\ \A u \in AllThreads(p) : Unfinished(p, u) => rest = Rest(p, u)
  <2>1. Begun(p) = (a \o held) \o Rest(p, t)
    BY <1>3, <1>6 DEF StreamKept
  <2>2. \A u \in AllThreads(p) : Unfinished(p, u) => u = t
    BY <1>6 DEF WritersApart
  <2>3. Rest(p, t) \in Seq(Octets)
    BY <1>6, RestProperties
  <2> QED BY <2>1, <2>2, <2>3, <1>2, <1>6
<1> QED BY <1>3, <1>5, <1>6 DEF a, b, s

\* recvmsg takes as much as it is asked for, if it is there.
LEMMA TakenAndLeft ==
    ASSUME Types, NEW p \in Processes, NEW n \in Nat, n <= Len(Incoming(p))
    PROVE  /\ Incoming(p) = socket[Other(p)] /\ Incoming(p) \in Seq(Octets)
           /\ Taken(p, n) = SubSeq(Incoming(p), 1, n)
           /\ Taken(p, n) \in Seq(Octets) /\ Left(p, n) \in Seq(Octets)
           /\ Len(Taken(p, n)) = n
           /\ Incoming(p) = Taken(p, n) \o Left(p, n)
<1>1. Incoming(p) = socket[Other(p)] /\ Incoming(p) \in Seq(Octets)
  BY Others DEF Types, Incoming
<1>2. Len(Incoming(p)) \in Nat
  BY <1>1, LenProperties
<1>3. Min({n, Len(Incoming(p))}) = n
  <2> DEFINE l == Len(Incoming(p))
  <2>1. l \in Nat /\ n <= l
    BY <1>2
  <2> HIDE DEF l
  <2>2. Min({n, l}) = n
    BY <2>1, SmallerOfTwo
  <2> QED BY <2>2 DEF l
<1>4. /\ Taken(p, n) = SubSeq(Incoming(p), 1, n)
      /\ Left(p, n) = SubSeq(Incoming(p), 1 + n, Len(Incoming(p)))
  BY <1>3 DEF Taken, Left
<1>5. n \in 0..Len(Incoming(p))
  BY <1>2
<1> QED BY <1>1, <1>4, <1>5, CutInTwo

\* A header is read: it is that of the next message.
LEMMA HeaderKeeps ==
    ASSUME Types, NEW q \in Processes, ReadHeader(q),
           StreamKept(Other(q)), WritersApart(Other(q)), ReadInOrder(Other(q))
    PROVE  /\ StreamKept(Other(q))' /\ WritersApart(Other(q))' /\ ReadInOrder(Other(q))'
           /\ Taken(q, HeaderSize) \in Seq(Octets) /\ Left(q, HeaderSize) \in Seq(Octets)
<1> DEFINE p == Other(q)
           r == Heard(p)
           b == Taken(q, HeaderSize)
           s == Left(q, HeaderSize)
           a == Upto(sent[p], r)
<1>1. p \in Processes /\ Other(p) = q /\ p # q /\ IO \in AllThreads(q)
  BY Others
<1>2. /\ pc[q][IO] = "idle" /\ pc'[q][IO] = "body" /\ pc'[p] = pc[p]
  <2>1. Goto(q, IO, "idle", "body")
    BY DEF ReadHeader
  <2> QED BY <1>1, <2>1, GotoEffect
<1>3. /\ Len(Incoming(q)) >= HeaderSize
      /\ buffer' = [buffer EXCEPT ![q] = b] /\ socket' = [socket EXCEPT ![p] = s]
      /\ lock' = lock /\ message' = message /\ written' = written /\ sent' = sent
      /\ received' = received
  BY DEF ReadHeader
<1>4. HeaderSize \in Nat \ {0} /\ sent[p] \in Seq(Nat) /\ r \in 0..Len(sent[p])
  BY <1>1, SizesAreNumbers, HeardInRange
<1>5. /\ socket[p] \in Seq(Octets) /\ socket[p] = b \o s /\ Incoming(q) = socket[p]
      /\ b = SubSeq(socket[p], 1, HeaderSize) /\ b \in Seq(Octets) /\ s \in Seq(Octets)
      /\ HeaderSize <= Len(socket[p])
  <2>1. Len(Incoming(q)) \in Nat /\ HeaderSize \in Nat
    BY <1>1, <1>4, LenProperties DEF Incoming, Types
  <2>2. HeaderSize <= Len(Incoming(q))
    BY <1>3, <2>1
  <2> QED BY <2>1, <2>2, TakenAndLeft
<1>6. buffer[q] = << >>
  BY <1>1, <1>2 DEF ReadInOrder
<1>7. buffer'[q] = b /\ socket'[p] = s
  BY <1>1, <1>3 DEF Types
<1>8. WritersSame(p)
  BY <1>2, <1>3 DEF WritersSame
<1>9. r < Len(sent[p]) /\ b = Bytes(r + 1, 1, HeaderSize)
  <2> DEFINE n == Len(sent[p])
             held == socket[p]
  <2>1. buffer[Other(p)] \o socket[p] = held
    BY <1>1, <1>5, <1>6, ConcatEmpty
  <2>2. PICK rest \in Seq(Octets) : Upto(sent[p], n) = (Upto(sent[p], r) \o held) \o rest
    BY <1>1, <2>1, Outstanding
  <2>3. n \in 0..Len(sent[p]) /\ r \in 0..n
    BY <1>1, <1>4, SizesAreNumbers
  <2>4. r < n => HeaderSize <= sent[p][r + 1]
    <3>1. r < n => r + 1 \in 1..Len(sent[p])
      BY <1>4, <2>3
    <3> QED BY <3>1, <1>1, <1>4, SizesAreNumbers
  <2> HIDE DEF n, held, r
  <2>5. r < n /\ SubSeq(held, 1, HeaderSize) = Bytes(r + 1, 1, HeaderSize)
    BY <1>4, <1>5, <2>2, <2>3, <2>4, FrontHeld, ZenonT(60) DEF held
  <2> QED BY <2>5, <1>5 DEF n, held
<1>10. Heard(p)' = r
  BY <1>3 DEF Heard
<1>11. Begun(p)' = Begun(p) /\ Carried(p)' = Carried(p)
  <2>1. Begun(p)' = Begun(p)
    BY <1>3 DEF Begun, Upto
  <2>2. a \in Seq(Octets)
    BY <1>4, UptoProperties
  <2>3. Carried(p)' = (a \o b) \o s
    <3>1. Upto(sent[p], Heard(p))' = a
      BY <1>3, <1>10 DEF Upto
    <3> QED BY <3>1, <1>1, <1>7 DEF Carried
  <2>4. Carried(p) = (a \o << >>) \o (b \o s)
    BY <1>1, <1>5, <1>6 DEF Carried
  <2> HIDE DEF a, b, s
  <2>5. a \o << >> = a
    BY <2>2, ConcatEmpty, Zenon
  <2>6. (a \o b) \o s = a \o (b \o s)
    BY <2>2, <1>5, Associative, Zenon
  <2> QED BY <2>1, <2>3, <2>4, <2>5, <2>6
<1>12. StreamKept(p)'
  <2>1. \A t \in AllThreads(p) : /\ Unfinished(p, t)' <=> Unfinished(p, t)
                                 /\ Rest(p, t)' = Rest(p, t)
    BY <1>1, <1>8, UnfinishedFrame DEF WritersSame
  <2> QED BY <2>1, <1>11 DEF StreamKept
<1>13. WritersApart(p)'
  BY <1>1, <1>8, WritersKept
<1>14. ReadInOrder(p)'
  <2>1. received'[q] = [i \in 1..r |-> i] /\ r <= Len(sent'[p])
    BY <1>1, <1>3, <1>9 DEF ReadInOrder
  <2>2. r < Len(sent'[p]) /\ buffer'[q] = Bytes(r + 1, 1, HeaderSize)
    BY <1>3, <1>7, <1>9
  <2> HIDE DEF r
  <2> QED BY <2>1, <2>2, <1>1, <1>2, <1>10 DEF ReadInOrder
<1> QED BY <1>5, <1>12, <1>13, <1>14

\* The message whose header is in the buffer, and its size.
LEMMA Announced ==
    ASSUME Types, NEW q \in Processes, ReadInOrder(Other(q)), pc[q][IO] = "body"
    PROVE  /\ Heard(Other(q)) + 1 \in 1..Len(sent[Other(q)])
           /\ buffer[q] = Bytes(Heard(Other(q)) + 1, 1, HeaderSize)
           /\ buffer[q] \in Seq(Octets) /\ Len(buffer[q]) = HeaderSize
           /\ buffer[q][1][1] = Heard(Other(q)) + 1
           /\ BodySize(q) = sent[Other(q)][Heard(Other(q)) + 1] - HeaderSize
           /\ BodySize(q) \in Nat \ {0}
<1> DEFINE p == Other(q)
           m == Heard(p) + 1
<1>1. p \in Processes /\ Other(p) = q
  BY Others
<1>2. m \in 1..Len(sent[p]) /\ m \in Nat
  <2>1. Heard(p) \in 0..Len(sent[p]) /\ Len(sent[p]) \in Nat
    BY <1>1, HeardInRange, SizesAreNumbers
  <2>2. Heard(p) < Len(sent[p])
    BY <1>1 DEF ReadInOrder
  <2> QED BY <2>1, <2>2
<1>3. buffer[q] = Bytes(m, 1, HeaderSize)
  BY <1>1 DEF ReadInOrder
<1>4. HeaderSize \in Nat \ {0} /\ sent[p][m] \in Nat /\ HeaderSize < sent[p][m]
  BY <1>1, <1>2, SizesAreNumbers
<1> HIDE DEF m
<1>5. /\ buffer[q] \in Seq(Octets) /\ Len(buffer[q]) = HeaderSize
      /\ buffer[q][1] = <<m, 1>>
  <2>1. HeaderSize \in Nat /\ 1 \in 1..HeaderSize
    BY <1>4
  <2> QED BY <1>2, <1>3, <2>1, FirstBytes
<1>6. BodySize(q) = sent[p][m] - HeaderSize
  BY <1>5 DEF BodySize, AnnouncedSize
<1>7. BodySize(q) \in Nat \ {0}
  BY <1>4, <1>6
<1> QED BY <1>2, <1>3, <1>5, <1>6, <1>7 DEF m

\* The rest of the message is taken: it is what the header announced.
LEMMA BodyTaken ==
    ASSUME Types, NEW q \in Processes, ~BodyIsShort(q), pc[q][IO] = "body",
           StreamKept(Other(q)), WritersApart(Other(q)), ReadInOrder(Other(q))
    PROVE  /\ Taken(q, BodySize(q)) \in Seq(Octets) /\ Left(q, BodySize(q)) \in Seq(Octets)
           /\ socket[Other(q)] = Taken(q, BodySize(q)) \o Left(q, BodySize(q))
           /\ buffer[q] \o Taken(q, BodySize(q)) =
                 Bytes(Heard(Other(q)) + 1, 1, sent[Other(q)][Heard(Other(q)) + 1])
           /\ Decoded(q, buffer[q] \o Taken(q, BodySize(q))) = Heard(Other(q)) + 1
<1> DEFINE p == Other(q)
           r == Heard(p)
           m == r + 1
           k == BodySize(q)
           size == sent[p][m]
           b == buffer[q]
           x == Taken(q, k)
           y == Left(q, k)
<1>1. p \in Processes /\ Other(p) = q
  BY Others
<1>2. /\ m \in 1..Len(sent[p]) /\ k = size - HeaderSize /\ k \in Nat /\ k # 0
      /\ b \in Seq(Octets) /\ Len(b) = HeaderSize
  BY Announced
<1>3. /\ sent[p] \in Seq(Nat) /\ r \in 0..Len(sent[p]) /\ size \in Nat \ {0}
      /\ HeaderSize \in Nat /\ HeaderSize < size
  BY <1>1, <1>2, SizesAreNumbers, HeardInRange
<1>4. /\ Incoming(q) = socket[p] /\ socket[p] \in Seq(Octets) /\ Len(socket[p]) \in Nat
      /\ k <= Len(socket[p])
  <2>1. Incoming(q) = socket[p] /\ socket[p] \in Seq(Octets)
    BY <1>1 DEF Incoming, Types
  <2>2. Len(socket[p]) \in Nat
    BY <2>1, LenProperties
  <2> QED BY <2>1, <2>2, <1>2 DEF BodyIsShort
<1>5. /\ x = SubSeq(socket[p], 1, k) /\ x \in Seq(Octets) /\ y \in Seq(Octets)
      /\ socket[p] = x \o y
  <2> HIDE DEF k
  <2> QED BY <1>2, <1>4, TakenAndLeft
<1>6. SubSeq(b \o socket[p], 1, size) = b \o x
  <2>1. k \in 0..Len(socket[p]) /\ Len(b) + k = size
    BY <1>2, <1>3, <1>4
  <2> HIDE DEF k, b, x, size
  <2>2. SubSeq(b \o socket[p], 1, Len(b) + k) = b \o SubSeq(socket[p], 1, k)
    BY <1>2, <1>4, <2>1, FrontOfConcat
  <2> QED BY <1>5, <2>1, <2>2
<1>7. b \o x = Bytes(m, 1, size)
  <2> DEFINE n == Len(sent[p])
             held == b \o socket[p]
  <2>1. PICK rest \in Seq(Octets) : Upto(sent[p], n) = (Upto(sent[p], r) \o held) \o rest
    BY <1>1, Outstanding
  <2>2. n \in 0..Len(sent[p]) /\ r \in 0..n
    BY <1>1, <1>3, SizesAreNumbers
  <2>3. held \in Seq(Octets) /\ size <= Len(held)
    <3>1. held \in Seq(Octets) /\ Len(held) = Len(b) + Len(socket[p])
      BY <1>2, <1>4, ConcatType, Zenon
    <3> QED BY <3>1, <1>2, <1>3, <1>4, SMTT(30)
  <2>4. size <= sent[p][r + 1] /\ m = r + 1
    BY <1>3
  <2> HIDE DEF n, held, r, size
  <2>5. SubSeq(held, 1, size) = Bytes(r + 1, 1, size)
    BY <1>3, <2>1, <2>2, <2>3, <2>4, FrontHeld
  <2> QED BY <2>5, <1>6, <2>4 DEF held
<1>8. Decoded(q, b \o x) = m
  <2>1. (b \o x)[1] = <<m, 1>>
    <3>1. m \in Nat /\ size \in Nat /\ 1 \in 1..size
      BY <1>2, <1>3
    <3> HIDE DEF m, size, b, x
    <3> QED BY <3>1, <1>7, FirstBytes
  <2>2. (b \o x)[1][1] = m
    BY <2>1
  <2> HIDE DEF b, x, m
  <2> QED BY <2>2, <1>7 DEF Decoded, size
<1> QED BY <1>5, <1>7, <1>8

\* The rest of a message is read: one more message is heard.
LEMMA BodyKeeps ==
    ASSUME Types, NEW q \in Processes, ~BodyIsShort(q), pc[q][IO] = "body",
           StreamKept(Other(q)), WritersApart(Other(q)), ReadInOrder(Other(q)),
           pc'[q][IO] # "body", WritersSame(Other(q)),
           buffer' = [buffer EXCEPT ![q] = << >>],
           socket' = [socket EXCEPT ![Other(q)] = Left(q, BodySize(q))],
           received' = [received EXCEPT ![q] =
                           Append(received[q], Decoded(q, buffer[q] \o Taken(q, BodySize(q))))]
    PROVE  /\ StreamKept(Other(q))' /\ WritersApart(Other(q))' /\ ReadInOrder(Other(q))'
           /\ received'[q] \in Seq(Nat) /\ received'[q] # << >>
<1> DEFINE p == Other(q)
           r == Heard(p)
           m == r + 1
           k == BodySize(q)
           size == sent[p][m]
           b == buffer[q]
           x == Taken(q, k)
           y == Left(q, k)
           a == Upto(sent[p], r)
<1>1. p \in Processes /\ Other(p) = q /\ p # q
  BY Others
<1>2. /\ x \in Seq(Octets) /\ y \in Seq(Octets) /\ socket[p] = x \o y
      /\ b \o x = Bytes(m, 1, size) /\ Decoded(q, b \o x) = m
  BY BodyTaken
<1>3. b \in Seq(Octets) /\ m \in 1..Len(sent[p]) /\ r \in 0..Len(sent[p]) /\ sent[p] \in Seq(Nat)
  BY <1>1, Announced, SizesAreNumbers, HeardInRange
<1>4. buffer'[q] = << >> /\ socket'[p] = y /\ received'[q] = Append(received[q], m)
  BY <1>1, <1>2 DEF Types
<1>5. /\ received[q] \in Seq(Nat) /\ Len(received[q]) = r /\ received[q] = [i \in 1..r |-> i]
  BY <1>1 DEF Types, Heard, ReadInOrder
<1>6. /\ received'[q] \in Seq(Nat) /\ Len(received'[q]) = m /\ received'[q] # << >>
      /\ received'[q] = [i \in 1..m |-> i]
  <2>1. r \in Nat /\ m \in Nat /\ m = r + 1
    BY <1>3
  <2> HIDE DEF r, m
  <2>2. /\ received'[q] \in Seq(Nat) /\ Len(received'[q]) = m /\ received'[q] # << >>
        /\ \A i \in 1..r : received'[q][i] = received[q][i]
        /\ received'[q][m] = m
    BY <1>4, <1>5, <2>1, AppendProperties, SMTT(30)
  <2>3. \A i \in 1..m : received'[q][i] = i
    BY <1>5, <2>1, <2>2
  <2>4. DOMAIN received'[q] = 1..m /\ received'[q] = [i \in DOMAIN received'[q] |-> received'[q][i]]
    BY <2>2, LenProperties
  <2>5. [i \in 1..m |-> received'[q][i]] = [i \in 1..m |-> i]
    BY <2>3
  <2> QED BY <2>2, <2>4, <2>5
<1>7. Heard(p)' = m
  BY <1>1, <1>6 DEF Heard
<1>8. sent'[p] = sent[p]
  BY DEF WritersSame
<1>9. Begun(p)' = Begun(p) /\ Carried(p)' = Carried(p)
  <2>1. Begun(p)' = Begun(p)
    BY <1>8 DEF Begun, Upto
  <2>2. a \in Seq(Octets) /\ Upto(sent[p], m) = a \o Bytes(m, 1, size)
    <3>1. r < Len(sent[p]) /\ m = r + 1
      BY <1>3
    <3> HIDE DEF r
    <3> QED BY <3>1, <1>3, UptoProperties
  <2>3. Carried(p)' = ((a \o (b \o x)) \o << >>) \o y
    <3>1. Upto(sent[p], Heard(p))' = Upto(sent[p], m)
      BY <1>7, <1>8 DEF Upto
    <3> QED BY <3>1, <2>2, <1>1, <1>2, <1>4 DEF Carried
  <2>4. Carried(p) = (a \o b) \o (x \o y)
    BY <1>1, <1>2 DEF Carried
  <2> HIDE DEF a, b, x, y
  <2>5. b \o x \in Seq(Octets) /\ a \o b \in Seq(Octets)
    BY <1>2, <1>3, <2>2, ConcatType, Zenon
  <2>6. a \o (b \o x) \in Seq(Octets)
    BY <2>2, <2>5, ConcatType, Zenon
  <2>7. (a \o (b \o x)) \o << >> = a \o (b \o x)
    BY <2>6, ConcatEmpty, Zenon
  <2>8. a \o (b \o x) = (a \o b) \o x
    BY <1>2, <1>3, <2>2, Associative, Zenon
  <2>9. ((a \o b) \o x) \o y = (a \o b) \o (x \o y)
    BY <1>2, <2>5, Associative, Zenon
  <2> QED BY <2>1, <2>3, <2>4, <2>7, <2>8, <2>9
<1>10. StreamKept(p)'
  <2>1. \A t \in AllThreads(p) : /\ Unfinished(p, t)' <=> Unfinished(p, t)
                                 /\ Rest(p, t)' = Rest(p, t)
    BY <1>1, UnfinishedFrame DEF WritersSame
  <2> QED BY <2>1, <1>9 DEF StreamKept
<1>11. WritersApart(p)'
  BY <1>1, WritersKept
<1>12. ReadInOrder(p)'
  <2>1. m <= Len(sent'[p])
    BY <1>3, <1>8
  <2> HIDE DEF m
  <2> QED BY <2>1, <1>1, <1>4, <1>6, <1>7 DEF ReadInOrder
<1> QED BY <1>6, <1>10, <1>11, <1>12
-----------------------------------------------------------------------------
(* What the parts of the invariant say together.                            *)

\* The inviter hears of the acceptance, the invitee of the invitation, only
\* after it was begun.
LEMMA HeardMeansSent ==
    ASSUME Types, Directions, Handshake
    PROVE  /\ received[Invitee] # << >> => Inviter \in started /\ sent[Inviter] # << >>
           /\ received[Inviter] # << >> =>
                 /\ Inviter \in started /\ sent[Inviter] # << >>
                 /\ sent[Invitee] # << >> /\ received[Invitee] # << >>
<1>1. \A p \in Processes : received[Other(p)] # << >> => sent[p] # << >>
  <2> SUFFICES ASSUME NEW p \in Processes, received[Other(p)] # << >> PROVE sent[p] # << >>
    OBVIOUS
  <2>1. received[Other(p)] \in Seq(Nat)
    BY Others DEF Types
  <2>2. Heard(p) # 0
    BY <2>1, EmptySeq DEF Heard
  <2>3. Heard(p) \in 0..Len(sent[p])
    BY HeardInRange DEF Directions
  <2>4. Len(sent[p]) # 0
    BY <2>2, <2>3
  <2> QED BY <2>4, EmptySeq
<1>2. received[Invitee] # << >> => sent[Inviter] # << >>
  BY <1>1, Others
<1>3. received[Inviter] # << >> => sent[Invitee] # << >>
  BY <1>1, Others
<1>4. sent[Inviter] # << >> => Inviter \in started
  BY DEF Handshake
<1>5. sent[Invitee] # << >> => received[Invitee] # << >>
  BY DEF Handshake
<1> QED BY <1>2, <1>3, <1>4, <1>5

\* When a process sends a message other than its first, none is unfinished: the
\* lock is free, and the first was read, or written at least.
LEMMA NoneUnfinished ==
    ASSUME Types, Directions, Handshake, NEW p \in Processes, lock[p] = NoThread,
           p \in joined \/ pc[p][IO] = "relay"
    PROVE  /\ \A t \in AllThreads(p) : ~Unfinished(p, t)
           /\ Inviter \in started /\ sent[p] # << >>
           /\ p = Invitee => Invitee \in joined
<1>1. CASE p = Invitee
  <2>1. Invitee \in joined /\ sent[Invitee] # << >>
    BY <1>1 DEF Handshake
  <2>2. Inviter \in started
    BY <2>1, HeardMeansSent DEF Handshake
  <2>3. ASSUME NEW t \in AllThreads(p), Unfinished(p, t) PROVE FALSE
    <3>1. lock[p] # t
      BY ProcessesAssumption
    <3>2. Len(sent[Invitee]) = 1
      BY <1>1, <2>3, <3>1 DEF Directions, WritersApart
    <3> QED BY <1>1, <2>1, <2>3, <3>2 DEF Handshake
  <2> QED BY <1>1, <2>1, <2>2, <2>3
<1>2. CASE p = Inviter
  <2>1. received[Inviter] # << >>
    BY <1>2 DEF Handshake
  <2>2. Inviter \in started /\ sent[Inviter] # << >> /\ received[Invitee] # << >>
    BY <2>1, HeardMeansSent
  <2>3. ASSUME NEW t \in AllThreads(p), Unfinished(p, t) PROVE FALSE
    <3>1. lock[p] # t
      BY ProcessesAssumption
    <3>2. Len(sent[p]) = 1
      BY <2>3, <3>1 DEF Directions, WritersApart
    <3>3. Heard(p) = 1
      <4>1. Heard(p) \in 0..Len(sent[p])
        BY HeardInRange DEF Directions
      <4>2. received[Invitee] \in Seq(Nat) /\ Other(p) = Invitee
        BY <1>2, Others DEF Types
      <4>3. Heard(p) # 0
        BY <2>2, <4>2, EmptySeq DEF Heard
      <4> QED BY <3>2, <4>1, <4>3
    <3> DEFINE held == buffer[Other(p)] \o socket[p]
               rest == Rest(p, t)
    <3>4. /\ held \in Seq(Octets) /\ rest \in Seq(Octets) /\ Len(rest) # 0
          /\ Upto(sent[p], 1) = (Upto(sent[p], 1) \o held) \o rest
      <4>1. StreamKept(p) /\ WritersApart(p) /\ ReadInOrder(p)
        BY DEF Directions
      <4>2. rest \in Seq(Octets) /\ Len(rest) # 0
        BY <4>1, <2>3, RestProperties
      <4>3. PICK z \in Seq(Octets) :
               /\ Upto(sent[p], Len(sent[p])) = (Upto(sent[p], Heard(p)) \o held) \o z
               /\ z = rest
        BY <4>1, <2>3, Outstanding
      <4>4. held \in Seq(Octets)
        BY <4>1, Outstanding
      <4> QED BY <3>2, <3>3, <4>2, <4>3, <4>4
    <3>5. 1 \in 0..Len(sent[p]) /\ sent[p] \in Seq(Nat)
      BY <3>2, SizesAreNumbers
    <3> HIDE DEF held, rest
    <3>6. rest = << >>
      BY <3>4, <3>5, AllRead
    <3> QED BY <3>4, <3>6, EmptySeq
  <2> QED BY <1>2, <2>2, <2>3, Others
<1> QED BY <1>1, <1>2, Others DEF Processes

\* Stream is what the process has begun to write.
LEMMA StreamIsBegun ==
    ASSUME Types, NEW p \in Processes
    PROVE  Stream(p) = Begun(p)
<1>1. DOMAIN sent[p] = 1..Len(sent[p])
  BY SizesAreNumbers, LenProperties
<1> QED BY <1>1 DEF Stream, Begun, Upto

\* A cause for which a process may abort.
Cause ==
    \/ killed # {}
    \/ \E p \in Processes : \E i \in 1..Len(sent[p]) : sent[p][i] > Chunk
    \/ /\ ~setup.blocking
       /\ \E p \in Processes : Len(Begun(p)) > Capacity

\* AbortsForCause says that there is one.
LEMMA AbortsForCauseMeans ==
    ASSUME Types
    PROVE  AbortsForCause <=> (alive # Processes => Cause)
<1>1. \A p \in Processes : DOMAIN sent[p] = 1..Len(sent[p]) /\ Stream(p) = Begun(p)
  BY SizesAreNumbers, LenProperties, StreamIsBegun
<1>2. Processes \ alive # {} <=> alive # Processes
  BY DEF Types
<1> QED BY <1>1, <1>2 DEF AbortsForCause, Cause

\* A cause stays.
LEMMA CauseStays ==
    ASSUME Types, Types', Cause, setup' = setup, killed \subseteq killed',
           \A p \in Processes :
              \/ sent'[p] = sent[p]
              \/ \E size \in Sizes \cup {ControlSize} : sent'[p] = Append(sent[p], size)
    PROVE  Cause'
<1>1. CASE killed # {}
  BY <1>1 DEF Cause
<1>2. ASSUME NEW p \in Processes
      PROVE  /\ Len(sent[p]) <= Len(sent'[p])
             /\ \A i \in 1..Len(sent[p]) : sent'[p][i] = sent[p][i]
             /\ Len(Begun(p)) <= Len(Begun(p)')
             /\ Len(sent[p]) \in Nat /\ Len(sent'[p]) \in Nat
             /\ Len(Begun(p)) \in Nat /\ Len(Begun(p)') \in Nat
  <2>1. sent[p] \in Seq(Nat) /\ Len(sent[p]) \in Nat /\ Len(sent[p]) \in 0..Len(sent[p])
    BY SizesAreNumbers
  <2>2. Begun(p) \in Seq(Octets) /\ Len(Begun(p)) \in Nat
    BY <2>1, UptoProperties, LenProperties DEF Begun
  <2>3. CASE sent'[p] = sent[p]
    BY <2>1, <2>2, <2>3 DEF Begun, Upto
  <2>4. ASSUME NEW size \in Sizes \cup {ControlSize}, sent'[p] = Append(sent[p], size)
        PROVE  /\ Len(sent[p]) <= Len(sent'[p]) /\ Len(sent'[p]) \in Nat
               /\ \A i \in 1..Len(sent[p]) : sent'[p][i] = sent[p][i]
               /\ Len(Begun(p)) <= Len(Begun(p)') /\ Len(Begun(p)') \in Nat
    <3> DEFINE n == Len(sent[p])
    <3>1. size \in Nat
      BY SizesAssumption
    <3>2. /\ sent'[p] \in Seq(Nat) /\ Len(sent'[p]) = n + 1
          /\ \A i \in 1..n : sent'[p][i] = sent[p][i]
          /\ sent'[p][n + 1] = size
      BY <2>1, <2>4, <3>1, AppendProperties
    <3>3. Begun(p)' = Begun(p) \o Bytes(n + 1, 1, size)
      <4>1. n \in 0..Len(sent'[p]) /\ n < Len(sent'[p])
        BY <2>1, <3>2
      <4>2. Upto(sent'[p], n + 1) = Upto(sent'[p], n) \o Bytes(n + 1, 1, sent'[p][n + 1])
        BY <4>1, <3>2, UptoProperties
      <4>3. Upto(sent'[p], n) = Upto(sent[p], n)
        BY <2>1, <2>4, <3>1, UptoAppend
      <4>4. Begun(p)' = Upto(sent'[p], n + 1)
        BY <3>2 DEF Begun, Upto
      <4> QED BY <4>2, <4>3, <4>4, <3>2 DEF Begun
    <3>4. Bytes(n + 1, 1, size) \in Seq(Octets) /\ Len(Bytes(n + 1, 1, size)) = size
      <4>1. n + 1 \in Nat
        BY <2>1
      <4> QED BY <3>1, <4>1, FirstBytes, Zenon
    <3>5. Len(Begun(p)') = Len(Begun(p)) + size
      BY <2>2, <3>3, <3>4, ConcatType
    <3> QED BY <2>1, <2>2, <3>1, <3>2, <3>5
  <2> QED BY <2>1, <2>2, <2>3, <2>4
<1>3. ASSUME NEW p \in Processes, NEW i \in 1..Len(sent[p]), sent[p][i] > Chunk
      PROVE  Cause'
  <2>1. i \in 1..Len(sent'[p]) /\ sent'[p][i] > Chunk
    BY <1>2, <1>3
  <2> QED BY <2>1 DEF Cause
<1>4. ASSUME ~setup.blocking, NEW p \in Processes, Len(Begun(p)) > Capacity
      PROVE  Cause'
  <2>1. Len(Begun(p)') > Capacity
    <3> DEFINE a == Len(Begun(p))
               b == Len(Begun(p)')
    <3>1. a <= b /\ a \in Nat /\ b \in Nat /\ a > Capacity /\ Capacity \in Nat
      BY <1>2, <1>4, SizesAssumption
    <3> HIDE DEF a, b
    <3>2. b > Capacity
      BY <3>1
    <3> QED BY <3>2 DEF b
  <2> QED BY <2>1, <1>4 DEF Cause
<1> QED BY <1>1, <1>3, <1>4 DEF Cause
-----------------------------------------------------------------------------
(* Steps.                                                                   *)

\* A step that neither begins nor receives a message leaves the handshake alone.
LEMMA HandshakeKept ==
    ASSUME Handshake, Invitee \in joined' <=> Invitee \in joined,
           Inviter \in joined' => Inviter \in joined \/ received[Inviter] # << >>,
           received' = received, sent'[Invitee] = sent[Invitee],
           Inviter \notin started' => Inviter \notin started /\ sent'[Inviter] = sent[Inviter],
           \A p \in Processes :
              pc'[p][IO] \in {"relay", "write"} => pc[p][IO] \in {"relay", "write"},
           pc'[Invitee][IO] = "relay" => pc[Invitee][IO] = "relay",
           pc[Invitee][IO] = "write" => pc'[Invitee][IO] = "write",
           \A t \in AllThreads(Invitee) :
              /\ Unfinished(Invitee, t)' => Unfinished(Invitee, t)
              /\ pc'[Invitee][t] = "write" => pc[Invitee][t] = "write"
    PROVE  Handshake'
<1>1. Inviter \notin started' => sent'[Inviter] = << >>
  BY DEF Handshake
<1>2. Inviter \in joined' => received'[Inviter] # << >>
  BY DEF Handshake
<1>3. \A p \in Processes : pc'[p][IO] \in {"relay", "write"} => received'[p] # << >>
  BY DEF Handshake
<1>4. pc'[Invitee][IO] = "relay" => Invitee \in joined'
  BY Others DEF Handshake
<1>5. received'[Invitee] # << >> /\ pc'[Invitee][IO] # "write" => Invitee \in joined'
  BY DEF Handshake
<1>6. /\ sent'[Invitee] # << >> => received'[Invitee] # << >>
      /\ Invitee \in joined' => sent'[Invitee] # << >>
  BY DEF Handshake
<1>7. Invitee \in joined' /\ Len(sent'[Invitee]) = 1 =>
          \A t \in AllThreads(Invitee) : ~Unfinished(Invitee, t)'
  BY DEF Handshake
<1>8. Invitee \notin joined' =>
          \A t \in AllThreads(Invitee) \ {IO} : pc'[Invitee][t] # "write"
  BY DEF Handshake
<1> QED BY <1>1, <1>2, <1>3, <1>4, <1>5, <1>6, <1>7, <1>8 DEF Handshake

\* A step of the writers of one process keeps both directions, if it keeps its own.
LEMMA DirectionsByWriter ==
    ASSUME Types, Directions, NEW p \in Processes,
           StreamKept(p)', WritersApart(p)', ReadInOrder(p)',
           WritersSame(Other(p)), ReaderSame(p), socket'[Other(p)] = socket[Other(p)]
    PROVE  Directions'
<1>1. Other(p) \in Processes /\ Other(Other(p)) = p
  BY Others
<1>2. StreamKept(Other(p))' /\ WritersApart(Other(p))' /\ ReadInOrder(Other(p))'
  BY <1>1, DirectionKept DEF Directions
<1>3. \A q \in Processes : q = p \/ q = Other(p)
  BY Others
<1> QED BY <1>2, <1>3 DEF Directions

\* So does a step of the reader of one process.
LEMMA DirectionsByReader ==
    ASSUME Types, Directions, NEW q \in Processes,
           StreamKept(Other(q))', WritersApart(Other(q))', ReadInOrder(Other(q))',
           WritersSame(q), ReaderSame(Other(q)), socket'[q] = socket[q]
    PROVE  Directions'
<1>1. StreamKept(q)' /\ WritersApart(q)' /\ ReadInOrder(q)'
  BY DirectionKept DEF Directions
<1>2. \A p \in Processes : p = q \/ p = Other(q)
  BY Others
<1> QED BY <1>1, <1>2 DEF Directions

\* If the kernel takes each message at once, there is never a part of one.
LEMMA HeldWhole ==
    ASSUME Types, Directions, NEW p \in Processes, ~Cause,
           buffer[Other(p)] \o socket[p] # << >>
    PROVE  /\ Heard(p) + 1 \in 1..Len(sent[p])
           /\ sent[p][Heard(p) + 1] <= Len(buffer[Other(p)] \o socket[p])
<1> DEFINE n == Len(sent[p])
           r == Heard(p)
           held == buffer[Other(p)] \o socket[p]
<1>1. StreamKept(p) /\ WritersApart(p) /\ ReadInOrder(p)
  BY DEF Directions
<1>2. /\ sent[p] \in Seq(Nat) /\ n \in Nat /\ n \in 0..Len(sent[p]) /\ r \in 0..n /\ Chunk \in Nat
      /\ \A i \in 1..Len(sent[p]) : sent[p][i] \in Nat
  BY <1>1, SizesAreNumbers, HeardInRange
<1>3. PICK rest \in Seq(Octets) :
         /\ Upto(sent[p], n) = (Upto(sent[p], r) \o held) \o rest
         /\ (\A t \in AllThreads(p) : ~Unfinished(p, t)) => rest = << >>
         /\ \A t \in AllThreads(p) : Unfinished(p, t) => rest = Rest(p, t)
  BY <1>1, Outstanding
<1>4. held \in Seq(Octets)
  BY <1>1, Outstanding
<1>5. \A i \in 1..Len(sent[p]) : sent[p][i] <= Chunk
  BY <1>2 DEF Cause
<1>6. rest = << >> \/ rest = Bytes(n, 1, sent[p][n])
  <2>1. ASSUME NEW t \in AllThreads(p), Unfinished(p, t)
        PROVE  rest = Bytes(n, 1, sent[p][n])
    <3>1. written[p][t] = 0
      BY <1>1, <1>5, <2>1 DEF WritersApart
    <3>2. Rest(p, t) = Bytes(Len(sent[p]), 1, sent[p][Len(sent[p])])
      BY <1>1, <2>1, <3>1, RestProperties
    <3> QED BY <1>3, <2>1, <3>2
  <2> QED BY <2>1, <1>3
<1> HIDE DEF n, r, held
<1>7. held # << >>
  BY DEF held
<1>8. r < n /\ sent[p][r + 1] <= Len(held)
  BY <1>2, <1>3, <1>4, <1>6, <1>7, WholeHeld
<1>9. r + 1 \in 1..n
  BY <1>2, <1>8
<1> QED BY <1>8, <1>9 DEF n, r, held

\* A process is gone, for a cause; nothing else changes.
LEMMA DeathKeeps ==
    ASSUME IndInv,
           alive' \subseteq Processes, killed' \subseteq Processes, killed \subseteq killed',
           Cause \/ killed' # {},
           UNCHANGED <<setup, started, joined, lock, message, written, socket, sent,
                       buffer, received>>,
           DOMAIN pc' = Processes,
           \A p \in Processes :
              /\ pc'[p] \in [AllThreads(p) -> {"idle", "relay", "write", "body"}]
              /\ \A t \in AllThreads(p) : pc'[p][t] = pc[p][t]
    PROVE  IndInv'
<1>1. Types'
  BY DEF IndInv, Types
<1>2. Directions'
  <2> SUFFICES ASSUME NEW p \in Processes
               PROVE  StreamKept(p)' /\ WritersApart(p)' /\ ReadInOrder(p)'
    BY DEF Directions
  <2>1. WritersSame(p) /\ ReaderSame(Other(p)) /\ socket'[p] = socket[p]
    BY Others DEF WritersSame, ReaderSame
  <2> QED BY <2>1, DirectionKept DEF IndInv, Directions
<1>3. Handshake'
  <2>1. \A t \in AllThreads(Invitee) : Unfinished(Invitee, t)' <=> Unfinished(Invitee, t)
    BY Others, UnfinishedFrame
  <2> QED BY <2>1, Others, HandshakeKept DEF IndInv
<1>4. WithinBounds'
  <2>1. \A p \in Processes : Waiting(p)' = Waiting(p)
    BY Others DEF Waiting
  <2> QED BY <2>1 DEF IndInv, WithinBounds
<1>5. AbortsForCause'
  <2>1. CASE Cause
    <3>1. Cause'
      BY <1>1, <2>1, CauseStays DEF IndInv
    <3> QED BY <3>1, <1>1, AbortsForCauseMeans, PTL
  <2>2. CASE killed' # {}
    BY <2>2 DEF AbortsForCause
  <2> QED BY <2>1, <2>2
<1> QED BY <1>1, <1>2, <1>3, <1>4, <1>5 DEF IndInv

\* If nobody dies, the causes of earlier deaths are enough.
LEMMA CausesKept ==
    ASSUME IndInv, Types', setup' = setup, alive' = alive, killed' = killed,
           \A p \in Processes :
              \/ sent'[p] = sent[p]
              \/ \E size \in Sizes \cup {ControlSize} : sent'[p] = Append(sent[p], size)
    PROVE  AbortsForCause'
<1>1. AbortsForCause <=> (alive # Processes => Cause)
  BY AbortsForCauseMeans DEF IndInv
<1>2. AbortsForCause' <=> (alive' # Processes => Cause')
  <2>1. (Types => (AbortsForCause <=> (alive # Processes => Cause)))'
    BY AbortsForCauseMeans, PTL
  <2> QED BY <2>1
<1>3. Cause => Cause'
  BY CauseStays DEF IndInv
<1> QED BY <1>1, <1>2, <1>3 DEF IndInv

\* The inviter sends the invitation.
LEMMA SendInvitationKeeps ==
    ASSUME IndInv, NEW t \in Threads[Inviter], SendInvitation(t)
    PROVE  IndInv'
<1> DEFINE p == Inviter
<1>1. Types /\ Directions /\ Handshake /\ WithinBounds /\ t \in AllThreads(p) /\ p \in Processes
  BY Others DEF IndInv, AllThreads
<1>2. /\ p \notin started /\ pc[p][t] = "idle" /\ pc'[p][t] = "write"
      /\ DOMAIN pc' = Processes
      /\ \A q \in Processes : pc'[q] \in [AllThreads(q) -> {"idle", "relay", "write", "body"}]
      /\ \A u \in AllThreads(p) : u # t => pc'[p][u] = pc[p][u]
      /\ pc'[Other(p)] = pc[Other(p)]
  <2>1. Goto(p, t, "idle", "write") /\ p \notin started
    BY DEF SendInvitation
  <2> QED BY <1>1, <2>1, GotoEffect
<1>3. /\ started' = started \cup {p} /\ Begin(p, t, ControlSize)
      /\ setup' = setup /\ joined' = joined /\ lock' = lock /\ socket' = socket
      /\ buffer' = buffer /\ received' = received /\ alive' = alive /\ killed' = killed
  BY DEF SendInvitation, readerVars
<1>4. /\ DOMAIN message' = Processes /\ DOMAIN written' = Processes
      /\ \A q \in Processes : /\ message'[q] \in [AllThreads(q) -> Nat]
                              /\ written'[q] \in [AllThreads(q) -> Nat]
      /\ sent' \in [Processes -> Seq(Sizes \cup {ControlSize})]
      /\ sent'[p] = Append(sent[p], ControlSize)
      /\ message'[Other(p)] = message[Other(p)] /\ written'[Other(p)] = written[Other(p)]
      /\ sent'[Other(p)] = sent[Other(p)]
  <2>1. ControlSize \in Sizes \cup {ControlSize}
    OBVIOUS
  <2> QED BY <1>1, <1>3, <2>1, BeginEffect
<1>5. sent[p] = << >> /\ Len(sent[p]) = 0
  BY <1>1, <1>2 DEF Handshake
<1>6. Types'
  BY <1>1, <1>2, <1>3, <1>4 DEF Types
<1>7. Directions'
  <2>1. StreamKept(p) /\ WritersApart(p) /\ ReadInOrder(p)
    BY <1>1 DEF Directions
  <2>2. \A u \in AllThreads(p) : ~Unfinished(p, u)
    BY <1>5, <2>1 DEF WritersApart, Unfinished
  <2>3. ReaderSame(Other(p)) /\ ReaderSame(p) /\ WritersSame(Other(p))
    BY <1>1, <1>2, <1>3, <1>4, Others DEF ReaderSame, WritersSame
  <2>4. ControlSize \in Sizes \cup {ControlSize}
    OBVIOUS
  <2>5. StreamKept(p)' /\ WritersApart(p)' /\ ReadInOrder(p)'
    BY <1>1, <1>2, <1>3, <1>5, <2>1, <2>2, <2>3, <2>4, BeginKeeps
  <2> QED BY <1>1, <1>3, <2>3, <2>5, DirectionsByWriter
<1>8. Handshake'
  <2>1. \A u \in AllThreads(Invitee) : /\ Unfinished(Invitee, u)' <=> Unfinished(Invitee, u)
                                       /\ pc'[Invitee][u] = pc[Invitee][u]
    BY <1>2, <1>4, Others, UnfinishedFrame
  <2>2. \A q \in Processes : pc'[q][IO] = pc[q][IO]
    BY <1>2, Others, ProcessesAssumption
  <2> QED BY <1>1, <1>3, <1>4, <2>1, <2>2, Others, HandshakeKept
<1>9. WithinBounds'
  <2>1. pc'[p][IO] # "relay"
    <3>1. received[p] = << >>
      BY <1>1, <1>2, HeardMeansSent
    <3> QED BY <1>1, <1>2, <3>1, Others DEF Handshake
  <2>2. Len(sent'[p]) = 1
    BY <1>1, <1>4, <1>5, SizesAreNumbers, AppendProperties
  <2>3. Len(sent'[p]) + Waiting(p)' <= MaxMessages[p]
    BY <1>1, <2>1, <2>2, ProcessesAssumption DEF Waiting
  <2>4. Waiting(Other(p))' = Waiting(Other(p))
    BY <1>2 DEF Waiting
  <2> QED BY <1>1, <1>4, <2>3, <2>4, Others DEF WithinBounds
<1>10. AbortsForCause'
  <2>1. \A q \in Processes : \/ sent'[q] = sent[q]
                             \/ \E size \in Sizes \cup {ControlSize} : sent'[q] = Append(sent[q], size)
    BY <1>4, Others
  <2> QED BY <1>3, <1>6, <2>1, CausesKept
<1> QED BY <1>6, <1>7, <1>8, <1>9, <1>10 DEF IndInv

\* The invitee starts its channel.
LEMMA AcceptInvitationKeeps ==
    ASSUME IndInv, AcceptInvitation
    PROVE  IndInv'
<1>1. /\ started' = started \cup {Invitee}
      /\ UNCHANGED <<setup, joined, alive, killed, pc, lock, message, written, socket, sent,
                     buffer, received>>
  BY DEF AcceptInvitation, writerVars, readerVars
<1>2. Types'
  BY <1>1, Others DEF IndInv, Types
<1>3. Directions'
  <2> SUFFICES ASSUME NEW p \in Processes
               PROVE  StreamKept(p)' /\ WritersApart(p)' /\ ReadInOrder(p)'
    BY DEF Directions
  <2>1. WritersSame(p) /\ ReaderSame(Other(p)) /\ socket'[p] = socket[p]
    BY <1>1 DEF WritersSame, ReaderSame
  <2> QED BY <2>1, DirectionKept DEF IndInv, Directions
<1>4. Handshake'
  <2>1. \A t \in AllThreads(Invitee) : Unfinished(Invitee, t)' <=> Unfinished(Invitee, t)
    BY <1>1, Others, UnfinishedFrame
  <2> QED BY <1>1, <2>1, Others, HandshakeKept DEF IndInv
<1>5. WithinBounds'
  BY <1>1 DEF IndInv, WithinBounds, Waiting
<1>6. AbortsForCause'
  BY <1>1, <1>2, CausesKept
<1> QED BY <1>2, <1>3, <1>4, <1>5, <1>6 DEF IndInv

\* A flush or a forward begins to write a message under the lock.
LEMMA SendMessageKeeps ==
    ASSUME IndInv, NEW p \in Processes, NEW t \in AllThreads(p), SendMessage(p, t)
    PROVE  IndInv'
<1>1. Types /\ Directions /\ Handshake /\ WithinBounds
  BY DEF IndInv
<1>2. /\ \/ /\ t # IO /\ Goto(p, t, "idle", "write") /\ p \in joined
            /\ Len(sent[p]) + Waiting(p) < MaxMessages[p]
         \/ t = IO /\ Goto(p, t, "relay", "write")
      /\ lock[p] = NoThread /\ lock' = [lock EXCEPT ![p] = t]
      /\ setup' = setup /\ started' = started /\ joined' = joined
      /\ alive' = alive /\ killed' = killed /\ socket' = socket
      /\ buffer' = buffer /\ received' = received
  BY DEF SendMessage, processVars, readerVars
<1>3. PICK size \in Sizes \cup {ControlSize} : Begin(p, t, size)
  BY DEF SendMessage
<1>4. /\ \/ t # IO /\ pc[p][t] = "idle" /\ p \in joined
         \/ t = IO /\ pc[p][t] = "relay"
      /\ pc'[p][t] = "write" /\ DOMAIN pc' = Processes
      /\ \A q \in Processes : pc'[q] \in [AllThreads(q) -> {"idle", "relay", "write", "body"}]
      /\ \A u \in AllThreads(p) : u # t => pc'[p][u] = pc[p][u]
      /\ pc'[Other(p)] = pc[Other(p)]
  <2>1. CASE t # IO /\ Goto(p, t, "idle", "write") /\ p \in joined
    BY <1>1, <2>1, GotoEffect
  <2>2. CASE t = IO /\ Goto(p, t, "relay", "write")
    BY <1>1, <2>2, GotoEffect
  <2> QED BY <1>2, <2>1, <2>2
<1>5. /\ DOMAIN message' = Processes /\ DOMAIN written' = Processes
      /\ \A q \in Processes : /\ message'[q] \in [AllThreads(q) -> Nat]
                              /\ written'[q] \in [AllThreads(q) -> Nat]
      /\ sent' \in [Processes -> Seq(Sizes \cup {ControlSize})]
      /\ sent'[p] = Append(sent[p], size)
      /\ message'[Other(p)] = message[Other(p)] /\ written'[Other(p)] = written[Other(p)]
      /\ sent'[Other(p)] = sent[Other(p)]
  BY <1>1, <1>3, BeginEffect
<1>6. /\ \A u \in AllThreads(p) : ~Unfinished(p, u)
      /\ Inviter \in started /\ sent[p] # << >>
      /\ p = Invitee => Invitee \in joined
  BY <1>1, <1>2, <1>4, NoneUnfinished
<1>7. lock' \in [Processes -> (UNION {AllThreads(q) : q \in Processes}) \cup {NoThread}]
      /\ lock'[p] = t /\ lock'[Other(p)] = lock[Other(p)]
  <2>1. t \in (UNION {AllThreads(q) : q \in Processes}) \cup {NoThread}
    OBVIOUS
  <2>2. lock \in [Processes -> (UNION {AllThreads(q) : q \in Processes}) \cup {NoThread}]
    BY <1>1 DEF Types
  <2> QED BY <1>2, <2>1, <2>2, Others
<1>8. Types'
  BY <1>1, <1>2, <1>4, <1>5, <1>7 DEF Types
<1>9. Directions'
  <2>1. StreamKept(p) /\ WritersApart(p) /\ ReadInOrder(p)
    BY <1>1 DEF Directions
  <2>2. ReaderSame(Other(p)) /\ ReaderSame(p) /\ WritersSame(Other(p))
    BY <1>2, <1>4, <1>5, <1>7, Others DEF ReaderSame, WritersSame
  <2>3. StreamKept(p)' /\ WritersApart(p)' /\ ReadInOrder(p)'
    BY <1>1, <1>2, <1>3, <1>4, <1>6, <1>7, <2>1, <2>2, BeginKeeps
  <2> QED BY <1>1, <1>2, <2>2, <2>3, DirectionsByWriter
<1>10. sent[p] \in Seq(Nat) /\ Len(sent[p]) \in Nat /\ Len(sent[p]) # 0
       /\ Len(sent'[p]) = Len(sent[p]) + 1 /\ sent'[p] # << >>
  <2>1. sent[p] \in Seq(Nat) /\ Len(sent[p]) \in Nat /\ Len(sent[p]) # 0
    BY <1>1, <1>6, SizesAreNumbers, EmptySeq
  <2>2. size \in Nat
    BY SizesAssumption
  <2>3. sent'[p] \in Seq(Nat) /\ Len(sent'[p]) = Len(sent[p]) + 1
    BY <1>5, <2>1, <2>2, AppendProperties
  <2>4. sent'[p] # << >>
    BY <2>1, <2>3, EmptySeq
  <2> QED BY <2>1, <2>3, <2>4
<1>11. Handshake'
  <2>1. CASE p = Inviter
    <3>1. \A u \in AllThreads(Invitee) : /\ Unfinished(Invitee, u)' <=> Unfinished(Invitee, u)
                                         /\ pc'[Invitee][u] = pc[Invitee][u]
      BY <2>1, <1>4, <1>5, Others, UnfinishedFrame
    <3>2. \A q \in Processes :
             pc'[q][IO] \in {"relay", "write"} => pc[q][IO] \in {"relay", "write"}
      BY <1>4, Others
    <3> QED BY <2>1, <1>1, <1>2, <1>5, <1>6, <3>1, <3>2, Others, HandshakeKept
  <2>2. CASE p = Invitee
    <3>1. Invitee \in joined /\ joined' = joined /\ received' = received /\ started' = started
      BY <2>2, <1>2, <1>6
    <3>2. \A q \in Processes :
             pc'[q][IO] \in {"relay", "write"} => pc[q][IO] \in {"relay", "write"}
      BY <1>4, Others
    <3>3. sent'[Invitee] # << >> /\ Len(sent'[Invitee]) # 1 /\ received[Invitee] # << >>
      BY <2>2, <1>1, <1>6, <1>10 DEF Handshake
    <3> QED BY <1>1, <1>6, <3>1, <3>2, <3>3 DEF Handshake
  <2> QED BY <2>1, <2>2 DEF Processes
<1>12. WithinBounds'
  <2>1. Len(sent[p]) + 1 + Waiting(p)' <= MaxMessages[p]
    <3>1. MaxMessages[p] \in Nat
      BY ProcessesAssumption
    <3>2. CASE t # IO
      <4>1. Waiting(p)' = Waiting(p) /\ Waiting(p) \in Nat
        BY <3>2, <1>4, Others DEF Waiting
      <4>2. Len(sent[p]) + Waiting(p) < MaxMessages[p]
        BY <3>2, <1>2
      <4> QED BY <3>1, <4>1, <4>2, <1>10
    <3>3. CASE t = IO
      <4>1. Waiting(p)' = 0 /\ Waiting(p) = 1
        BY <3>3, <1>4 DEF Waiting
      <4> QED BY <3>1, <4>1, <1>1, <1>10 DEF WithinBounds
    <3> QED BY <3>2, <3>3
  <2>2. Len(sent'[p]) + Waiting(p)' <= MaxMessages[p]
    BY <1>10, <2>1
  <2>3. Waiting(Other(p))' = Waiting(Other(p))
    BY <1>4 DEF Waiting
  <2> QED BY <1>1, <1>5, <2>2, <2>3, Others DEF WithinBounds
<1>13. AbortsForCause'
  <2>1. \A q \in Processes : \/ sent'[q] = sent[q]
                             \/ \E s \in Sizes \cup {ControlSize} : sent'[q] = Append(sent[q], s)
    BY <1>5, Others, ZenonT(60)
  <2> QED BY <1>2, <1>8, <2>1, CausesKept
<1> QED BY <1>8, <1>9, <1>11, <1>12, <1>13 DEF IndInv

\* The kernel takes a chunk of a write.
LEMMA WriteChunkKeeps ==
    ASSUME IndInv, NEW p \in Processes, NEW t \in AllThreads(p), WriteChunk(p, t)
    PROVE  IndInv'
<1>1. Types /\ Directions /\ Handshake /\ WithinBounds
  BY DEF IndInv
<1>2. /\ UNCHANGED <<setup, started, joined, alive, killed, pc, lock, message, sent, buffer, received>>
      /\ socket' = [socket EXCEPT ![p] =
            socket[p] \o Bytes(message[p][t], written[p][t] + 1, NextChunk(p, t))]
      /\ written' = [written EXCEPT ![p] = [written[p] EXCEPT ![t] = NextChunk(p, t)]]
      /\ Unfinished(p, t)
  BY DEF WriteChunk, Writing, Unfinished, processVars, readerVars
<1>3. WritersApart(p) /\ StreamKept(p) /\ ReadInOrder(p)
  BY <1>1 DEF Directions
<1>4. /\ NextChunk(p, t) \in Nat
      /\ Bytes(message[p][t], written[p][t] + 1, NextChunk(p, t)) \in Seq(Octets)
  BY <1>1, <1>2, <1>3, ChunkIsBytes
<1>5. /\ socket' \in [Processes -> Seq(Octets)] /\ socket'[Other(p)] = socket[Other(p)]
      /\ written'[Other(p)] = written[Other(p)] /\ DOMAIN written' = Processes
      /\ \A q \in Processes : written'[q] \in [AllThreads(q) -> Nat]
      /\ \A u \in AllThreads(p) : u # t => written'[p][u] = written[p][u]
  <2>1. socket[p] \o Bytes(message[p][t], written[p][t] + 1, NextChunk(p, t)) \in Seq(Octets)
    <3> DEFINE x == Bytes(message[p][t], written[p][t] + 1, NextChunk(p, t))
    <3>1. x \in Seq(Octets) /\ socket[p] \in Seq(Octets)
      BY <1>1, <1>4 DEF Types
    <3> HIDE DEF x
    <3>2. socket[p] \o x \in Seq(Octets)
      BY <3>1, ConcatType, Zenon
    <3> QED BY <3>2 DEF x
  <2>2. socket' \in [Processes -> Seq(Octets)] /\ socket'[Other(p)] = socket[Other(p)]
    BY <1>1, <1>2, <2>1, Others DEF Types
  <2>3. DOMAIN written = Processes /\ \A q \in Processes : written[q] \in [AllThreads(q) -> Nat]
    BY <1>1 DEF Types
  <2>4. DOMAIN written' = Processes /\ written'[Other(p)] = written[Other(p)]
    BY <1>2, <2>3, Others
  <2>5. written'[p] = [written[p] EXCEPT ![t] = NextChunk(p, t)]
    BY <1>2, <2>3
  <2>6. written'[p] \in [AllThreads(p) -> Nat]
    BY <1>4, <2>3, <2>5
  <2>7. \A u \in AllThreads(p) : u # t => written'[p][u] = written[p][u]
    BY <2>3, <2>5
  <2> QED BY <2>2, <2>3, <2>4, <2>6, <2>7, Others, SMTT(30)
<1>6. Types'
  BY <1>1, <1>2, <1>5 DEF Types
<1>7. Directions'
  <2>1. StreamKept(p)' /\ WritersApart(p)' /\ ReadInOrder(p)'
    BY <1>1, <1>3, ChunkKeeps
  <2>2. WritersSame(Other(p)) /\ ReaderSame(p)
    BY <1>2, <1>5 DEF WritersSame, ReaderSame
  <2> QED BY <1>1, <1>5, <2>1, <2>2, DirectionsByWriter
<1>8. Handshake'
  <2>1. \A u \in AllThreads(Invitee) : Unfinished(Invitee, u)' => Unfinished(Invitee, u)
    <3>1. CASE p = Invitee
      BY <3>1, <1>2, <1>5 DEF Unfinished, SizeOf
    <3>2. CASE p = Inviter
      BY <3>2, <1>2, <1>5, Others, UnfinishedFrame
    <3> QED BY <3>1, <3>2 DEF Processes
  <2> QED BY <1>1, <1>2, <2>1, Others, HandshakeKept
<1>9. WithinBounds'
  BY <1>1, <1>2 DEF WithinBounds, Waiting
<1>10. AbortsForCause'
  BY <1>2, <1>6, CausesKept
<1> QED BY <1>6, <1>7, <1>8, <1>9, <1>10 DEF IndInv

\* A write that fails or is short ends the process.
LEMMA WriteFailsKeeps ==
    ASSUME IndInv, NEW p \in Processes, NEW t \in AllThreads(p), WriteFails(p, t)
    PROVE  IndInv'
<1>1. /\ Types /\ StreamKept(p) /\ WritersApart(p) /\ ReadInOrder(p)
      /\ AbortsForCause <=> (alive # Processes => Cause)
  BY AbortsForCauseMeans DEF IndInv, Directions
<1>2. /\ UNCHANGED <<setup, started, joined, killed, pc, lock, message, written, socket, sent,
                     buffer, received>>
      /\ alive' = alive \ {p} /\ Unfinished(p, t)
      /\ Other(p) \notin alive \/ (~(Len(socket[p]) < Capacity) /\ ~setup.blocking)
  BY DEF WriteFails, Writing, Unfinished, Abort, Closed, HasRoom, writerVars, readerVars
<1>3. Cause
  <2>1. CASE Other(p) \notin alive
    BY <2>1, <1>1, Others DEF IndInv
  <2>2. CASE ~(Len(socket[p]) < Capacity) /\ ~setup.blocking
    <3> DEFINE a == Upto(sent[p], Heard(p)) \o buffer[Other(p)]
               s == socket[p]
               c == Carried(p)
               r == Rest(p, t)
               b == Begun(p)
    <3>1. b = c \o r
      BY <1>1, <1>2 DEF StreamKept
    <3>2. r \in Seq(Octets) /\ Len(r) \in Nat \ {0} /\ s \in Seq(Octets) /\ b \in Seq(Octets)
      BY <1>1, <1>2, RestProperties, CarriedType
    <3>3. a \in Seq(Octets) /\ c = a \o s
      BY <1>1, CarriedType, ConcatType, Zenon DEF Carried
    <3> HIDE DEF a, s, c, r, b
    <3>4. c \in Seq(Octets) /\ Len(c) = Len(a) + Len(s)
      BY <3>2, <3>3, ConcatType
    <3>5. Len(b) = Len(c) + Len(r)
      BY <3>1, <3>2, <3>4, ConcatType
    <3>6. Len(a) \in Nat /\ Len(s) \in Nat /\ Capacity \in Nat
      BY <3>2, <3>3, LenProperties, SizesAssumption
    <3>7. Len(b) > Capacity
      BY <3>2, <3>4, <3>5, <3>6, <2>2 DEF s
    <3> QED BY <3>7, <2>2 DEF Cause, b
  <2> QED BY <1>2, <2>1, <2>2
<1>4. alive' \subseteq Processes /\ killed' \subseteq Processes /\ killed \subseteq killed'
  BY <1>1, <1>2 DEF Types
<1>5. DOMAIN pc' = Processes
      /\ \A q \in Processes :
            /\ pc'[q] \in [AllThreads(q) -> {"idle", "relay", "write", "body"}]
            /\ \A u \in AllThreads(q) : pc'[q][u] = pc[q][u]
  BY <1>1, <1>2 DEF Types
<1> QED BY <1>2, <1>3, <1>4, <1>5, DeathKeeps

\* A write is complete.
LEMMA WroteCompletes ==
    ASSUME IndInv, NEW p \in Processes, NEW t \in AllThreads(p), Wrote(p, t)
    PROVE  IndInv'
<1>1. Types /\ Directions /\ Handshake /\ WithinBounds
  BY DEF IndInv
<1>2. /\ \/ Goto(p, t, "write", "idle")
         \/ t = IO /\ Len(sent[p]) < MaxMessages[p] /\ Goto(p, t, "write", "relay")
      /\ lock' = IF lock[p] = t THEN [lock EXCEPT ![p] = NoThread] ELSE lock
      /\ joined' = IF t = IO THEN joined \cup {p} ELSE joined
      /\ written' = [written EXCEPT ![p] = [written[p] EXCEPT ![t] = 0]]
      /\ message' = [message EXCEPT ![p] = [message[p] EXCEPT ![t] = 0]]
      /\ UNCHANGED <<setup, started, alive, killed, socket, sent, buffer, received>>
  BY DEF Wrote, readerVars
<1>3. WritersApart(p) /\ StreamKept(p) /\ ReadInOrder(p)
  BY <1>1 DEF Directions
<1>4. /\ pc[p][t] = "write" /\ DOMAIN pc' = Processes
      /\ \/ pc'[p][t] = "idle"
         \/ t = IO /\ Len(sent[p]) < MaxMessages[p] /\ pc'[p][t] = "relay"
      /\ \A q \in Processes : pc'[q] \in [AllThreads(q) -> {"idle", "relay", "write", "body"}]
      /\ \A u \in AllThreads(p) : u # t => pc'[p][u] = pc[p][u]
      /\ pc'[Other(p)] = pc[Other(p)]
  <2>1. CASE Goto(p, t, "write", "idle")
    BY <1>1, <2>1, GotoEffect
  <2>2. CASE t = IO /\ Len(sent[p]) < MaxMessages[p] /\ Goto(p, t, "write", "relay")
    BY <1>1, <2>2, GotoEffect
  <2> QED BY <1>2, <2>1, <2>2
<1>5. /\ DOMAIN written' = Processes /\ DOMAIN message' = Processes
      /\ \A q \in Processes : /\ message'[q] \in [AllThreads(q) -> Nat]
                              /\ written'[q] \in [AllThreads(q) -> Nat]
      /\ \A u \in AllThreads(p) :
            u # t => message'[p][u] = message[p][u] /\ written'[p][u] = written[p][u]
      /\ message'[Other(p)] = message[Other(p)] /\ written'[Other(p)] = written[Other(p)]
  <2>1. /\ DOMAIN written = Processes /\ DOMAIN message = Processes
        /\ \A q \in Processes : /\ message[q] \in [AllThreads(q) -> Nat]
                                /\ written[q] \in [AllThreads(q) -> Nat]
    BY <1>1 DEF Types
  <2>2. /\ DOMAIN written' = Processes /\ DOMAIN message' = Processes
        /\ message'[Other(p)] = message[Other(p)] /\ written'[Other(p)] = written[Other(p)]
        /\ written'[p] = [written[p] EXCEPT ![t] = 0]
        /\ message'[p] = [message[p] EXCEPT ![t] = 0]
    BY <1>2, <2>1, Others
  <2>3. message'[p] \in [AllThreads(p) -> Nat] /\ written'[p] \in [AllThreads(p) -> Nat]
    BY <2>1, <2>2
  <2>4. \A u \in AllThreads(p) :
            u # t => message'[p][u] = message[p][u] /\ written'[p][u] = written[p][u]
    BY <2>1, <2>2
  <2> QED BY <2>1, <2>2, <2>3, <2>4, Others
<1>6. /\ lock' \in [Processes -> (UNION {AllThreads(q) : q \in Processes}) \cup {NoThread}]
      /\ lock'[Other(p)] = lock[Other(p)]
  BY <1>1, <1>2, Others DEF Types
<1>7. Types'
  BY <1>1, <1>2, <1>4, <1>5, <1>6 DEF Types
<1>8. Directions'
  <2>1. StreamKept(p)' /\ WritersApart(p)' /\ ReadInOrder(p)'
    BY <1>1, <1>3, WroteKeeps
  <2>2. WritersSame(Other(p)) /\ ReaderSame(p)
    BY <1>2, <1>4, <1>5, <1>6, Others DEF WritersSame, ReaderSame
  <2> QED BY <1>1, <1>2, <2>1, <2>2, DirectionsByWriter
<1>9. /\ \A q \in Processes :
            pc'[q][IO] \in {"relay", "write"} => pc[q][IO] \in {"relay", "write"}
      /\ t = IO => received[p] # << >>
  BY <1>1, <1>4, Others DEF Handshake
<1>10. Handshake'
  <2>1. CASE p = Inviter
    <3>1. \A u \in AllThreads(Invitee) : /\ Unfinished(Invitee, u)' <=> Unfinished(Invitee, u)
                                         /\ pc'[Invitee][u] = pc[Invitee][u]
      <4>1. /\ sent'[Invitee] = sent[Invitee] /\ message'[Invitee] = message[Invitee]
            /\ written'[Invitee] = written[Invitee] /\ pc'[Invitee] = pc[Invitee]
        BY <2>1, <1>2, <1>4, <1>5, Others
      <4> QED BY <4>1, Others, UnfinishedFrame
    <3> QED BY <2>1, <1>1, <1>2, <1>9, <3>1, Others, HandshakeKept
  <2>2. CASE p = Invitee
    <3>1. joined' = joined \cup {Invitee}
      <4>1. t # IO => Invitee \in joined
        BY <2>2, <1>1, <1>4 DEF Handshake
      <4> QED BY <4>1, <2>2, <1>2
    <3>2. sent'[Invitee] # << >>
      <4>1. Len(sent[p]) # 0
        BY <1>3, <1>4 DEF WritersApart
      <4> QED BY <4>1, <1>2, <2>2
    <3>3. \A u \in AllThreads(Invitee) : Unfinished(Invitee, u)' => u # t /\ Unfinished(Invitee, u)
      BY <2>2, <1>2, <1>4, <1>5 DEF Unfinished, SizeOf
    <3>4. Len(sent'[Invitee]) = 1 => \A u \in AllThreads(Invitee) : ~Unfinished(Invitee, u)'
      <4>1. CASE Invitee \in joined
        BY <4>1, <1>1, <1>2, <3>3 DEF Handshake
      <4>2. CASE Invitee \notin joined
        <5>1. \A u \in AllThreads(Invitee) \ {IO} : pc[Invitee][u] # "write"
          BY <4>2, <1>1 DEF Handshake
        <5>2. t = IO
          BY <5>1, <1>4, <2>2
        <5> QED BY <5>1, <5>2, <3>3 DEF Unfinished
      <4> QED BY <4>1, <4>2
    <3> QED BY <1>1, <1>2, <1>9, <3>1, <3>2, <3>4, Others DEF Handshake
  <2> QED BY <2>1, <2>2 DEF Processes
<1>11. WithinBounds'
  <2>1. Waiting(Other(p))' = Waiting(Other(p))
    BY <1>4, Others DEF Waiting
  <2>2. Len(sent[p]) + Waiting(p)' <= MaxMessages[p]
    <3>1. Len(sent[p]) \in Nat /\ MaxMessages[p] \in Nat /\ Len(sent[p]) + Waiting(p) <= MaxMessages[p]
      BY <1>1, SizesAreNumbers, ProcessesAssumption DEF WithinBounds
    <3>2. CASE pc'[p][t] = "relay"
      <4>1. Len(sent[p]) < MaxMessages[p] /\ Waiting(p)' = 1
        BY <3>2, <1>4 DEF Waiting
      <4> QED BY <3>1, <4>1
    <3>3. CASE pc'[p][t] # "relay"
      <4>1. Waiting(p)' = Waiting(p)
        BY <3>3, <1>4, Others DEF Waiting
      <4> QED BY <3>1, <4>1
    <3> QED BY <3>2, <3>3
  <2> QED BY <1>1, <1>2, <2>1, <2>2, Others DEF WithinBounds
<1>12. AbortsForCause'
  BY <1>2, <1>7, CausesKept
<1> QED BY <1>7, <1>8, <1>10, <1>11, <1>12 DEF IndInv

\* What the reader leaves of the threads when it stays where it is.
LEMMA ReaderStays ==
    ASSUME Types, NEW q \in Processes, NEW at \in {"idle", "body"}, Goto(q, IO, at, at)
    PROVE  /\ pc[q][IO] = at /\ q \in alive /\ DOMAIN pc' = Processes
           /\ \A p \in Processes :
                 /\ pc'[p] \in [AllThreads(p) -> {"idle", "relay", "write", "body"}]
                 /\ \A t \in AllThreads(p) : pc'[p][t] = pc[p][t]
<1>1. IO \in AllThreads(q) /\ at \in {"idle", "relay", "write", "body"}
  BY Others
<1>2. /\ q \in alive /\ pc[q][IO] = at
      /\ DOMAIN pc' = Processes
      /\ \A p \in Processes : pc'[p] \in [AllThreads(p) -> {"idle", "relay", "write", "body"}]
      /\ pc'[q][IO] = at /\ \A u \in AllThreads(q) : u # IO => pc'[q][u] = pc[q][u]
      /\ pc'[Other(q)] = pc[Other(q)]
  BY <1>1, GotoEffect
<1> QED BY <1>2, Others

\* A socket that ends, or a part of a header, ends the process.
LEMMA ReadPartOfHeaderKeeps ==
    ASSUME IndInv, NEW q \in Processes, ReadPartOfHeader(q)
    PROVE  IndInv'
<1> DEFINE p == Other(q)
<1>1. /\ Types /\ Directions /\ p \in Processes /\ Other(p) = q
      /\ AbortsForCause <=> (alive # Processes => Cause)
  BY AbortsForCauseMeans, Others DEF IndInv
<1>2. /\ Goto(q, IO, "idle", "idle")
      /\ UNCHANGED <<setup, started, joined, killed, lock, message, written, socket, sent,
                     buffer, received>>
      /\ alive' = alive \ {q}
      /\ Incoming(q) # << >> \/ p \notin alive
      /\ Len(Incoming(q)) < HeaderSize
  BY DEF ReadPartOfHeader, Abort, Closed, writerVars, readerVars
<1>3. /\ pc[q][IO] = "idle" /\ DOMAIN pc' = Processes
      /\ \A r \in Processes :
            /\ pc'[r] \in [AllThreads(r) -> {"idle", "relay", "write", "body"}]
            /\ \A t \in AllThreads(r) : pc'[r][t] = pc[r][t]
  BY <1>1, <1>2, ReaderStays
<1>4. Cause
  <2>1. CASE p \notin alive
    BY <2>1, <1>1 DEF IndInv
  <2>2. CASE Incoming(q) # << >>
    <3> SUFFICES ASSUME ~Cause PROVE FALSE
      OBVIOUS
    <3>1. buffer[q] = << >> /\ Incoming(q) = socket[p] /\ socket[p] \in Seq(Octets)
      BY <1>1, <1>3 DEF Directions, ReadInOrder, Incoming, Types
    <3>2. buffer[q] \o socket[p] = socket[p]
      BY <3>1, ConcatEmpty, Zenon
    <3>3. /\ Heard(p) + 1 \in 1..Len(sent[p])
          /\ sent[p][Heard(p) + 1] <= Len(socket[p])
      BY <1>1, <2>2, <3>1, <3>2, HeldWhole
    <3>4. HeaderSize \in Nat /\ sent[p][Heard(p) + 1] \in Nat /\ HeaderSize < sent[p][Heard(p) + 1]
      BY <1>1, <3>3, SizesAreNumbers
    <3>5. Len(socket[p]) \in Nat /\ Len(socket[p]) < HeaderSize
      BY <1>2, <3>1, LenProperties
    <3> QED BY <3>3, <3>4, <3>5
  <2> QED BY <1>2, <2>1, <2>2
<1>5. alive' \subseteq Processes /\ killed' \subseteq Processes /\ killed \subseteq killed'
  BY <1>1, <1>2 DEF Types
<1> QED BY <1>2, <1>3, <1>4, <1>5, DeathKeeps

\* A part of a body ends the process.
LEMMA ReadPartOfBodyKeeps ==
    ASSUME IndInv, NEW q \in Processes, ReadPartOfBody(q)
    PROVE  IndInv'
<1> DEFINE p == Other(q)
<1>1. Types /\ Directions /\ p \in Processes /\ Other(p) = q
  BY Others DEF IndInv
<1>2. /\ Goto(q, IO, "body", "body")
      /\ UNCHANGED <<setup, started, joined, killed, lock, message, written, socket, sent,
                     buffer, received>>
      /\ alive' = alive \ {q}
      /\ Len(Incoming(q)) < BodySize(q)
  BY DEF ReadPartOfBody, BodyIsShort, Abort, writerVars, readerVars
<1>3. /\ pc[q][IO] = "body" /\ DOMAIN pc' = Processes
      /\ \A r \in Processes :
            /\ pc'[r] \in [AllThreads(r) -> {"idle", "relay", "write", "body"}]
            /\ \A t \in AllThreads(r) : pc'[r][t] = pc[r][t]
  BY <1>1, <1>2, ReaderStays
<1>4. Cause
  <2> SUFFICES ASSUME ~Cause PROVE FALSE
    OBVIOUS
  <2>1. /\ buffer[q] \in Seq(Octets) /\ Len(buffer[q]) = HeaderSize
        /\ BodySize(q) = sent[p][Heard(p) + 1] - HeaderSize
    BY <1>1, <1>3, Announced DEF Directions
  <2>2. /\ Incoming(q) = socket[p] /\ socket[p] \in Seq(Octets)
        /\ HeaderSize \in Nat \ {0}
    BY <1>1, SizesAreNumbers DEF Incoming, Types
  <2>3. Len(buffer[q] \o socket[p]) = HeaderSize + Len(socket[p]) /\ Len(socket[p]) \in Nat
    <3>1. Len(buffer[q] \o socket[p]) = Len(buffer[q]) + Len(socket[p])
      BY <2>1, <2>2, ConcatType, Zenon
    <3> QED BY <2>1, <2>2, <3>1, LenProperties
  <2>4. buffer[q] \o socket[p] # << >>
    <3> DEFINE held == buffer[q] \o socket[p]
    <3>1. Len(held) # 0
      BY <2>2, <2>3
    <3> HIDE DEF held
    <3>2. held # << >>
      BY <3>1, EmptySeq
    <3> QED BY <3>2 DEF held
  <2>5. /\ Heard(p) + 1 \in 1..Len(sent[p])
        /\ sent[p][Heard(p) + 1] <= Len(buffer[q] \o socket[p])
    BY <1>1, <2>4, HeldWhole
  <2>6. sent[p][Heard(p) + 1] \in Nat
    BY <1>1, <2>5, SizesAreNumbers
  <2> QED BY <1>2, <2>1, <2>2, <2>3, <2>5, <2>6
<1>5. alive' \subseteq Processes /\ killed' \subseteq Processes /\ killed \subseteq killed'
  BY <1>1, <1>2 DEF Types
<1> QED BY <1>2, <1>3, <1>4, <1>5, DeathKeeps

\* A process is killed.
LEMMA KillKeeps ==
    ASSUME IndInv, NEW p \in Processes, Kill(p)
    PROVE  IndInv'
<1>1. /\ UNCHANGED <<setup, started, joined, lock, message, written, socket, sent,
                     buffer, received, pc>>
      /\ alive' = alive \ {p} /\ killed' = killed \cup {p}
  BY DEF Kill, writerVars, readerVars
<1>2. /\ alive' \subseteq Processes /\ killed' \subseteq Processes /\ killed \subseteq killed'
      /\ killed' # {}
      /\ DOMAIN pc' = Processes
      /\ \A q \in Processes :
            /\ pc'[q] \in [AllThreads(q) -> {"idle", "relay", "write", "body"}]
            /\ \A t \in AllThreads(q) : pc'[q][t] = pc[q][t]
  BY <1>1 DEF IndInv, Types
<1> QED BY <1>1, <1>2, DeathKeeps

\* A header is read.
LEMMA ReadHeaderKeeps ==
    ASSUME IndInv, NEW q \in Processes, ReadHeader(q)
    PROVE  IndInv'
<1> DEFINE p == Other(q)
<1>1. /\ Types /\ Directions /\ Handshake /\ WithinBounds
      /\ p \in Processes /\ Other(p) = q /\ IO \in AllThreads(q)
  BY Others DEF IndInv
<1>2. /\ Goto(q, IO, "idle", "body")
      /\ UNCHANGED <<setup, started, joined, alive, killed, lock, message, written, sent, received>>
      /\ buffer' = [buffer EXCEPT ![q] = Taken(q, HeaderSize)]
      /\ socket' = [socket EXCEPT ![p] = Left(q, HeaderSize)]
  BY DEF ReadHeader, processVars
<1>3. /\ pc[q][IO] = "idle" /\ pc'[q][IO] = "body" /\ DOMAIN pc' = Processes
      /\ \A r \in Processes : pc'[r] \in [AllThreads(r) -> {"idle", "relay", "write", "body"}]
      /\ \A u \in AllThreads(q) : u # IO => pc'[q][u] = pc[q][u]
      /\ pc'[p] = pc[p]
  BY <1>1, <1>2, GotoEffect
<1>4. /\ StreamKept(p)' /\ WritersApart(p)' /\ ReadInOrder(p)'
      /\ Taken(q, HeaderSize) \in Seq(Octets) /\ Left(q, HeaderSize) \in Seq(Octets)
  BY <1>1, HeaderKeeps DEF Directions
<1>5. /\ socket' \in [Processes -> Seq(Octets)] /\ buffer' \in [Processes -> Seq(Octets)]
      /\ socket'[q] = socket[q] /\ buffer'[p] = buffer[p]
  BY <1>1, <1>2, <1>4, Others DEF Types
<1>6. Types'
  BY <1>1, <1>2, <1>3, <1>5 DEF Types
<1>7. Directions'
  <2>1. WritersSame(q) /\ ReaderSame(p)
    BY <1>2, <1>3, <1>5 DEF WritersSame, ReaderSame
  <2> QED BY <1>1, <1>4, <1>5, <2>1, DirectionsByReader
<1>8. Handshake'
  <2>1. \A r \in Processes : \A u \in AllThreads(r) :
           /\ pc'[r][u] = "write" <=> pc[r][u] = "write"
           /\ pc'[r][u] = "relay" <=> pc[r][u] = "relay"
    BY <1>3, Others
  <2>2. \A u \in AllThreads(Invitee) : Unfinished(Invitee, u)' <=> Unfinished(Invitee, u)
    BY <1>2, <2>1, Others, UnfinishedFrame
  <2> QED BY <1>1, <1>2, <2>1, <2>2, Others, HandshakeKept
<1>9. WithinBounds'
  <2>1. \A r \in Processes : Waiting(r)' = Waiting(r)
    BY <1>3, Others DEF Waiting
  <2> QED BY <1>1, <1>2, <2>1 DEF WithinBounds
<1>10. AbortsForCause'
  BY <1>2, <1>6, CausesKept
<1> QED BY <1>6, <1>7, <1>8, <1>9, <1>10 DEF IndInv

\* The rest of a message is read and handed on.
LEMMA ReadBodyKeeps ==
    ASSUME IndInv, NEW q \in Processes, pc[q][IO] = "body", ReadBody(q)
    PROVE  IndInv'
<1> DEFINE p == Other(q)
           First == q = Invitee /\ received[q] = << >>
           Next1 == Goto(q, IO, "body", "write") /\ Begin(q, IO, ControlSize)
           Next2 == Goto(q, IO, "body", "idle")
           Next3 == Goto(q, IO, "body", "relay") /\ Len(sent[q]) < MaxMessages[q]
           Admits == /\ joined \subseteq joined' /\ joined' \subseteq joined \cup {q}
                     /\ q = Invitee => joined' = joined
           Same == message' = message /\ written' = written /\ sent' = sent
<1>1. /\ Types /\ Directions /\ Handshake /\ WithinBounds
      /\ p \in Processes /\ Other(p) = q /\ p # q /\ IO \in AllThreads(q)
  BY Others DEF IndInv
<1>2. /\ ~BodyIsShort(q)
      /\ UNCHANGED <<setup, started, alive, killed, lock>>
      /\ Admits
      /\ socket' = [socket EXCEPT ![p] = Left(q, BodySize(q))]
      /\ buffer' = [buffer EXCEPT ![q] = << >>]
      /\ received' = [received EXCEPT ![q] =
                         Append(received[q], Decoded(q, buffer[q] \o Taken(q, BodySize(q))))]
      /\ (First /\ Next1) \/ (~First /\ Same /\ (Next2 \/ Next3))
  <2> DEFINE i == Len(received[q]) + 1
  <2>1. received[q] \in Seq(Nat) /\ Len(received[q]) \in Nat
    BY <1>1, LenProperties DEF Types
  <2>2. (i = 1 <=> received[q] = << >>) /\ (i > 1 <=> received[q] # << >>)
    <3>1. Len(received[q]) = 0 <=> received[q] = << >>
      BY <2>1, EmptySeq
    <3> QED BY <2>1, <3>1
  <2>3. /\ q = Invitee /\ i = 1 <=> First
        /\ q = Inviter \/ i > 1 <=> ~First
        /\ Forwards(q, i) => ~First
    BY <2>2, Others DEF Forwards, Processes
  <2>4. q = Inviter => q # Invitee
    BY Others
  <2> HIDE DEF i, First
  <2>5. /\ ~BodyIsShort(q)
        /\ \/ /\ First /\ Goto(q, IO, "body", "write") /\ Begin(q, IO, ControlSize)
              /\ UNCHANGED joined
           \/ /\ ~First /\ Goto(q, IO, "body", "idle")
              /\ joined' = IF q = Inviter THEN joined \cup {q} ELSE joined
              /\ UNCHANGED <<message, written, sent>>
           \/ /\ ~First /\ Len(sent[q]) < MaxMessages[q]
              /\ Goto(q, IO, "body", "relay")
              /\ UNCHANGED <<message, written, sent, joined>>
        /\ socket' = [socket EXCEPT ![p] = Left(q, BodySize(q))]
        /\ buffer' = [buffer EXCEPT ![q] = << >>]
        /\ received' = [received EXCEPT ![q] =
                           Append(received[q], Decoded(q, buffer[q] \o Taken(q, BodySize(q))))]
        /\ UNCHANGED <<setup, started, alive, killed, lock>>
    BY <2>3 DEF ReadBody, i
  <2>6. Admits
    BY <2>4, <2>5
  <2> QED BY <2>5, <2>6
<1>3. /\ pc'[q][IO] \in {"write", "idle", "relay"}
      /\ First <=> pc'[q][IO] = "write"
      /\ pc'[q][IO] = "relay" => Len(sent[q]) < MaxMessages[q]
      /\ DOMAIN pc' = Processes
      /\ \A r \in Processes : pc'[r] \in [AllThreads(r) -> {"idle", "relay", "write", "body"}]
      /\ \A u \in AllThreads(q) : u # IO => pc'[q][u] = pc[q][u]
      /\ pc'[p] = pc[p]
  <2> HIDE DEF First
  <2>1. CASE First /\ Goto(q, IO, "body", "write")
    BY <1>1, <2>1, GotoEffect
  <2>2. CASE ~First /\ Goto(q, IO, "body", "idle")
    BY <1>1, <2>2, GotoEffect
  <2>3. CASE ~First /\ Next3
    BY <1>1, <2>3, GotoEffect
  <2> QED BY <1>2, <2>1, <2>2, <2>3
<1>4. /\ First => Begin(q, IO, ControlSize) /\ sent[q] = << >>
      /\ ~First => Same
  BY <1>1, <1>2 DEF Handshake
<1>5. /\ DOMAIN message' = Processes /\ DOMAIN written' = Processes
      /\ \A r \in Processes : /\ message'[r] \in [AllThreads(r) -> Nat]
                              /\ written'[r] \in [AllThreads(r) -> Nat]
      /\ sent' \in [Processes -> Seq(Sizes \cup {ControlSize})]
      /\ message'[p] = message[p] /\ written'[p] = written[p] /\ sent'[p] = sent[p]
      /\ First => sent'[q] = Append(sent[q], ControlSize)
  <2>1. CASE First
    <3>1. Begin(q, IO, ControlSize) /\ ControlSize \in Sizes \cup {ControlSize}
      BY <2>1, <1>4
    <3> QED BY <1>1, <3>1, BeginEffect
  <2>2. CASE ~First
    BY <2>2, <1>1, <1>4 DEF Types
  <2> QED BY <2>1, <2>2
<1>6. WritersSame(p)
  BY <1>2, <1>3, <1>5 DEF WritersSame
<1>7. /\ StreamKept(p)' /\ WritersApart(p)' /\ ReadInOrder(p)'
      /\ received'[q] \in Seq(Nat) /\ received'[q] # << >>
  <2>1. StreamKept(p) /\ WritersApart(p) /\ ReadInOrder(p)
    BY <1>1 DEF Directions
  <2>2. pc'[q][IO] # "body"
    BY <1>3
  <2> QED BY <1>1, <1>2, <1>6, <2>1, <2>2, BodyKeeps
<1>8. Left(q, BodySize(q)) \in Seq(Octets)
  BY <1>1, <1>2, BodyTaken DEF Directions
<1>9. /\ socket' \in [Processes -> Seq(Octets)] /\ socket'[q] = socket[q]
      /\ buffer' \in [Processes -> Seq(Octets)] /\ buffer'[p] = buffer[p]
      /\ received' \in [Processes -> Seq(Nat)] /\ received'[p] = received[p]
  <2>1. << >> \in Seq(Octets)
    OBVIOUS
  <2>2. /\ socket' \in [Processes -> Seq(Octets)] /\ socket'[q] = socket[q]
        /\ buffer' \in [Processes -> Seq(Octets)] /\ buffer'[p] = buffer[p]
    BY <2>1, <1>1, <1>2, <1>8 DEF Types
  <2> DEFINE x == Append(received[q], Decoded(q, buffer[q] \o Taken(q, BodySize(q))))
  <2>3. received' = [received EXCEPT ![q] = x]
    BY <1>2
  <2> HIDE DEF x
  <2>4. received'[q] = x
    BY <2>3, <1>1 DEF Types
  <2>5. received' \in [Processes -> Seq(Nat)] /\ received'[p] = received[p]
    BY <2>3, <2>4, <1>1, <1>7 DEF Types
  <2> QED BY <2>2, <2>5
<1>10. joined' \subseteq Processes /\ joined \subseteq joined'
  BY <1>1, <1>2 DEF Types
<1> HIDE DEF First
<1>11. Types'
  BY <1>1, <1>2, <1>3, <1>5, <1>9, <1>10 DEF Types
<1>12. Directions'
  <2>1. StreamKept(q) /\ WritersApart(q) /\ ReadInOrder(q)
    BY <1>1 DEF Directions
  <2>2. ReaderSame(p)
    BY <1>3, <1>9 DEF ReaderSame
  <2>3. CASE First
    <3>1. \A u \in AllThreads(q) : ~Unfinished(q, u)
      <4>1. sent[q] = << >>
        BY <2>3, <1>4
      <4>2. Len(sent[q]) = 0
        BY <4>1
      <4> QED BY <4>2, <2>1 DEF WritersApart, Unfinished
    <3>2. ControlSize \in Sizes \cup {ControlSize}
      OBVIOUS
    <3>3. StreamKept(q)' /\ WritersApart(q)' /\ ReadInOrder(q)'
      BY <1>1, <1>3, <1>4, <1>9, <2>1, <2>2, <2>3, <3>1, <3>2, BeginKeeps
    <3> QED BY <3>3, <1>1, <1>7, Others DEF Directions
  <2>4. CASE ~First
    <3>1. WritersSame(q)
      BY <2>4, <1>2, <1>3, <1>4 DEF WritersSame
    <3> QED BY <3>1, <2>2, <1>1, <1>7, <1>9, DirectionsByReader
  <2> QED BY <2>3, <2>4
<1>13. Handshake'
  <2>1. CASE q = Inviter
    <3>0. sent[Invitee] # << >>
      <4>1. p = Invitee /\ ReadInOrder(p)
        BY <2>1, <1>1, Others DEF Directions
      <4>2. Heard(p) < Len(sent[p]) /\ Heard(p) \in 0..Len(sent[p])
        BY <4>1, <1>1, HeardInRange DEF ReadInOrder
      <4>3. Len(sent[p]) # 0
        BY <4>2
      <4> QED BY <4>1, <4>3
    <3>1. /\ p = Invitee /\ received'[Inviter] # << >> /\ Inviter \in started'
          /\ Invitee \in joined' <=> Invitee \in joined
      <4>1. received[Invitee] # << >>
        BY <3>0, <1>1 DEF Handshake
      <4>2. Inviter \in started
        BY <4>1, <1>1, HeardMeansSent
      <4> QED BY <4>2, <2>1, <1>2, <1>7, Others
    <3>2. \A u \in AllThreads(Invitee) : /\ Unfinished(Invitee, u)' <=> Unfinished(Invitee, u)
                                         /\ pc'[Invitee][u] = pc[Invitee][u]
      <4>1. /\ sent'[Invitee] = sent[Invitee] /\ message'[Invitee] = message[Invitee]
            /\ written'[Invitee] = written[Invitee] /\ pc'[Invitee] = pc[Invitee]
        BY <3>1, <1>3, <1>5
      <4> QED BY <4>1, Others, UnfinishedFrame
    <3>3. sent'[Invitee] = sent[Invitee] /\ received'[Invitee] = received[Invitee]
      BY <3>1, <1>5, <1>9
    <3>4. /\ \A r \in Processes : pc'[r][IO] \in {"relay", "write"} => received'[r] # << >>
          /\ Invitee \in joined' <=> Invitee \in joined
          /\ pc'[Invitee][IO] = pc[Invitee][IO]
      BY <2>1, <3>1, <3>2, <3>3, <1>1, <1>3, Others DEF Handshake, Processes
    <3> QED BY <1>1, <3>1, <3>2, <3>3, <3>4, Others DEF Handshake
  <2>2. CASE q = Invitee
    <3>1. /\ p = Inviter /\ received'[Invitee] # << >> /\ started' = started /\ joined' = joined
          /\ received'[Inviter] = received[Inviter] /\ sent'[Inviter] = sent[Inviter]
          /\ pc'[Inviter] = pc[Inviter]
      BY <2>2, <1>2, <1>3, <1>5, <1>7, <1>9, Others
    <3>2. /\ Inviter \notin started' => sent'[Inviter] = << >>
          /\ Inviter \in joined' => received'[Inviter] # << >>
          /\ \A r \in Processes : pc'[r][IO] \in {"relay", "write"} => received'[r] # << >>
      BY <3>1, <1>1 DEF Handshake, Processes
    <3>3. /\ First => Invitee \notin joined /\ sent[Invitee] = << >>
          /\ ~First => Invitee \in joined /\ Same
      <4>1. First => sent[Invitee] = << >>
        BY <2>2, <1>4
      <4>2. ~First => received[Invitee] # << >>
        BY <2>2 DEF First
      <4>3. pc[Invitee][IO] = "body"
        BY <2>2
      <4> QED BY <4>1, <4>2, <4>3, <1>1, <1>4 DEF Handshake
    <3>4. /\ pc'[Invitee][IO] = "relay" => Invitee \in joined'
          /\ pc'[Invitee][IO] # "write" => Invitee \in joined'
          /\ Invitee \in joined' => sent'[Invitee] # << >>
      BY <2>2, <3>1, <3>3, <1>1, <1>3 DEF Handshake
    <3>5. Invitee \in joined' /\ Len(sent'[Invitee]) = 1 =>
              \A t \in AllThreads(Invitee) : ~Unfinished(Invitee, t)'
      <4>1. CASE First
        BY <4>1, <3>1, <3>3
      <4>2. CASE ~First
        <5>1. \A t \in AllThreads(Invitee) : pc'[Invitee][t] = "write" <=> pc[Invitee][t] = "write"
          BY <4>2, <2>2, <1>3
        <5>2. \A t \in AllThreads(Invitee) : Unfinished(Invitee, t)' <=> Unfinished(Invitee, t)
          BY <5>1, <4>2, <3>3, Others, UnfinishedFrame
        <5> QED BY <5>2, <4>2, <3>1, <3>3, <1>1 DEF Handshake
      <4> QED BY <4>1, <4>2
    <3>6. Invitee \notin joined' =>
              \A t \in AllThreads(Invitee) \ {IO} : pc'[Invitee][t] # "write"
      BY <2>2, <3>1, <1>1, <1>3 DEF Handshake
    <3> QED BY <3>1, <3>2, <3>4, <3>5, <3>6 DEF Handshake
  <2> QED BY <2>1, <2>2 DEF Processes
<1>14. WithinBounds'
  <2>1. MaxMessages[q] \in Nat \ {0} /\ sent[q] \in Seq(Nat) /\ Len(sent[q]) \in Nat
    BY <1>1, ProcessesAssumption, SizesAreNumbers
  <2>2. Len(sent'[q]) + Waiting(q)' <= MaxMessages[q]
    <3>1. CASE First
      <4>1. Len(sent'[q]) = 1
        BY <3>1, <2>1, <1>4, <1>5
      <4>2. Waiting(q)' = 0
        BY <3>1, <1>3 DEF Waiting
      <4> QED BY <2>1, <4>1, <4>2
    <3>2. CASE ~First /\ pc'[q][IO] = "relay"
      BY <3>2, <2>1, <1>3, <1>4 DEF Waiting
    <3>3. CASE ~First /\ pc'[q][IO] # "relay"
      <4>1. Len(sent[q]) + Waiting(q) <= MaxMessages[q] /\ Waiting(q) = 0
        BY <1>1 DEF WithinBounds, Waiting
      <4> QED BY <3>3, <4>1, <2>1, <1>4 DEF Waiting
    <3> QED BY <3>1, <3>2, <3>3
  <2>3. Waiting(p)' = Waiting(p)
    BY <1>3 DEF Waiting
  <2> QED BY <2>2, <2>3, <1>1, <1>5, Others DEF WithinBounds
<1>15. AbortsForCause'
  <2>1. \A r \in Processes : \/ sent'[r] = sent[r]
                             \/ \E size \in Sizes \cup {ControlSize} : sent'[r] = Append(sent[r], size)
    BY <1>4, <1>5, Others, ZenonT(60)
  <2> QED BY <1>2, <1>11, <2>1, CausesKept
<1> QED BY <1>11, <1>12, <1>13, <1>14, <1>15 DEF IndInv
-----------------------------------------------------------------------------
(* The invariant is inductive.                                              *)

\* Nothing is written or read at first.
LEMMA InitEstablishes == Init => IndInv
<1> SUFFICES ASSUME Init PROVE IndInv
  OBVIOUS
<1>1. /\ setup \in Setups /\ started = {} /\ joined = {} /\ alive = Processes /\ killed = {}
      /\ lock = [p \in Processes |-> NoThread]
      /\ pc = [p \in Processes |-> [t \in AllThreads(p) |-> "idle"]]
      /\ message = [p \in Processes |-> [t \in AllThreads(p) |-> 0]]
      /\ written = [p \in Processes |-> [t \in AllThreads(p) |-> 0]]
      /\ socket = [p \in Processes |-> << >>] /\ buffer = [p \in Processes |-> << >>]
      /\ sent = [p \in Processes |-> << >>] /\ received = [p \in Processes |-> << >>]
  BY DEF Init
<1>2. Types
  <2>1. setup \in AllSetups
    BY <1>1, SetupsAssumption
  <2>2. << >> \in Seq(Octets) /\ << >> \in Seq(Nat) /\ << >> \in Seq(Sizes \cup {ControlSize})
    OBVIOUS
  <2> QED BY <1>1, <2>1, <2>2 DEF Types
<1>3. \A p \in Processes : \A t \in AllThreads(p) : pc[p][t] = "idle" /\ ~Unfinished(p, t)
  BY <1>1 DEF Unfinished
<1>4. ASSUME NEW p \in Processes PROVE StreamKept(p) /\ WritersApart(p) /\ ReadInOrder(p)
  <2>1. /\ sent[p] = << >> /\ buffer[Other(p)] = << >> /\ socket[p] = << >>
        /\ received[Other(p)] = << >> /\ Heard(p) = 0 /\ Len(sent[p]) = 0
        /\ pc[Other(p)][IO] = "idle"
    BY <1>1, <1>3, Others DEF Heard
  <2>2. Upto(sent[p], 0) = << >>
    <3>1. sent[p] \in Seq(Nat) /\ 0 \in 0..Len(sent[p])
      BY <2>1
    <3> QED BY <3>1, UptoProperties
  <2>3. Begun(p) = Carried(p)
    <3>1. << >> \o << >> = << >>
      BY ConcatEmpty, Zenon
    <3> QED BY <2>1, <2>2, <3>1 DEF Begun, Carried
  <2>4. StreamKept(p)
    BY <1>3, <2>3 DEF StreamKept
  <2>5. WritersApart(p)
    BY <1>3 DEF WritersApart
  <2>6. << >> = [i \in 1..0 |-> i]
    OBVIOUS
  <2>7. ReadInOrder(p)
    BY <2>1, <2>6 DEF ReadInOrder
  <2> QED BY <2>4, <2>5, <2>7
<1>5. Directions
  BY <1>4 DEF Directions
<1>6. Handshake
  BY <1>1, <1>3, Others DEF Handshake
<1>7. WithinBounds
  <2>1. \A p \in Processes : Len(sent[p]) = 0 /\ Waiting(p) = 0 /\ MaxMessages[p] \in Nat
    BY <1>1, <1>3, Others, ProcessesAssumption DEF Waiting
  <2> QED BY <2>1 DEF WithinBounds
<1>8. AbortsForCause
  BY <1>1 DEF AbortsForCause
<1> QED BY <1>2, <1>5, <1>6, <1>7, <1>8 DEF IndInv

\* Every step keeps the invariant.
LEMMA NextKeeps == IndInv /\ [Next]_vars => IndInv'
<1> SUFFICES ASSUME IndInv, [Next]_vars PROVE IndInv'
  OBVIOUS
<1>1. ASSUME NEW t \in Threads[Inviter], SendInvitation(t) PROVE IndInv'
  BY <1>1, SendInvitationKeeps
<1>2. CASE AcceptInvitation
  BY <1>2, AcceptInvitationKeeps
<1>3. ASSUME NEW p \in Processes, NEW t \in AllThreads(p), SendMessage(p, t) PROVE IndInv'
  BY <1>3, SendMessageKeeps
<1>4. ASSUME NEW p \in Processes, NEW t \in AllThreads(p), Writer(p, t) PROVE IndInv'
  BY <1>4, WriteChunkKeeps, WriteFailsKeeps, WroteCompletes DEF Writer
<1>5. ASSUME NEW p \in Processes, Reader(p) PROVE IndInv'
  BY <1>5, ReadPartOfHeaderKeeps, ReadHeaderKeeps, ReadPartOfBodyKeeps, ReadBodyKeeps DEF Reader
<1>6. ASSUME NEW p \in Processes, Kill(p) PROVE IndInv'
  BY <1>6, KillKeeps
<1>7. CASE UNCHANGED vars
  <2>1. Types'
    BY <1>7 DEF IndInv, Types, vars
  <2>2. Directions'
    <3> SUFFICES ASSUME NEW p \in Processes
                 PROVE  StreamKept(p)' /\ WritersApart(p)' /\ ReadInOrder(p)'
      BY DEF Directions
    <3>1. WritersSame(p) /\ ReaderSame(Other(p)) /\ socket'[p] = socket[p]
      BY <1>7 DEF WritersSame, ReaderSame, vars
    <3> QED BY <3>1, DirectionKept DEF IndInv, Directions
  <2>3. Handshake'
    BY <1>7 DEF IndInv, Handshake, vars, Unfinished, SizeOf
  <2>4. WithinBounds'
    BY <1>7 DEF IndInv, WithinBounds, vars, Waiting
  <2>5. AbortsForCause'
    BY <1>7, <2>1, CausesKept DEF vars
  <2> QED BY <2>1, <2>2, <2>3, <2>4, <2>5 DEF IndInv
<1> QED BY <1>1, <1>2, <1>3, <1>4, <1>5, <1>6, <1>7 DEF Next

\* IndInv always holds.
THEOREM InductiveInvariant == Spec => []IndInv
<1>1. Init => IndInv
  BY InitEstablishes
<1>2. IndInv /\ [Next]_vars => IndInv'
  BY NextKeeps
<1> QED BY <1>1, <1>2, PTL DEF Spec
-----------------------------------------------------------------------------
(* What follows from it.                                                    *)

\* TypeOK follows from the invariant.
LEMMA TypeOKHolds == IndInv => TypeOK
<1> SUFFICES ASSUME IndInv PROVE TypeOK
  OBVIOUS
<1>1. Types /\ Directions /\ WithinBounds
  BY DEF IndInv
<1>2. /\ setup \in AllSetups
      /\ {started, joined, alive, killed} \subseteq SUBSET Processes
      /\ lock \in [Processes -> (UNION {AllThreads(p) : p \in Processes}) \cup {NoThread}]
  BY <1>1 DEF Types
<1>3. ASSUME NEW p \in Processes
      PROVE  /\ pc[p] \in [AllThreads(p) -> {"idle", "relay", "write", "body"}]
             /\ \A t \in AllThreads(p) :
                   pc[p][t] = "write" =>
                       message[p][t] \in DOMAIN sent[p] /\ written[p][t] \in 0..SizeOf(p, t)
             /\ ToSet(sent[p]) \subseteq Sizes \cup {ControlSize}
             /\ Len(sent[p]) <= MaxMessages[p]
             /\ Len(buffer[p]) \in {0, HeaderSize}
  <2>1. pc[p] \in [AllThreads(p) -> {"idle", "relay", "write", "body"}]
    BY <1>1 DEF Types
  <2>2. /\ sent[p] \in Seq(Nat) /\ Len(sent[p]) \in Nat /\ DOMAIN sent[p] = 1..Len(sent[p])
        /\ \A i \in 1..Len(sent[p]) : sent[p][i] \in Nat
        /\ HeaderSize \in Nat
    BY <1>1, SizesAreNumbers, LenProperties
  <2>3. ASSUME NEW t \in AllThreads(p), pc[p][t] = "write"
        PROVE  message[p][t] \in DOMAIN sent[p] /\ written[p][t] \in 0..SizeOf(p, t)
    <3>1. message[p][t] \in 1..Len(sent[p]) /\ written[p][t] <= SizeOf(p, t)
      BY <1>1, <2>3 DEF Directions, WritersApart
    <3>2. written[p][t] \in Nat /\ SizeOf(p, t) \in Nat
      BY <1>1, <2>2, <3>1 DEF Types, SizeOf
    <3> QED BY <2>2, <3>1, <3>2
  <2>4. ToSet(sent[p]) \subseteq Sizes \cup {ControlSize}
    <3>1. sent[p] \in Seq(Sizes \cup {ControlSize})
      BY <1>1 DEF Types
    <3> QED BY <2>2, <3>1, ElementOfSeq DEF ToSet
  <2>5. Len(sent[p]) <= MaxMessages[p]
    <3>1. Len(sent[p]) + Waiting(p) <= MaxMessages[p] /\ Waiting(p) \in Nat
      BY <1>1 DEF WithinBounds, Waiting
    <3>2. MaxMessages[p] \in Nat
      BY ProcessesAssumption
    <3> QED BY <2>2, <3>1, <3>2
  <2>6. Len(buffer[p]) \in {0, HeaderSize}
    <3>1. CASE pc[p][IO] = "body"
      BY <1>1, <3>1, Announced, Others DEF Directions
    <3>2. CASE pc[p][IO] # "body"
      <4>1. buffer[p] = << >>
        <5> DEFINE q == Other(p)
        <5>1. q \in Processes /\ Other(q) = p
          BY Others
        <5>2. ReadInOrder(q)
          BY <1>1, <5>1 DEF Directions
        <5> HIDE DEF q
        <5> QED BY <3>2, <5>1, <5>2 DEF ReadInOrder
      <4> QED BY <4>1
    <3> QED BY <3>1, <3>2
  <2> QED BY <2>1, <2>3, <2>4, <2>5, <2>6
<1> QED BY <1>2, <1>3 DEF TypeOK

\* StreamIsWhole follows from the invariant: what is carried and what is still to
\* be written make the stream.
LEMMA StreamIsWholeHolds == IndInv => StreamIsWhole
<1> SUFFICES ASSUME IndInv, NEW p \in Processes
             PROVE  IsPrefix((Read(Other(p)) \o buffer[Other(p)]) \o socket[p], Stream(p))
  BY DEF StreamIsWhole
<1>1. Types /\ StreamKept(p) /\ WritersApart(p) /\ ReadInOrder(p) /\ Other(Other(p)) = p
  BY Others DEF IndInv, Directions
<1>2. Read(Other(p)) = Upto(sent[p], Heard(p))
  <2> DEFINE q == Other(p)
             n == Heard(p)
  <2>1. received[q] = [i \in 1..n |-> i] /\ Other(q) = p
    BY <1>1 DEF ReadInOrder
  <2>2. DOMAIN received[q] = 1..n /\ \A i \in 1..n : received[q][i] = i
    <3> HIDE DEF q, n
    <3> QED BY <2>1
  <2> HIDE DEF n
  <2>3. [i \in DOMAIN received[q] |-> Bytes(received[q][i], 1, sent[Other(q)][received[q][i]])]
           = [i \in 1..n |-> Bytes(i, 1, sent[p][i])]
    BY <2>1, <2>2
  <2> QED BY <2>3 DEF Read, Upto, n
<1>3. (Read(Other(p)) \o buffer[Other(p)]) \o socket[p] = Carried(p)
  BY <1>2 DEF Carried
<1>4. Stream(p) = Begun(p)
  BY <1>1, StreamIsBegun
<1> DEFINE c == Carried(p)
           b == Begun(p)
<1>5. c \in Seq(Octets) /\ b \in Seq(Octets)
  BY <1>1, CarriedType
<1>6. \E rest \in Seq(Octets) : b = c \o rest
  <2>1. CASE \A t \in AllThreads(p) : ~Unfinished(p, t)
    <3>1. b = c
      BY <1>1, <2>1 DEF StreamKept
    <3> HIDE DEF b, c
    <3>2. << >> \in Seq(Octets) /\ c \o << >> = c
      BY <1>5, ConcatEmpty, Zenon
    <3> QED BY <3>1, <3>2
  <2>2. ASSUME NEW t \in AllThreads(p), Unfinished(p, t) PROVE \E rest \in Seq(Octets) : b = c \o rest
    <3>1. b = c \o Rest(p, t) /\ Rest(p, t) \in Seq(Octets)
      BY <1>1, <2>2, RestProperties DEF StreamKept
    <3> QED BY <3>1
  <2> QED BY <2>1, <2>2
<1> HIDE DEF b, c
<1>7. PICK rest \in Seq(Octets) : b = c \o rest
  BY <1>6
<1>8. Len(c) \in Nat /\ Len(b) = Len(c) + Len(rest) /\ Len(rest) \in Nat
  BY <1>5, <1>7, ConcatType, LenProperties
<1>9. << >> \in Seq(Octets) /\ b \o << >> = b
  BY <1>5, ConcatEmpty, Zenon
<1>10. SubSeq(c, 1, Len(c)) = SubSeq(b, 1, Len(c))
  <2> DEFINE k == Len(c)
  <2>1. c \o rest = b \o << >> /\ k \in Nat /\ k <= Len(c) /\ k <= Len(b)
    BY <1>7, <1>8, <1>9
  <2> HIDE DEF k
  <2>2. SubSeq(c, 1, k) = SubSeq(b, 1, k)
    BY <1>5, <1>9, <2>1, SameFront
  <2> QED BY <2>2 DEF k
<1>11. IsPrefix(c, b)
  BY <1>8, <1>10 DEF IsPrefix
<1> QED BY <1>3, <1>4, <1>11 DEF b, c

\* Every variable always has its type.
THEOREM TypeCorrect == Spec => []TypeOK
BY InductiveInvariant, TypeOKHolds, PTL

\* What is read, held and in the socket of a process is always a beginning of the
\* whole messages it began to write, one after the other, for all sizes of
\* messages, chunks and sockets and however many threads write.
THEOREM StreamIsAlwaysWhole == Spec => []StreamIsWhole
BY InductiveInvariant, StreamIsWholeHolds, PTL

\* A process never aborts without a cause.
THEOREM AbortsOnlyForCause == Spec => []AbortsForCause
<1>1. IndInv => AbortsForCause
  BY DEF IndInv
<1> QED BY <1>1, InductiveInvariant, PTL
-----------------------------------------------------------------------------
(* Each direction is a pipe.                                                *)

\* The first n + 1 numbers.
LEMMA CountUp ==
    ASSUME NEW n \in Nat
    PROVE  [i \in 1..(n + 1) |-> i] = Append([i \in 1..n |-> i], n + 1)
<1> DEFINE s == [i \in 1..n |-> i]
           t == [i \in 1..(n + 1) |-> i]
<1>1. s \in Seq(Nat) /\ Len(s) = n /\ \A i \in 1..n : s[i] = i
  OBVIOUS
<1>2. t \in Seq(Nat) /\ Len(t) = n + 1 /\ \A i \in 1..(n + 1) : t[i] = i
  OBVIOUS
<1> HIDE DEF s, t
<1>3. n + 1 \in Nat
  OBVIOUS
<1>4. /\ Append(s, n + 1) \in Seq(Nat) /\ Len(Append(s, n + 1)) = n + 1
      /\ \A i \in 1..n : Append(s, n + 1)[i] = s[i]
      /\ Append(s, n + 1)[n + 1] = n + 1
  BY <1>1, <1>3, AppendProperties
<1>5. \A i \in 1..(n + 1) : t[i] = Append(s, n + 1)[i]
  BY <1>1, <1>2, <1>4
<1>6. t = Append(s, n + 1)
  BY <1>2, <1>4, <1>5, SeqEqual
<1> QED BY <1>6 DEF s, t

\* A step begins or hands on a message of p, not both, or neither.
Begins(p) ==
    /\ \E size \in Sizes \cup {ControlSize} : sent'[p] = Append(sent[p], size)
    /\ received'[Other(p)] = received[Other(p)]
HandsOn(p) ==
    /\ sent'[p] = sent[p]
    /\ \E m : received'[Other(p)] = Append(received[Other(p)], m)
Neither(p) == sent'[p] = sent[p] /\ received'[Other(p)] = received[Other(p)]

\* A thread that begins a message begins one of its own process only.
LEMMA BeginsIt ==
    ASSUME Types, NEW q \in Processes, NEW t \in AllThreads(q),
           NEW size \in Sizes \cup {ControlSize}, Begin(q, t, size), received' = received
    PROVE  \A p \in Processes : Begins(p) \/ Neither(p)
<1>1. sent'[q] = Append(sent[q], size) /\ sent'[Other(q)] = sent[Other(q)]
  BY BeginEffect
<1> QED BY <1>1, Others DEF Begins, Neither

\* Every step is of one of these kinds in each direction.
LEMMA KindOfStep ==
    ASSUME IndInv, [Next]_vars, NEW p \in Processes
    PROVE  Begins(p) \/ HandsOn(p) \/ Neither(p)
<1>1. Types
  BY DEF IndInv
<1>2. ASSUME NEW t \in Threads[Inviter], SendInvitation(t) PROVE Begins(p) \/ Neither(p)
  <2>1. /\ Begin(Inviter, t, ControlSize) /\ received' = received
        /\ t \in AllThreads(Inviter) /\ ControlSize \in Sizes \cup {ControlSize}
    BY <1>2 DEF SendInvitation, AllThreads, readerVars
  <2> QED BY <1>1, <2>1, BeginsIt, Others
<1>3. CASE AcceptInvitation
  BY <1>3 DEF AcceptInvitation, writerVars, readerVars, Neither
<1>4. ASSUME NEW q \in Processes, NEW t \in AllThreads(q), SendMessage(q, t)
      PROVE  Begins(p) \/ Neither(p)
  <2>1. received' = received
    BY <1>4 DEF SendMessage, readerVars
  <2>2. PICK size \in Sizes \cup {ControlSize} : Begin(q, t, size)
    BY <1>4 DEF SendMessage
  <2> QED BY <1>1, <2>1, <2>2, BeginsIt
<1>5. ASSUME NEW q \in Processes, NEW t \in AllThreads(q), Writer(q, t) PROVE Neither(p)
  BY <1>5 DEF Writer, WriteChunk, WriteFails, Wrote, writerVars, readerVars, Neither
<1>6. ASSUME NEW q \in Processes, Kill(q) PROVE Neither(p)
  BY <1>6 DEF Kill, writerVars, readerVars, Neither
<1>7. ASSUME NEW q \in Processes, ReadPartOfHeader(q) \/ ReadHeader(q) \/ ReadPartOfBody(q)
      PROVE  Neither(p)
  BY <1>7 DEF ReadPartOfHeader, ReadHeader, ReadPartOfBody, writerVars, readerVars, Neither
<1>8. ASSUME NEW q \in Processes, ReadBody(q) PROVE Begins(p) \/ HandsOn(p) \/ Neither(p)
  <2> DEFINE m == Decoded(q, buffer[q] \o Taken(q, BodySize(q)))
  <2>1. received' = [received EXCEPT ![q] = Append(received[q], m)]
    BY <1>8 DEF ReadBody
  <2> HIDE DEF m
  <2>2. received'[q] = Append(received[q], m) /\ received'[Other(q)] = received[Other(q)]
    BY <1>1, <2>1, Others DEF Types
  <2>3. /\ sent'[Other(q)] = sent[Other(q)]
        /\ \/ sent'[q] = sent[q]
           \/ sent'[q] = Append(sent[q], ControlSize)
    <3>1. CASE Begin(q, IO, ControlSize)
      <4>1. IO \in AllThreads(q) /\ ControlSize \in Sizes \cup {ControlSize}
        BY Others
      <4> QED BY <1>1, <3>1, <4>1, BeginEffect
    <3>2. CASE sent' = sent
      BY <3>2
    <3> QED BY <1>8, <3>1, <3>2 DEF ReadBody
  <2>4. CASE p = q
    BY <2>2, <2>3, <2>4 DEF Begins, Neither
  <2>5. CASE p = Other(q)
    BY <2>2, <2>3, <2>5, Others DEF HandsOn
  <2> QED BY <2>4, <2>5, Others
<1>9. CASE UNCHANGED vars
  BY <1>9 DEF vars, Neither
<1> QED BY <1>2, <1>3, <1>4, <1>5, <1>6, <1>7, <1>8, <1>9 DEF Next, Reader

\* What a pipe does when a message of p is begun or handed on.
PipeStep(p) ==
    \/ /\ \E m \in 1..MaxMessages[p] : Numbers(sent'[p]) = Append(Numbers(sent[p]), m)
       /\ received'[Other(p)] = received[Other(p)]
    \/ /\ Len(received[Other(p)]) < Len(Numbers(sent[p]))
       /\ received'[Other(p)] = Append(received[Other(p)],
                                       Numbers(sent[p])[Len(received[Other(p)]) + 1])
       /\ Numbers(sent'[p]) = Numbers(sent[p])
    \/ Numbers(sent'[p]) = Numbers(sent[p]) /\ received'[Other(p)] = received[Other(p)]

\* The messages of p are numbered in the order in which they are begun.
LEMMA NumbersOf ==
    ASSUME NEW s \in Seq(Nat)
    PROVE  /\ Numbers(s) = [i \in 1..Len(s) |-> i] /\ Len(Numbers(s)) = Len(s)
           /\ \A i \in 1..Len(s) : Numbers(s)[i] = i
<1>1. DOMAIN s = 1..Len(s) /\ Len(s) \in Nat
  BY LenProperties
<1>2. Numbers(s) = [i \in 1..Len(s) |-> i]
  BY <1>1 DEF Numbers
<1> DEFINE n == Len(s)
<1>3. n \in Nat
  BY <1>1
<1> HIDE DEF n
<1>4. Len([i \in 1..n |-> i]) = n /\ \A j \in 1..n : [i \in 1..n |-> i][j] = j
  BY <1>3
<1> QED BY <1>2, <1>4 DEF n

\* Every step is one of the pipe in each direction.
LEMMA EveryStepIsPipeStep ==
    ASSUME IndInv, IndInv', [Next]_vars, NEW p \in Processes
    PROVE  PipeStep(p)
<1> DEFINE q == Other(p)
           n == Len(sent[p])
           r == Heard(p)
<1>1. /\ sent[p] \in Seq(Nat) /\ sent'[p] \in Seq(Nat) /\ n \in Nat
      /\ received[q] = [i \in 1..r |-> i] /\ received'[q] = [i \in 1..Heard(p)' |-> i]
      /\ r \in 0..n /\ Heard(p)' = Len(received'[q])
      /\ received[q] \in Seq(Nat) /\ Len(received[q]) = r
      /\ Heard(p)' <= Len(sent'[p])
  <2>1. Types /\ ReadInOrder(p) /\ Types' /\ ReadInOrder(p)'
    BY DEF IndInv, Directions
  <2>2. sent[p] \in Seq(Nat) /\ n \in Nat
    BY <2>1, SizesAreNumbers
  <2>3. sent'[p] \in Seq(Nat)
    <3>1. sent'[p] \in Seq(Sizes \cup {ControlSize}) /\ Sizes \cup {ControlSize} \subseteq Nat
      BY <2>1, SizesAssumption DEF Types
    <3> QED BY <3>1, SeqMonotonic
  <2>4. r \in 0..n
    BY <2>1, HeardInRange
  <2>5. /\ received[q] = [i \in 1..r |-> i] /\ received'[q] = [i \in 1..Heard(p)' |-> i]
        /\ Heard(p)' <= Len(sent'[p])
    BY <2>1 DEF ReadInOrder
  <2>6. received[q] \in Seq(Nat)
    BY <2>1, Others DEF Types
  <2> QED BY <2>2, <2>3, <2>4, <2>5, <2>6 DEF Heard
<1>2. Begins(p) \/ HandsOn(p) \/ Neither(p)
  BY KindOfStep
<1> HIDE DEF q, n, r
<1>3. CASE Begins(p)
  <2>1. PICK size \in Sizes \cup {ControlSize} : sent'[p] = Append(sent[p], size)
    BY <1>3 DEF Begins
  <2>2. Len(sent'[p]) = n + 1
    <3>1. size \in Nat
      BY SizesAssumption
    <3> QED BY <1>1, <2>1, <3>1, AppendProperties DEF n
  <2>3. Numbers(sent'[p]) = [i \in 1..(n + 1) |-> i] /\ Numbers(sent[p]) = [i \in 1..n |-> i]
    BY <1>1, <2>2, NumbersOf DEF n
  <2>4. Numbers(sent'[p]) = Append(Numbers(sent[p]), n + 1)
    BY <1>1, <2>3, CountUp
  <2>5. n + 1 \in 1..MaxMessages[p]
    <3>1. Len(sent'[p]) + Waiting(p)' <= MaxMessages[p] /\ Waiting(p)' \in Nat
      BY DEF IndInv, WithinBounds, Waiting
    <3>2. MaxMessages[p] \in Nat
      BY ProcessesAssumption
    <3> QED BY <1>1, <2>2, <3>1, <3>2
  <2> QED BY <2>4, <2>5, <1>3 DEF PipeStep, Begins
<1>4. CASE HandsOn(p)
  <2>1. PICK m : received'[q] = Append(received[q], m)
    BY <1>4 DEF HandsOn, q
  <2>2. Heard(p)' = r + 1 /\ r + 1 <= n
    <3>1. Len(Append(received[q], m)) = r + 1
      BY <1>1
    <3> QED BY <3>1, <2>1, <1>1, <1>4 DEF HandsOn, n
  <2>3. received'[q] = Append(received[q], r + 1)
    <3>1. r \in Nat
      BY <1>1
    <3> QED BY <3>1, <1>1, <2>2, CountUp
  <2>4. Numbers(sent[p])[r + 1] = r + 1 /\ r < Len(Numbers(sent[p]))
    <3>1. r + 1 \in 1..n /\ r < n
      BY <1>1, <2>2
    <3> QED BY <3>1, <1>1, NumbersOf DEF n
  <2> QED BY <2>3, <2>4, <1>1, <1>4 DEF PipeStep, HandsOn, q
<1>5. CASE Neither(p)
  BY <1>5 DEF PipeStep, Neither
<1> QED BY <1>2, <1>3, <1>4, <1>5

\* What is written to either process comes out there as a pipe has it: each
\* message once, whole, in the order in which it was begun.
THEOREM ChannelImplementsPipes == Spec => ImplementsPipes
<1>1. Init => ToInvitee!Init /\ ToInviter!Init
  <2> SUFFICES ASSUME Init PROVE ToInvitee!Init /\ ToInviter!Init
    OBVIOUS
  <2>1. \A p \in Processes : sent[p] = << >> /\ received[p] = << >>
    BY DEF Init
  <2>2. << >> \in Seq(Nat) /\ Len(<< >>) = 0
    OBVIOUS
  <2>3. Len(Numbers(<< >>)) = 0 /\ Numbers(<< >>) = [i \in 1..0 |-> i]
    BY <2>2, NumbersOf
  <2>4. Numbers(<< >>) = << >>
    BY <2>3
  <2> QED BY <2>1, <2>4, Others DEF ToInvitee!Init, ToInviter!Init
<1>2. ASSUME IndInv, IndInv', [Next]_vars
      PROVE  /\ [ToInvitee!Next]_<<Numbers(sent[Inviter]), received[Invitee]>>
             /\ [ToInviter!Next]_<<Numbers(sent[Invitee]), received[Inviter]>>
  <2>1. PipeStep(Inviter) /\ PipeStep(Invitee)
    BY <1>2, EveryStepIsPipeStep, Others
  <2>2. Numbers(sent[Inviter])' = Numbers(sent'[Inviter])
        /\ Numbers(sent[Invitee])' = Numbers(sent'[Invitee])
    BY DEF Numbers
  <2>3. [ToInvitee!Next]_<<Numbers(sent[Inviter]), received[Invitee]>>
    BY <2>1, <2>2, Others DEF PipeStep, ToInvitee!Next, ToInvitee!Accept, ToInvitee!Release
  <2>4. [ToInviter!Next]_<<Numbers(sent[Invitee]), received[Inviter]>>
    BY <2>1, <2>2, Others DEF PipeStep, ToInviter!Next, ToInviter!Accept, ToInviter!Release
  <2> QED BY <2>3, <2>4
<1> QED BY <1>1, <1>2, InductiveInvariant, PTL
     DEF Spec, ImplementsPipes, ToInvitee!Spec, ToInviter!Spec
=============================================================================
