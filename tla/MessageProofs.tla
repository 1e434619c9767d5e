--------------------------- MODULE MessageProofs ---------------------------
(***************************************************************************)
(* `Message` proved for any payloads, handles, number of arguments, lengths *)
(* of arrays and processes on the way.  The inductive invariant `IndInv` is *)
(* the layout of the buffer: each array stands behind the parameters, after *)
(* the arrays of the arguments before it, at the distance its pointer says; *)
(* the descriptors stand last, one for each handle among the arguments, in  *)
(* their order; and what a process queued on the message is a handle for    *)
(* each of them that the stub has yet to take.                              *)
(***************************************************************************)
EXTENDS Message, SequenceTheorems, FiniteSetTheorems, TLAPS
-----------------------------------------------------------------------------
(* Cells and what they hold.                                                *)

\* Every name there could be.
Named == Pipes \X Nat

\* The descriptor of pipe p after k processes.
Generation(p, k) == Descriptor(Name(p, k), Name(p, k + 1))

\* What the proxy writes for the handle of each pipe.
Firsts == {Generation(p, 0) : p \in Pipes}

\* What a cell can hold.
Methods == {MethodOf(args) : args \in Calls}
Cells == ({"number"} \X Int) \cup ({"word"} \X Words) \cup ({"method"} \X Methods)
         \cup {Generation(n[1], n[2]) : n \in Named}

\* What the stub can read.
Readings == ({"value"} \X Words) \cup ({"array"} \X Arrays) \cup ({"handle"} \X Named)
-----------------------------------------------------------------------------
(* The layout of the buffer b of a call with arguments a.                   *)

\* The arguments that are arrays, and their lengths.
ArraysAt(a) == {i \in DOMAIN a : Kind(a[i]) = "array"}
Size(a, i) == Len(a[i][2])

\* The parameter of the i-th argument, and the last one.
Parameter(i) == HeaderLength + 1 + i
LastParameter(a) == HeaderLength + 1 + Len(a)

\* The cell at `at` points to an array of n cells behind the parameters.
PointsTo(a, b, at, n) ==
    /\ b[at] = EncodePointer(at, DecodePointer(b, at))
    /\ DecodePointer(b, at) \in (LastParameter(a) + 1)..Len(b)
    /\ b[DecodePointer(b, at)] = Number(n)
    /\ DecodePointer(b, at) + n <= Len(b)

\* Where the i-th argument, an array, stands.
Start(b, i) == DecodePointer(b, Parameter(i))

\* The first k - 1 arguments are in b: each value in its parameter, each array
\* where its parameter points, after those of the arguments before it.
ValuesIn(a, b, k) ==
    \A i \in DOMAIN a : i < k /\ Kind(a[i]) = "value" => b[Parameter(i)] = Word(a[i][2])
ArraysIn(a, b, k) ==
    \A i \in ArraysAt(a) : i < k =>
        /\ PointsTo(a, b, Parameter(i), Size(a, i))
        /\ \A j \in 1..Size(a, i) : b[Start(b, i) + j] = Word(a[i][2][j])
ArraysInLine(a, b, k) ==
    \A i, j \in ArraysAt(a) : i < j /\ j < k => Start(b, i) + Size(a, i) < Start(b, j)

\* The number of handles among the arguments before the k-th one.
Rank(a, k) == Cardinality({i \in HandlesAt(a) : i < k})

\* The pipe whose handle the j-th descriptor of e is of.
PipeAt(e, j) == e[j][2].name[1]

\* The descriptors e are those of the handles among the first k - 1 arguments.
HandlesListed(a, e, k) ==
    /\ Len(e) = Rank(a, k)
    /\ \A i \in HandlesAt(a) : i < k => e[Rank(a, i) + 1] = Generation(a[i][2], 0)

\* They are the last array of b, and have come k processes far.
DescriptorsIn(a, e, b, k) ==
    /\ PointsTo(a, b, EndpointsCell, Len(e))
    /\ \A j \in 1..Len(e) : b[DecodePointer(b, EndpointsCell) + j] = Generation(PipeAt(e, j), k)
    /\ \A i \in ArraysAt(a) : Start(b, i) + Size(a, i) < DecodePointer(b, EndpointsCell)
-----------------------------------------------------------------------------
(* The invariant.                                                           *)

\* The first argument that is not yet written.
ToWrite == IF place = "proxy" THEN next ELSE Len(arguments) + 1

\* How far the descriptors in the buffer have come.
Level == IF place = "sent" \/ hops = 0 THEN hops ELSE hops - 1

\* The variables' shapes.
Shapes ==
    /\ buffer \in Seq(Cells) /\ endpoints \in Seq(Firsts)
    /\ pipes \in Seq(Named) /\ read \in Seq(Readings)

\* Before the proxy runs.
AtCaller ==
    place = "caller" => buffer = << >> /\ endpoints = << >> /\ next = 1

\* Which arguments the proxy has written.
Written ==
    place # "caller" =>
        /\ params = HeaderLength + 1
        /\ LastParameter(arguments) <= Len(buffer)
        /\ ValuesIn(arguments, buffer, ToWrite) /\ ArraysIn(arguments, buffer, ToWrite)
        /\ ArraysInLine(arguments, buffer, ToWrite)
        /\ HandlesListed(arguments, endpoints, ToWrite)

\* What the proxy writes after them.
Finished ==
    place \notin {"caller", "proxy"} =>
        /\ buffer[IdCell] = Method(MethodOf(arguments))
        /\ DescriptorsIn(arguments, endpoints, buffer, Level)

\* Where the counters can be.
Counters ==
    /\ place \in {"caller", "proxy", "written"} => hops = 0
    /\ place = "received" => hops > 0
    /\ next <= Len(arguments) + 1

\* The names by which a process knows the endpoints.
Names ==
    IF hops = 0 THEN registered = {Name(p, 0) : p \in Pipes}
                ELSE \A n \in registered : n[2] = hops

\* What stopped.
Stopped == place = "aborted" => Reforwarded

\* The handles the stub has taken.
Reads == place \in {"stub", "invoked"}
Taken == IF Reads THEN Rank(arguments, next) ELSE 0

\* The handles queued on a message where it arrived, and their endpoints.
Queued ==
    place \in {"received", "queued", "stub", "invoked"} =>
        /\ Len(pipes) + Taken = Len(endpoints)
        /\ \A j \in 1..Len(pipes) : pipes[j] = Name(PipeAt(endpoints, Taken + j), hops)
        /\ \A j \in 1..Len(endpoints) : Name(PipeAt(endpoints, j), hops) \in registered

\* The arguments the stub has read.
ReadBack ==
    /\ ~Reads => read = << >>
    /\ Reads => /\ Len(read) = next - 1
                /\ \A i \in 1..Len(read) : read[i] = Arrived(arguments[i])
    /\ place = "invoked" => next = Len(arguments) + 1

IndInv == /\ TypeOK /\ Shapes /\ AtCaller /\ Written /\ Finished /\ Counters /\ Names
          /\ Queued /\ ReadBack /\ Stopped
-----------------------------------------------------------------------------
(* Cells, names and arguments.                                              *)

\* What is in a cell comes out of it.
LEMMA CellFacts ==
  /\ \A n \in Int : Number(n) \in Cells /\ Number(n)[2] = n
  /\ \A w \in Words : Word(w) \in Cells /\ Word(w)[2] = w
  /\ \A m \in Methods : Method(m) \in Cells /\ Method(m)[2] = m
  /\ Zero \in Cells /\ \A n \in Int : Number(n) = Zero => n = 0
  /\ \A c \in Cells : c[1] \in {"number", "word", "method", "descriptor"}
  <1>1. \A n \in Int : Number(n) \in Cells /\ Number(n)[2] = n
    BY DEF Number, Cells
  <1>2. \A w \in Words : Word(w) \in Cells /\ Word(w)[2] = w
    BY DEF Word, Cells
  <1>3. \A m \in Methods : Method(m) \in Cells /\ Method(m)[2] = m
    BY DEF Method, Cells
  <1>4. Zero \in Cells /\ \A n \in Int : Number(n) = Zero => n = 0
    BY DEF Number, Cells, Zero
  <1>5. \A c \in Cells : c[1] \in {"number", "word", "method", "descriptor"}
    BY DEF Cells, Generation, Descriptor
  <1> QED
    BY <1>1, <1>2, <1>3, <1>4, <1>5

\* A name says which pipe it is of, and a descriptor which names it has.
LEMMA NameFacts ==
  ASSUME NEW p \in Pipes, NEW k \in Nat
  PROVE  /\ Name(p, k) \in Named /\ Name(p, k)[1] = p /\ Name(p, k)[2] = k
         /\ Generation(p, k) \in Cells
         /\ Generation(p, k)[2].name = Name(p, k)
         /\ Generation(p, k)[2].cross = Name(p, k + 1)
         /\ Inchworm(Generation(p, k)) = Generation(p, k + 1)
  <1>1. Name(p, k) \in Named /\ Name(p, k)[1] = p /\ Name(p, k)[2] = k
    BY DEF Name, Named
  <1>2. Name(p, k + 1)[1] = p /\ Name(p, k + 1)[2] = k + 1
    BY DEF Name
  <1>3. Generation(p, k) \in Cells
    <2>1. Generation(Name(p, k)[1], Name(p, k)[2]) \in Cells
      BY <1>1, Zenon DEF Cells
    <2> QED
      BY <1>1, <2>1
  <1>4. /\ Generation(p, k)[2].name = Name(p, k)
        /\ Generation(p, k)[2].cross = Name(p, k + 1)
    BY DEF Generation, Descriptor
  <1>5. Inchworm(Generation(p, k)) = Generation(p, k + 1)
    BY <1>2, <1>4 DEF Inchworm, Generation
  <1> QED
    BY <1>1, <1>3, <1>4, <1>5

\* The descriptors the proxy makes.
LEMMA FirstFacts ==
  ASSUME NEW e \in Seq(Firsts), NEW j \in 1..Len(e)
  PROVE  PipeAt(e, j) \in Pipes /\ e[j] = Generation(PipeAt(e, j), 0) /\ e[j] \in Cells
  <1>1. e[j] \in Firsts
    BY ElementOfSeq
  <1>2. PICK p \in Pipes : e[j] = Generation(p, 0)
    BY <1>1 DEF Firsts
  <1>3. /\ Generation(p, 0)[2].name = Name(p, 0) /\ Name(p, 0)[1] = p
        /\ Generation(p, 0) \in Cells
    <2>1. 0 \in Nat
      OBVIOUS
    <2> QED
      BY <2>1, NameFacts
  <1> QED
    BY <1>2, <1>3 DEF PipeAt

\* What an argument can be.
LEMMA ArgumentFacts ==
  ASSUME NEW x \in Arguments
  PROVE  /\ Kind(x) \in {"value", "array", "handle"} /\ x = <<Kind(x), x[2]>>
         /\ Kind(x) = "value" => x[2] \in Words
         /\ Kind(x) = "array" => x[2] \in Arrays /\ x[2] \in Seq(Words)
         /\ Kind(x) = "handle" => x[2] \in Pipes
  <1>1. \A s \in Arrays : s \in Seq(Words)
    BY BoundsAssumption DEF Arrays
  <1> QED
    BY <1>1 DEF Arguments, Kind

\* A call is a sequence of arguments, and its method one of their kinds.
LEMMA CallFacts ==
  ASSUME NEW a \in Calls
  PROVE  /\ a \in Seq(Arguments) /\ Len(a) \in 0..MaxArguments /\ DOMAIN a = 1..Len(a)
         /\ \A i \in 1..Len(a) : a[i] \in Arguments
         /\ MethodOf(a) \in Methods /\ Len(MethodOf(a)) = Len(a)
         /\ \A i \in 1..Len(a) : MethodOf(a)[i] = Kind(a[i])
  <1>1. PICK n \in 0..MaxArguments : a \in [1..n -> Arguments]
    BY DEF Calls
  <1>2. n \in Nat
    BY <1>1, BoundsAssumption
  <1>3. a \in Seq(Arguments) /\ Len(a) = n /\ DOMAIN a = 1..n
    BY <1>1, <1>2
  <1>4. MethodOf(a) = [i \in 1..n |-> Kind(a[i])]
    BY <1>3 DEF MethodOf
  <1>5. Len(MethodOf(a)) = n
    BY <1>2, <1>4
  <1> QED
    BY <1>1, <1>3, <1>4, <1>5 DEF Methods
-----------------------------------------------------------------------------
(* Handles are counted in the order of the arguments.                       *)

\* The rank of a place grows by one behind each handle, and never falls.
LEMMA RankFacts ==
  ASSUME NEW a \in Calls
  PROVE  /\ \A k \in Nat : Rank(a, k) \in Nat
         /\ Rank(a, 1) = 0
         /\ \A k \in 1..Len(a) :
               Rank(a, k + 1) = IF Kind(a[k]) = "handle" THEN Rank(a, k) + 1 ELSE Rank(a, k)
         /\ \A j, k \in Nat : j <= k => Rank(a, j) <= Rank(a, k)
  <1> DEFINE Below(k) == {i \in HandlesAt(a) : i < k}
  <1>1. /\ DOMAIN a = 1..Len(a) /\ Len(a) \in Nat
        /\ HandlesAt(a) = {i \in 1..Len(a) : Kind(a[i]) = "handle"}
    BY CallFacts, BoundsAssumption DEF HandlesAt
  <1>2. IsFiniteSet(1..Len(a))
    BY <1>1, FS_Interval
  <1>3. ASSUME NEW k \in Nat PROVE IsFiniteSet(Below(k)) /\ Cardinality(Below(k)) \in Nat
    <2>1. Below(k) \in SUBSET (1..Len(a))
      BY <1>1
    <2>2. IsFiniteSet(Below(k))
      BY <1>2, <2>1, FS_Subset
    <2> QED
      BY <2>2, FS_CardinalityType
  <1>4. Cardinality(Below(1)) = 0
    <2>1. Below(1) = {}
      BY <1>1
    <2> QED
      BY <2>1, FS_EmptySet
  <1>5. ASSUME NEW k \in 1..Len(a), Kind(a[k]) = "handle"
        PROVE  Cardinality(Below(k + 1)) = Cardinality(Below(k)) + 1
    <2>1. Below(k + 1) = Below(k) \cup {k} /\ k \notin Below(k) /\ k \in Nat
      BY <1>1, <1>5
    <2>2. IsFiniteSet(Below(k))
      BY <1>3, <2>1
    <2> HIDE DEF Below
    <2>3. Cardinality(Below(k) \cup {k}) = Cardinality(Below(k)) + 1
      BY <2>1, <2>2, FS_AddElement
    <2> QED
      BY <2>1, <2>3
  <1>6. ASSUME NEW k \in 1..Len(a), Kind(a[k]) # "handle"
        PROVE  Below(k + 1) = Below(k)
    BY <1>1, <1>6
  <1>7. ASSUME NEW j \in Nat, NEW k \in Nat, j <= k
        PROVE  Cardinality(Below(j)) <= Cardinality(Below(k))
    <2>1. Below(j) \in SUBSET Below(k)
      BY <1>1, <1>7
    <2>2. IsFiniteSet(Below(k))
      BY <1>3
    <2> HIDE DEF Below
    <2> QED
      BY <2>1, <2>2, FS_Subset
  <1>8. \A k : Rank(a, k) = Cardinality(Below(k))
    BY DEF Rank
  <1> HIDE DEF Below
  <1> QED
    BY <1>3, <1>4, <1>5, <1>6, <1>7, <1>8
-----------------------------------------------------------------------------
(* Buffers.                                                                 *)

\* An allocated array stands behind what was there.
LEMMA AllocateFacts ==
  ASSUME NEW b \in Seq(Cells), NEW cells \in Seq(Cells)
  PROVE  LET c == AllocateArray(b, cells)
         IN /\ c \in Seq(Cells) /\ Len(c) = Len(b) + 1 + Len(cells)
            /\ \A x \in 1..Len(b) : c[x] = b[x]
            /\ c[Len(b) + 1] = Number(Len(cells))
            /\ \A j \in 1..Len(cells) : c[Len(b) + 1 + j] = cells[j]
  <1> DEFINE head == <<Number(Len(cells))>>
             s == b \o head
             c == s \o cells
  <1>1. Len(cells) \in Nat /\ Len(b) \in Nat /\ Number(Len(cells)) \in Cells
    BY LenProperties, CellFacts
  <1>2. head \in Seq(Cells) /\ Len(head) = 1 /\ head[1] = Number(Len(cells))
    BY <1>1
  <1> HIDE DEF head
  <1>3. /\ s \in Seq(Cells) /\ Len(s) = Len(b) + 1
        /\ \A x \in 1..Len(b) : s[x] = b[x]
        /\ s[Len(b) + 1] = Number(Len(cells))
    <2>1. /\ s \in Seq(Cells) /\ Len(s) = Len(b) + Len(head)
          /\ \A i \in 1..(Len(b) + Len(head)) :
                s[i] = IF i <= Len(b) THEN b[i] ELSE head[i - Len(b)]
      BY <1>2, ConcatProperties
    <2> HIDE DEF s
    <2> QED
      BY <1>1, <1>2, <2>1
  <1> HIDE DEF s
  <1>4. /\ c \in Seq(Cells) /\ Len(c) = Len(s) + Len(cells)
        /\ \A i \in 1..(Len(s) + Len(cells)) :
              c[i] = IF i <= Len(s) THEN s[i] ELSE cells[i - Len(s)]
    BY <1>3, ConcatProperties
  <1> HIDE DEF c
  <1>5. /\ c \in Seq(Cells) /\ Len(c) = Len(b) + 1 + Len(cells)
        /\ \A x \in 1..Len(b) : c[x] = b[x]
        /\ c[Len(b) + 1] = Number(Len(cells))
    BY <1>1, <1>3, <1>4
  <1>6. \A j \in 1..Len(cells) : c[Len(b) + 1 + j] = cells[j]
    <2> SUFFICES ASSUME NEW j \in 1..Len(cells) PROVE c[Len(b) + 1 + j] = cells[j]
      OBVIOUS
    <2>1. /\ Len(b) + 1 + j \in 1..(Len(s) + Len(cells)) /\ ~(Len(b) + 1 + j <= Len(s))
          /\ Len(b) + 1 + j - Len(s) = j
      BY <1>1, <1>3
    <2> QED
      BY SMTT(30), <1>4, <2>1
  <1>7. AllocateArray(b, cells) = c
    BY DEF AllocateArray, c, s, head
  <1> QED
    BY <1>5, <1>6, <1>7

\* One cell is written.
LEMMA WriteFacts ==
  ASSUME NEW b \in Seq(Cells), NEW at \in 1..Len(b), NEW x \in Cells
  PROVE  LET c == [b EXCEPT ![at] = x]
         IN /\ c \in Seq(Cells) /\ Len(c) = Len(b) /\ c[at] = x
            /\ \A y \in 1..Len(b) : y # at => c[y] = b[y]
  BY ExceptSeq

\* A pointer that is written as the distance to an array leads there.
LEMMA PointerFacts ==
  ASSUME NEW b, NEW at \in Nat, NEW to \in Nat, b[at] = EncodePointer(at, to)
  PROVE  DecodePointer(b, at) = to
  <1>1. Number(to - at)[2] = to - at
    BY CellFacts
  <1> QED
    BY <1>1 DEF DecodePointer, EncodePointer

\* What a buffer b holds behind the parameters, up to m, stays in one that is the
\* same there.
LEMMA PointsToKept ==
  ASSUME NEW a \in Calls, NEW b \in Seq(Cells), NEW c \in Seq(Cells),
         NEW m \in Nat, m <= Len(c), \A x \in (LastParameter(a) + 1)..m : c[x] = b[x],
         NEW at \in Nat, c[at] = b[at],
         NEW n \in Nat, PointsTo(a, b, at, n), DecodePointer(b, at) + n <= m
  PROVE  PointsTo(a, c, at, n) /\ DecodePointer(c, at) = DecodePointer(b, at)
  <1>1. DecodePointer(c, at) = DecodePointer(b, at)
    BY DEF DecodePointer
  <1>2. Len(b) \in Nat /\ Len(c) \in Nat /\ Len(a) \in Nat
    BY LenProperties, CallFacts, BoundsAssumption
  <1>3. LastParameter(a) \in Nat
    BY <1>2 DEF LastParameter, HeaderLength
  <1> QED
    BY <1>1, <1>2, <1>3 DEF PointsTo

\* The arrays of a buffer end within it.
ArraysEnd(a, b, k, m) == \A i \in ArraysAt(a) : i < k => Start(b, i) + Size(a, i) <= m

\* The arguments that are written stay as they are.
LEMMA LayoutKept ==
  ASSUME NEW a \in Calls, NEW b \in Seq(Cells), NEW c \in Seq(Cells),
         NEW m \in Nat, m <= Len(c), \A x \in (LastParameter(a) + 1)..m : c[x] = b[x],
         NEW k \in Nat, ArraysEnd(a, b, k, m),
         \A i \in 1..Len(a) : i < k => c[Parameter(i)] = b[Parameter(i)],
         ValuesIn(a, b, k), ArraysIn(a, b, k), ArraysInLine(a, b, k)
  PROVE  /\ ValuesIn(a, c, k) /\ ArraysIn(a, c, k) /\ ArraysInLine(a, c, k)
         /\ \A i \in ArraysAt(a) : i < k => Start(c, i) = Start(b, i)
  <1>1. DOMAIN a = 1..Len(a) /\ Len(a) \in Nat
    BY CallFacts, BoundsAssumption
  <1>2. ValuesIn(a, c, k)
    BY <1>1 DEF ValuesIn
  <1>3. ASSUME NEW i \in ArraysAt(a), i < k
        PROVE  /\ PointsTo(a, c, Parameter(i), Size(a, i)) /\ Start(c, i) = Start(b, i)
               /\ \A j \in 1..Size(a, i) : c[Start(c, i) + j] = Word(a[i][2][j])
    <2>1. i \in 1..Len(a) /\ Parameter(i) \in Nat /\ c[Parameter(i)] = b[Parameter(i)]
      BY <1>1, <1>3 DEF ArraysAt, Parameter, HeaderLength
    <2>2. Size(a, i) \in Nat
      <3>1. a[i][2] \in Seq(Words)
        BY <1>3, <2>1, CallFacts, ArgumentFacts DEF ArraysAt
      <3> QED
        BY <3>1 DEF Size
    <2>3. /\ PointsTo(a, b, Parameter(i), Size(a, i))
          /\ \A j \in 1..Size(a, i) : b[Start(b, i) + j] = Word(a[i][2][j])
          /\ Start(b, i) + Size(a, i) <= m
      BY <1>3 DEF ArraysIn, ArraysEnd
    <2>4. PointsTo(a, c, Parameter(i), Size(a, i)) /\ Start(c, i) = Start(b, i)
      BY <2>1, <2>2, <2>3, PointsToKept DEF Start
    <2>5. /\ Start(b, i) \in (LastParameter(a) + 1)..Len(b)
          /\ LastParameter(a) \in Nat /\ Len(b) \in Nat
      BY <1>1, <2>3, LenProperties DEF PointsTo, Start, LastParameter, HeaderLength
    <2>6. ASSUME NEW j \in 1..Size(a, i)
          PROVE  c[Start(c, i) + j] = Word(a[i][2][j])
      <3>1. Start(b, i) + j \in (LastParameter(a) + 1)..m
        BY <2>2, <2>3, <2>5
      <3> QED
        BY <2>3, <2>4, <3>1
    <2> QED
      BY <2>4, <2>6
  <1>4. ArraysInLine(a, c, k)
    <2> SUFFICES ASSUME NEW i \in ArraysAt(a), NEW j \in ArraysAt(a), i < j, j < k
                 PROVE  Start(c, i) + Size(a, i) < Start(c, j)
      BY DEF ArraysInLine
    <2>1. i \in Nat /\ j \in Nat /\ i < k
      BY <1>1 DEF ArraysAt
    <2>2. Start(c, i) = Start(b, i) /\ Start(c, j) = Start(b, j)
      BY <1>3, <2>1
    <2> QED
      BY <2>2 DEF ArraysInLine
  <1> QED
    BY <1>2, <1>3, <1>4 DEF ArraysIn

\* All of them end in it.
LEMMA ArraysEndWithin ==
  ASSUME NEW a, NEW b, NEW k, ArraysIn(a, b, k)
  PROVE  ArraysEnd(a, b, k, Len(b))
  BY DEF ArraysIn, ArraysEnd, PointsTo, Start

\* One argument more is written.
LEMMA LayoutGrows ==
  ASSUME NEW a \in Calls, NEW c, NEW i \in 1..Len(a),
         ValuesIn(a, c, i), ArraysIn(a, c, i), ArraysInLine(a, c, i),
         Kind(a[i]) = "value" => c[Parameter(i)] = Word(a[i][2]),
         Kind(a[i]) = "array" =>
            /\ PointsTo(a, c, Parameter(i), Size(a, i))
            /\ \A j \in 1..Size(a, i) : c[Start(c, i) + j] = Word(a[i][2][j])
            /\ \A j \in ArraysAt(a) : j < i => Start(c, j) + Size(a, j) < Start(c, i)
  PROVE  ValuesIn(a, c, i + 1) /\ ArraysIn(a, c, i + 1) /\ ArraysInLine(a, c, i + 1)
  <1>1. DOMAIN a = 1..Len(a) /\ i \in Nat
    BY CallFacts
  <1>2. \A j \in DOMAIN a : j < i + 1 <=> j < i \/ j = i
    BY <1>1
  <1>3. ArraysAt(a) \subseteq DOMAIN a /\ \A j \in ArraysAt(a) : Kind(a[j]) = "array"
    BY DEF ArraysAt
  <1>4. ValuesIn(a, c, i + 1)
    BY <1>2 DEF ValuesIn
  <1>5. ArraysIn(a, c, i + 1)
    BY <1>2, <1>3 DEF ArraysIn
  <1>6. ArraysInLine(a, c, i + 1)
    BY <1>2, <1>3 DEF ArraysInLine
  <1> QED
    BY <1>4, <1>5, <1>6

\* What is read at the pointer of the descriptors.
LEMMA DescriptorsRead ==
  ASSUME NEW a \in Calls, NEW e \in Seq(Firsts), NEW b \in Seq(Cells), NEW k \in Nat,
         DescriptorsIn(a, e, b, k)
  PROVE  /\ DOMAIN GetEndpointDescriptors(b) = 1..Len(e)
         /\ Len(GetEndpointDescriptors(b)) = Len(e)
         /\ \A j \in 1..Len(e) : GetEndpointDescriptors(b)[j] = Generation(PipeAt(e, j), k)
  <1> DEFINE start == DecodePointer(b, EndpointsCell)
             d == SubSeq(b, start + 1, start + Len(e))
  <1>1. Len(e) \in Nat /\ Len(b) \in Nat /\ LastParameter(a) \in Nat /\ LastParameter(a) > 3
    BY LenProperties, CallFacts, BoundsAssumption DEF LastParameter, HeaderLength
  <1>2. /\ start \in (LastParameter(a) + 1)..Len(b) /\ start + Len(e) <= Len(b)
        /\ b[start] = Number(Len(e)) /\ b[EndpointsCell] = Number(start - 3)
    BY DEF DescriptorsIn, PointsTo, EncodePointer, EndpointsCell
  <1>3. b[EndpointsCell] # Zero
    <2>1. start - 3 \in Int /\ start - 3 # 0
      BY <1>1, <1>2
    <2> QED
      BY <1>2, <2>1, CellFacts
  <1>4. b[start][2] = Len(e)
    BY <1>1, <1>2, CellFacts
  <1>5. GetEndpointDescriptors(b) = d
    BY <1>3, <1>4 DEF GetEndpointDescriptors, ArrayAt
  <1>6. \A j \in 1..Len(e) : b[start + j] = Generation(PipeAt(e, j), k)
    BY DEF DescriptorsIn
  <1> HIDE DEF start
  <1>7. \A x \in (start + 1)..(start + Len(e)) : b[x] \in Cells
    BY <1>1, <1>2, ElementOfSeq
  <1>8. /\ d \in Seq(Cells) /\ Len(d) = Len(e)
        /\ \A j \in 1..Len(e) : d[j] = b[start + j]
    <2>1. start \in Int /\ start + 1 \in Int /\ start + Len(e) \in Int
      BY <1>1, <1>2
    <2>2. /\ d \in Seq(Cells)
          /\ Len(d) = IF start + 1 <= start + Len(e) THEN (start + Len(e)) - (start + 1) + 1
                      ELSE 0
          /\ \A j \in 1..((start + Len(e)) - (start + 1) + 1) : d[j] = b[(start + 1) + j - 1]
      BY <1>7, <2>1, SubSeqProperties
    <2> HIDE DEF d
    <2> QED
      BY <1>1, <2>1, <2>2
  <1> HIDE DEF d
  <1> QED
    BY <1>5, <1>6, <1>8, LenProperties
-----------------------------------------------------------------------------
(* Each step keeps the invariant.                                           *)

\* A caller with its arguments.
LEMMA InitKeeps == Init => IndInv
  <1> SUFFICES ASSUME Init PROVE IndInv
    OBVIOUS
  <1>1. /\ place = "caller" /\ arguments \in Calls /\ route \in 0..MaxHops /\ next = 1
        /\ hops = 0 /\ buffer = << >> /\ endpoints = << >> /\ pipes = << >> /\ read = << >>
    BY DEF Init
  <1>2. arguments \in Calls /\ Len(arguments) \in 0..MaxArguments /\ MaxArguments \in Nat
        /\ MaxHops \in Nat
    BY <1>1, CallFacts, BoundsAssumption
  <1>3. TypeOK
    BY <1>1, <1>2 DEF TypeOK
  <1>4. Shapes /\ AtCaller
    BY <1>1, EmptySeq DEF Shapes, AtCaller
  <1>5. Written /\ Finished /\ Queued
    BY <1>1 DEF Written, Finished, Queued
  <1>6. Counters /\ ReadBack
    BY <1>1, <1>2 DEF Counters, ReadBack, Reads
  <1>7. Names /\ Stopped
    BY <1>1 DEF Init, Names, Stopped
  <1> QED
    BY <1>3, <1>4, <1>5, <1>6, <1>7 DEF IndInv

\* The facts about a call that every step below needs.
LEMMA Basics ==
  ASSUME IndInv
  PROVE  /\ arguments \in Calls /\ arguments \in Seq(Arguments)
         /\ Len(arguments) \in Nat /\ Len(arguments) <= MaxArguments
         /\ DOMAIN arguments = 1..Len(arguments)
         /\ MaxArguments \in Nat /\ MaxHops \in Nat
         /\ route \in 0..MaxHops /\ hops \in 0..route /\ hops \in Nat
         /\ next \in 1..(Len(arguments) + 1) /\ next \in Nat
         /\ buffer \in Seq(Cells) /\ endpoints \in Seq(Firsts)
         /\ pipes \in Seq(Named) /\ read \in Seq(Readings)
         /\ Len(buffer) \in Nat /\ Len(endpoints) \in Nat /\ Len(pipes) \in Nat
         /\ LastParameter(arguments) \in Nat
  <1>1. arguments \in Calls /\ route \in 0..MaxHops /\ hops \in 0..route
        /\ next \in 1..(MaxArguments + 1) /\ next <= Len(arguments) + 1
        /\ buffer \in Seq(Cells) /\ endpoints \in Seq(Firsts)
        /\ pipes \in Seq(Named) /\ read \in Seq(Readings)
    BY DEF IndInv, TypeOK, Shapes, Counters
  <1>2. /\ arguments \in Seq(Arguments) /\ Len(arguments) \in 0..MaxArguments
        /\ DOMAIN arguments = 1..Len(arguments) /\ MaxArguments \in Nat /\ MaxHops \in Nat
    BY <1>1, CallFacts, BoundsAssumption
  <1>3. Len(buffer) \in Nat /\ Len(endpoints) \in Nat /\ Len(pipes) \in Nat
    BY <1>1, LenProperties
  <1>4. LastParameter(arguments) \in Nat
    BY <1>2 DEF LastParameter, HeaderLength
  <1> QED
    BY <1>1, <1>2, <1>3, <1>4

\* What the stub read is of its kind.
IsReading(x) ==
    CASE Kind(x) = "value"  -> x[2] \in Words
      [] Kind(x) = "array"  -> \A k \in DOMAIN x[2] : x[2][k] \in Words
      [] Kind(x) = "handle" -> x[2] \in Pipes \X (0..MaxHops)

\* Types are kept by a step that keeps the shapes, the bounds and the names.
LEMMA TypesFrom ==
  ASSUME IndInv, Shapes', arguments' = arguments, route' = route,
         place' \in {"caller", "proxy", "written", "sent", "received", "queued", "stub",
                     "invoked", "aborted"},
         next' \in 1..(Len(arguments) + 1), hops' \in 0..route,
         \A i \in 1..Len(pipes') : pipes'[i] \in Pipes \X (0..MaxHops),
         \/ read' = read
         \/ \E x : /\ read' = Append(read, x) /\ Len(read) < Len(arguments)
                   /\ \/ x \in {"value"} \X Words \/ x \in {"array"} \X Arrays
                      \/ x \in {"handle"} \X (Pipes \X (0..MaxHops))
  PROVE  TypeOK'
  <1>1. next' \in 1..(MaxArguments + 1)
    BY Basics
  <1>2. \A i \in DOMAIN buffer' :
           buffer'[i][1] \in {"number", "word", "method", "descriptor"}
    <2>1. buffer' \in Seq(Cells)
      BY DEF Shapes
    <2>2. \A i \in DOMAIN buffer' : buffer'[i] \in Cells
      BY <2>1
    <2> QED
      BY <2>2, CellFacts
  <1>3. \A i \in DOMAIN pipes' : pipes'[i] \in Pipes \X (0..MaxHops)
    <2>1. pipes' \in Seq(Named)
      BY DEF Shapes
    <2> QED
      BY <2>1, LenProperties
  <1>4. Len(read') <= Len(arguments) /\ \A i \in DOMAIN read' : IsReading(read'[i])
    <2>1. read \in Seq(Readings) /\ Len(read) \in Nat
      BY Basics, LenProperties
    <2>2. Len(read) <= Len(arguments) /\ \A i \in DOMAIN read : IsReading(read[i])
      BY DEF IndInv, TypeOK, IsReading
    <2>3. CASE read' = read
      BY <2>2, <2>3
    <2>4. ASSUME NEW x, read' = Append(read, x), Len(read) < Len(arguments),
                 \/ x \in {"value"} \X Words \/ x \in {"array"} \X Arrays
                 \/ x \in {"handle"} \X (Pipes \X (0..MaxHops))
          PROVE  Len(read') <= Len(arguments) /\ \A i \in DOMAIN read' : IsReading(read'[i])
      <3>1. IsReading(x)
        <4>1. CASE x \in {"value"} \X Words
          BY <4>1 DEF Kind, IsReading
        <4>2. CASE x \in {"array"} \X Arrays
          BY <4>2 DEF Kind, Arrays, IsReading
        <4>3. CASE x \in {"handle"} \X (Pipes \X (0..MaxHops))
          BY <4>3 DEF Kind, IsReading
        <4> QED
          BY <2>4, <4>1, <4>2, <4>3
      <3>2. x \in Readings
        BY <2>4, Basics DEF Readings, Named
      <3>3. /\ Len(read') = Len(read) + 1 /\ DOMAIN read' = 1..(Len(read) + 1)
            /\ DOMAIN read = 1..Len(read)
            /\ \A i \in 1..Len(read) : read'[i] = read[i]
            /\ read'[Len(read) + 1] = x
        BY <2>1, <2>4, <3>2, AppendProperties, LenProperties
      <3>4. Len(arguments) \in Nat
        BY Basics
      <3>5. ASSUME NEW i \in DOMAIN read' PROVE IsReading(read'[i])
        <4>1. i \in 1..Len(read) \/ i = Len(read) + 1
          BY <2>1, <3>3, <3>5
        <4>2. CASE i \in 1..Len(read)
          BY <2>2, <3>3, <4>2
        <4>3. CASE i = Len(read) + 1
          BY <3>1, <3>3, <4>3
        <4> QED
          BY <4>1, <4>2, <4>3
      <3>6. Len(read') <= Len(arguments)
        <4>1. Len(read) < Len(arguments)
          BY <2>4
        <4>2. Len(read') = Len(read) + 1
          BY <3>3
        <4>3. Len(read) \in Nat /\ Len(arguments) \in Nat
          BY <2>1, <3>4
        <4> QED
          BY <4>1, <4>2, <4>3
      <3> QED
        BY <3>5, <3>6
    <2> QED
      BY <2>3, <2>4
  <1>5. arguments' \in Calls /\ route' \in 0..MaxHops /\ hops' \in 0..route'
    BY Basics
  <1> QED
    BY <1>1, <1>2, <1>3, <1>4, <1>5 DEF TypeOK, IsReading

\* A step within a process that stops nothing.
LEMMA StillNamed ==
  ASSUME IndInv, UNCHANGED <<hops, registered>>, place' # "aborted"
  PROVE  Names' /\ Stopped'
  <1>1. Names
    BY DEF IndInv
  <1> QED
    BY <1>1 DEF Names, Stopped

\* Allocating the message keeps the invariant.
LEMMA AllocateKeeps == IndInv /\ Allocate => IndInv'
  <1> SUFFICES ASSUME IndInv, Allocate PROVE IndInv'
    OBVIOUS
  <1> DEFINE n == Len(arguments)
             m == HeaderLength + 1 + n
  <1>1. /\ place = "caller" /\ place' = "proxy"
        /\ params' = EndOf(Resize(<< >>, HeaderLength))
        /\ buffer' = Resize(<< >>, m)
        /\ UNCHANGED <<arguments, route, next, endpoints, pipes, hops, registered, read>>
    BY DEF Allocate
  <1>2. buffer = << >> /\ endpoints = << >> /\ next = 1 /\ read = << >> /\ hops = 0
    BY <1>1 DEF IndInv, AtCaller, ReadBack, Reads, Counters
  <1>3. ASSUME NEW k \in Nat
        PROVE  Resize(<< >>, k) \in Seq(Cells) /\ Len(Resize(<< >>, k)) = k
    <2> DEFINE z == [i \in 1..k |-> Zero]
    <2>1. z \in Seq(Cells) /\ Len(z) = k
      BY CellFacts
    <2> HIDE DEF z
    <2>2. << >> \o z = z
      BY <2>1, ConcatEmptySeq
    <2> QED
      BY <2>1, <2>2 DEF Resize, z
  <1>4. params' = HeaderLength + 1
    <2>1. Len(Resize(<< >>, HeaderLength)) = HeaderLength
      BY <1>3 DEF HeaderLength
    <2> QED
      BY <1>1, <2>1 DEF EndOf
  <1>5. n \in Nat /\ m \in Nat /\ m = LastParameter(arguments) /\ arguments \in Calls
    BY Basics DEF LastParameter, HeaderLength
  <1> HIDE DEF n, m
  <1>6. buffer' \in Seq(Cells) /\ Len(buffer') = m
    BY <1>1, <1>3, <1>5
  <1>7. Shapes'
    BY <1>1, <1>6, Basics DEF Shapes
  <1>8. TypeOK'
    <2>1. \A i \in 1..Len(pipes') : pipes'[i] \in Pipes \X (0..MaxHops)
      BY <1>1, Basics, LenProperties DEF IndInv, TypeOK
    <2> QED
      BY <1>1, <1>7, <2>1, Basics, TypesFrom
  <1>9. ValuesIn(arguments, buffer', 1) /\ ArraysIn(arguments, buffer', 1)
        /\ ArraysInLine(arguments, buffer', 1)
    BY Basics DEF ValuesIn, ArraysIn, ArraysInLine, ArraysAt
  <1>10. HandlesListed(arguments, << >>, 1)
    <2>1. Rank(arguments, 1) = 0 /\ Len(<< >>) = 0
      BY <1>5, RankFacts
    <2>2. \A i \in HandlesAt(arguments) : ~(i < 1)
      BY Basics DEF HandlesAt
    <2> QED
      BY <2>1, <2>2 DEF HandlesListed
  <1>11. ToWrite' = 1
    BY <1>1, <1>2 DEF ToWrite
  <1>12. Written'
    BY <1>1, <1>2, <1>4, <1>5, <1>6, <1>9, <1>10, <1>11 DEF Written
  <1>13. AtCaller' /\ Finished' /\ Queued'
    BY <1>1 DEF AtCaller, Finished, Queued
  <1>14. Counters' /\ ReadBack'
    BY <1>1, <1>2, <1>5 DEF Counters, ReadBack, Reads, IndInv
  <1>15. Names' /\ Stopped'
    BY <1>1, StillNamed
  <1> QED
    BY <1>7, <1>8, <1>12, <1>13, <1>14, <1>15 DEF IndInv

\* Writing an argument keeps the invariant if it puts its cell into the parameter
\* and leaves the layout as `LayoutGrows` wants it.
LEMMA WrittenMore ==
  ASSUME IndInv, WriteArgument, buffer' \in Seq(Cells), Len(buffer') >= Len(buffer),
         endpoints' \in Seq(Firsts),
         ValuesIn(arguments, buffer', next + 1), ArraysIn(arguments, buffer', next + 1),
         ArraysInLine(arguments, buffer', next + 1),
         HandlesListed(arguments, endpoints', next + 1)
  PROVE  IndInv'
  <1>1. /\ place = "proxy" /\ next <= Len(arguments) /\ next' = next + 1
        /\ UNCHANGED <<place, arguments, route, params, pipes, hops, registered, read>>
    BY DEF WriteArgument
  <1>2. Shapes'
    BY <1>1, Basics DEF Shapes
  <1>3. next' \in 1..(Len(arguments) + 1)
    BY SMTT(30), <1>1, Basics
  <1>4. TypeOK'
    <2>1. \A i \in 1..Len(pipes') : pipes'[i] \in Pipes \X (0..MaxHops)
      BY <1>1, Basics, LenProperties DEF IndInv, TypeOK
    <2> QED
      BY <1>1, <1>2, <1>3, <2>1, Basics, TypesFrom
  <1>5. params = HeaderLength + 1 /\ LastParameter(arguments) <= Len(buffer)
    BY <1>1 DEF IndInv, Written
  <1>6. Written'
    <2>1. ToWrite' = next + 1
      BY <1>1 DEF ToWrite
    <2>2. Len(buffer') \in Nat
      BY LenProperties
    <2>3. LastParameter(arguments) <= Len(buffer')
      BY SMTT(30), <1>5, <2>2, Basics
    <2> QED
      BY <1>1, <1>5, <2>1, <2>3 DEF Written
  <1>7. AtCaller' /\ Finished' /\ Queued'
    BY <1>1 DEF AtCaller, Finished, Queued
  <1>8. Counters' /\ ReadBack'
    BY <1>1, <1>3, Basics DEF Counters, ReadBack, Reads, IndInv
  <1>9. Names' /\ Stopped'
    BY <1>1, StillNamed
  <1> QED
    BY <1>2, <1>4, <1>6, <1>7, <1>8, <1>9 DEF IndInv

\* What is known of the buffer when an argument is written.
LEMMA AtProxy ==
  ASSUME IndInv, place = "proxy"
  PROVE  /\ params = HeaderLength + 1 /\ LastParameter(arguments) <= Len(buffer)
         /\ ValuesIn(arguments, buffer, next) /\ ArraysIn(arguments, buffer, next)
         /\ ArraysInLine(arguments, buffer, next)
         /\ HandlesListed(arguments, endpoints, next)
         /\ ArraysEnd(arguments, buffer, next, Len(buffer))
         /\ hops = 0
  <1>1. ToWrite = next /\ place # "caller"
    BY DEF ToWrite
  <1>2. Written /\ hops = 0
    BY DEF IndInv, Counters
  <1> QED
    BY <1>1, <1>2, ArraysEndWithin DEF Written

\* The parameter that is written is a cell of the block of the parameters, and not
\* that of another argument.
LEMMA ParameterFacts ==
  ASSUME IndInv, WriteArgument
  PROVE  /\ place = "proxy" /\ next \in 1..Len(arguments) /\ arguments[next] \in Arguments
         /\ ParameterCell(next) = Parameter(next)
         /\ Parameter(next) \in 1..Len(buffer) /\ Parameter(next) <= LastParameter(arguments)
         /\ \A i \in 1..Len(arguments) : i < next =>
               Parameter(i) # Parameter(next) /\ Parameter(i) \in 1..Len(buffer)
  <1>1. place = "proxy" /\ next \in 1..Len(arguments)
    BY Basics DEF WriteArgument
  <1>2. params = HeaderLength + 1 /\ LastParameter(arguments) <= Len(buffer)
    BY <1>1, AtProxy
  <1>3. arguments[next] \in Arguments
    BY <1>1, Basics, CallFacts
  <1> QED
    BY <1>1, <1>2, <1>3, Basics
    DEF ParameterCell, Parameter, LastParameter, HeaderLength

\* Another argument than a handle adds none to the list.
LEMMA ListedNoHandle ==
  ASSUME NEW a \in Calls, NEW e, NEW k \in 1..Len(a), Kind(a[k]) # "handle",
         HandlesListed(a, e, k)
  PROVE  HandlesListed(a, e, k + 1)
  <1>1. Rank(a, k + 1) = Rank(a, k)
    BY RankFacts
  <1>2. \A i \in HandlesAt(a) : i < k + 1 => i < k
    BY CallFacts DEF HandlesAt
  <1> QED
    BY <1>1, <1>2 DEF HandlesListed

\* Writing a value keeps the invariant.
LEMMA WriteValueKeeps ==
  ASSUME IndInv, WriteArgument, Kind(arguments[next]) = "value",
         WriteValue(arguments[next][2])
  PROVE  IndInv'
  <1> DEFINE w == arguments[next][2]
  <1>1. /\ next \in 1..Len(arguments) /\ ParameterCell(next) = Parameter(next)
        /\ Parameter(next) \in 1..Len(buffer) /\ Parameter(next) <= LastParameter(arguments)
        /\ \A i \in 1..Len(arguments) : i < next =>
               Parameter(i) # Parameter(next) /\ Parameter(i) \in 1..Len(buffer)
        /\ arguments[next] \in Arguments
    BY ParameterFacts
  <1>2. w \in Words
    BY <1>1, ArgumentFacts
  <1>3. buffer' = [buffer EXCEPT ![Parameter(next)] = Word(w)] /\ endpoints' = endpoints
    BY <1>1 DEF WriteValue
  <1>4. /\ buffer' \in Seq(Cells) /\ Len(buffer') = Len(buffer)
        /\ buffer'[Parameter(next)] = Word(w)
        /\ \A y \in 1..Len(buffer) : y # Parameter(next) => buffer'[y] = buffer[y]
    <2>1. Word(w) \in Cells
      BY <1>2, CellFacts
    <2> QED
      BY <1>1, <1>3, <2>1, Basics, WriteFacts
  <1> HIDE DEF w
  <1>5. \A x \in (LastParameter(arguments) + 1)..Len(buffer) : buffer'[x] = buffer[x]
    <2>1. LastParameter(arguments) \in Nat /\ Len(buffer) \in Nat /\ Parameter(next) \in Nat
      BY <1>1, Basics
    <2>2. \A x \in (LastParameter(arguments) + 1)..Len(buffer) :
             x \in 1..Len(buffer) /\ x # Parameter(next)
      BY <1>1, <2>1
    <2> QED
      BY <1>4, <2>2
  <1>6. /\ ValuesIn(arguments, buffer', next) /\ ArraysIn(arguments, buffer', next)
        /\ ArraysInLine(arguments, buffer', next)
    <2>1. \A i \in 1..Len(arguments) : i < next =>
             buffer'[Parameter(i)] = buffer[Parameter(i)]
      BY <1>1, <1>4
    <2>2. Len(buffer) <= Len(buffer')
      BY <1>4, Basics
    <2> QED
      BY <1>4, <1>5, <2>1, <2>2, Basics, AtProxy, ParameterFacts, LayoutKept
  <1>7. /\ ValuesIn(arguments, buffer', next + 1) /\ ArraysIn(arguments, buffer', next + 1)
        /\ ArraysInLine(arguments, buffer', next + 1)
    BY <1>1, <1>4, <1>6, Basics, LayoutGrows DEF w
  <1>8. HandlesListed(arguments, endpoints', next + 1)
    BY <1>1, <1>3, Basics, AtProxy, ParameterFacts, ListedNoHandle
  <1>9. endpoints' \in Seq(Firsts) /\ Len(buffer') >= Len(buffer)
    BY <1>3, <1>4, Basics
  <1> QED
    BY <1>4, <1>7, <1>8, <1>9, WrittenMore

\* Writing an array keeps the invariant.
LEMMA WriteArrayKeeps ==
  ASSUME IndInv, WriteArgument, Kind(arguments[next]) = "array",
         WriteArray(arguments[next][2])
  PROVE  IndInv'
  <1> DEFINE array == arguments[next][2]
             cells == [i \in DOMAIN array |-> Word(array[i])]
             grown == AllocateArray(buffer, cells)
             n == Len(array)
             start == Len(buffer) + 1
             at == Parameter(next)
  <1>1. /\ next \in 1..Len(arguments) /\ ParameterCell(next) = at
        /\ at \in 1..Len(buffer) /\ at <= LastParameter(arguments)
        /\ \A i \in 1..Len(arguments) : i < next =>
               Parameter(i) # at /\ Parameter(i) \in 1..Len(buffer)
        /\ arguments[next] \in Arguments /\ place = "proxy"
    BY ParameterFacts
  <1>2. array \in Seq(Words) /\ n \in Nat /\ n = Size(arguments, next)
    BY <1>1, ArgumentFacts DEF Size
  <1>3. /\ buffer' = [grown EXCEPT ![at] = EncodePointer(at, start)]
        /\ endpoints' = endpoints
    BY <1>1 DEF WriteArray, EndOf
  <1> HIDE DEF array
  <1>4. cells \in Seq(Cells) /\ Len(cells) = n /\ \A i \in 1..n : cells[i] = Word(array[i])
    <2>1. DOMAIN array = 1..n /\ \A i \in 1..n : array[i] \in Words
      BY <1>2
    <2>2. \A i \in 1..n : Word(array[i]) \in Cells
      BY <2>1, CellFacts
    <2> QED
      BY <1>2, <2>1, <2>2
  <1> HIDE DEF cells, n
  <1>5. /\ grown \in Seq(Cells) /\ Len(grown) = Len(buffer) + 1 + n
        /\ \A x \in 1..Len(buffer) : grown[x] = buffer[x]
        /\ grown[start] = Number(n)
        /\ \A j \in 1..n : grown[start + j] = cells[j]
    BY <1>4, Basics, AllocateFacts
  <1> HIDE DEF grown
  <1>6. LastParameter(arguments) \in Nat /\ LastParameter(arguments) <= Len(buffer)
        /\ Len(buffer) \in Nat /\ arguments \in Calls /\ buffer \in Seq(Cells)
    BY <1>1, Basics, AtProxy
  <1>7. at \in 1..Len(grown) /\ EncodePointer(at, start) \in Cells
    <2>1. start - at \in Int
      BY <1>1, <1>6
    <2> QED
      BY <1>1, <1>2, <1>5, <1>6, <2>1, CellFacts DEF EncodePointer
  <1>8. /\ buffer' \in Seq(Cells) /\ Len(buffer') = Len(grown)
        /\ buffer'[at] = EncodePointer(at, start)
        /\ \A y \in 1..Len(grown) : y # at => buffer'[y] = grown[y]
    BY <1>3, <1>5, <1>7, WriteFacts
  <1> HIDE DEF at
  <1>9. /\ \A x \in 1..Len(buffer) : x # at => buffer'[x] = buffer[x]
        /\ buffer'[start] = Number(n)
        /\ \A j \in 1..n : buffer'[start + j] = Word(array[j])
    <2>1. \A x \in 1..Len(buffer) : x \in 1..Len(grown)
      BY <1>2, <1>5, <1>6
    <2>2. start \in 1..Len(grown) /\ start # at
      BY <1>1, <1>2, <1>5, <1>6
    <2>3. \A j \in 1..n : start + j \in 1..Len(grown) /\ start + j # at
      BY SMTT(30), <1>1, <1>2, <1>5, <1>6
    <2> HIDE DEF start
    <2> QED
      BY <1>4, <1>5, <1>8, <2>1, <2>2, <2>3
  <1>10. DecodePointer(buffer', at) = start
    <2>1. at \in Nat /\ start \in Nat
      BY <1>1, <1>6
    <2> HIDE DEF start
    <2> QED
      BY <1>8, <2>1, PointerFacts
  <1>11. /\ ValuesIn(arguments, buffer', next) /\ ArraysIn(arguments, buffer', next)
         /\ ArraysInLine(arguments, buffer', next)
         /\ \A i \in ArraysAt(arguments) : i < next =>
               Start(buffer', i) = Start(buffer, i)
    <2>1. \A x \in (LastParameter(arguments) + 1)..Len(buffer) : buffer'[x] = buffer[x]
      BY <1>1, <1>6, <1>9
    <2>2. \A i \in 1..Len(arguments) : i < next =>
             buffer'[Parameter(i)] = buffer[Parameter(i)]
      BY <1>1, <1>9
    <2>3. Len(buffer) <= Len(buffer') /\ next \in Nat
      BY <1>1, <1>2, <1>5, <1>6, <1>8
    <2>4. /\ ValuesIn(arguments, buffer, next) /\ ArraysIn(arguments, buffer, next)
          /\ ArraysInLine(arguments, buffer, next)
          /\ ArraysEnd(arguments, buffer, next, Len(buffer))
      BY <1>1, AtProxy
    <2> QED
      BY <1>6, <1>8, <2>1, <2>2, <2>3, <2>4, LayoutKept
  <1>12. PointsTo(arguments, buffer', at, n)
    <2>1. start \in (LastParameter(arguments) + 1)..Len(buffer')
          /\ start + n <= Len(buffer')
      BY <1>2, <1>5, <1>6, <1>8
    <2> HIDE DEF start
    <2> QED
      BY <1>8, <1>9, <1>10, <2>1 DEF PointsTo
  <1>13. \A j \in ArraysAt(arguments) : j < next =>
            Start(buffer', j) + Size(arguments, j) < start
    <2> SUFFICES ASSUME NEW j \in ArraysAt(arguments), j < next
                 PROVE  Start(buffer', j) + Size(arguments, j) < start
      OBVIOUS
    <2>1. Start(buffer', j) = Start(buffer, j)
      BY <1>11
    <2>2. Start(buffer, j) + Size(arguments, j) <= Len(buffer)
      BY <1>1, AtProxy DEF ArraysEnd
    <2>3. Start(buffer, j) \in Int
      BY <1>1, <1>6, AtProxy DEF ArraysIn, PointsTo, Start
    <2>4. Size(arguments, j) \in Nat
      <3>1. arguments[j][2] \in Seq(Words)
        BY <1>6, CallFacts, ArgumentFacts DEF ArraysAt
      <3> QED
        BY <3>1, LenProperties DEF Size
    <2> QED
      BY <1>6, <2>1, <2>2, <2>3, <2>4
  <1>14. Start(buffer', next) = start
    BY <1>10 DEF Start, at
  <1> HIDE DEF start
  <1>15. /\ ValuesIn(arguments, buffer', next + 1) /\ ArraysIn(arguments, buffer', next + 1)
         /\ ArraysInLine(arguments, buffer', next + 1)
    BY <1>1, <1>2, <1>6, <1>9, <1>11, <1>12, <1>13, <1>14, LayoutGrows DEF at, array
  <1>16. HandlesListed(arguments, endpoints', next + 1)
    BY <1>1, <1>3, <1>6, AtProxy, ListedNoHandle
  <1>17. endpoints' \in Seq(Firsts) /\ Len(buffer') >= Len(buffer)
    BY SMTT(30), <1>2, <1>3, <1>5, <1>6, <1>8, Basics
  <1> QED
    BY <1>8, <1>15, <1>16, <1>17, WrittenMore

\* A handle is added to the list.
LEMMA ListedHandle ==
  ASSUME NEW a \in Calls, NEW e \in Seq(Firsts), NEW k \in 1..Len(a),
         Kind(a[k]) = "handle", HandlesListed(a, e, k)
  PROVE  /\ Append(e, Generation(a[k][2], 0)) \in Seq(Firsts)
         /\ HandlesListed(a, Append(e, Generation(a[k][2], 0)), k + 1)
  <1> DEFINE g == Generation(a[k][2], 0)
             f == Append(e, g)
  <1>1. a[k][2] \in Pipes
    BY CallFacts, ArgumentFacts
  <1>2. g \in Firsts
    BY <1>1 DEF Firsts
  <1> HIDE DEF g
  <1>3. /\ f \in Seq(Firsts) /\ Len(f) = Len(e) + 1 /\ f[Len(e) + 1] = g
        /\ \A i \in 1..Len(e) : f[i] = e[i]
    BY <1>2, AppendProperties
  <1> HIDE DEF f
  <1>4. Len(e) = Rank(a, k) /\ Rank(a, k + 1) = Rank(a, k) + 1 /\ Rank(a, k) \in Nat
    BY RankFacts DEF HandlesListed
  <1>5. ASSUME NEW i \in HandlesAt(a), i < k + 1
        PROVE  f[Rank(a, i) + 1] = Generation(a[i][2], 0)
    <2>1. i \in 1..Len(a) /\ Kind(a[i]) = "handle"
      BY CallFacts DEF HandlesAt
    <2>2. CASE i = k
      BY <1>3, <1>4, <2>2 DEF g
    <2>3. CASE i < k
      <3>1. Rank(a, i + 1) = Rank(a, i) + 1 /\ Rank(a, i) \in Nat
        BY <2>1, RankFacts
      <3>2. Rank(a, i + 1) <= Rank(a, k)
        BY <2>1, <2>3, RankFacts
      <3>3. Rank(a, i) + 1 \in 1..Len(e)
        BY <1>4, <3>1, <3>2
      <3> QED
        BY <1>3, <2>3, <3>3 DEF HandlesListed
    <2> QED
      BY <1>5, <2>1, <2>2, <2>3
  <1>6. HandlesListed(a, f, k + 1)
    BY <1>3, <1>4, <1>5 DEF HandlesListed
  <1> QED
    BY <1>3, <1>6 DEF f, g

\* Writing a handle keeps the invariant.
LEMMA WriteHandleKeeps ==
  ASSUME IndInv, WriteArgument, Kind(arguments[next]) = "handle",
         WriteHandle(arguments[next][2])
  PROVE  IndInv'
  <1> DEFINE p == arguments[next][2]
  <1>1. /\ next \in 1..Len(arguments) /\ ParameterCell(next) = Parameter(next)
        /\ Parameter(next) \in 1..Len(buffer) /\ Parameter(next) <= LastParameter(arguments)
        /\ \A i \in 1..Len(arguments) : i < next =>
               Parameter(i) # Parameter(next) /\ Parameter(i) \in 1..Len(buffer)
        /\ arguments[next] \in Arguments
    BY ParameterFacts
  <1>2. p \in Pipes
    BY <1>1, ArgumentFacts
  <1>3. Descriptor(Name(p, 0), Name(p, 1)) = Generation(p, 0)
    BY DEF Generation
  <1>4. /\ buffer' = [buffer EXCEPT ![Parameter(next)] = Generation(p, 0)]
        /\ endpoints' = Append(endpoints, Generation(p, 0))
    BY <1>1, <1>3 DEF WriteHandle
  <1>5. /\ buffer' \in Seq(Cells) /\ Len(buffer') = Len(buffer)
        /\ \A y \in 1..Len(buffer) : y # Parameter(next) => buffer'[y] = buffer[y]
    <2>1. Generation(p, 0) \in Cells
      <3>1. 0 \in Nat
        OBVIOUS
      <3> QED
        BY <1>2, <3>1, NameFacts
    <2> QED
      BY <1>1, <1>4, <2>1, Basics, WriteFacts
  <1>6. \A x \in (LastParameter(arguments) + 1)..Len(buffer) : buffer'[x] = buffer[x]
    <2>1. LastParameter(arguments) \in Nat /\ Len(buffer) \in Nat /\ Parameter(next) \in Nat
      BY <1>1, Basics
    <2>2. \A x \in (LastParameter(arguments) + 1)..Len(buffer) :
             x \in 1..Len(buffer) /\ x # Parameter(next)
      BY <1>1, <2>1
    <2> QED
      BY <1>5, <2>2
  <1>7. /\ ValuesIn(arguments, buffer', next) /\ ArraysIn(arguments, buffer', next)
        /\ ArraysInLine(arguments, buffer', next)
    <2>1. \A i \in 1..Len(arguments) : i < next =>
             buffer'[Parameter(i)] = buffer[Parameter(i)]
      BY <1>1, <1>5
    <2>2. Len(buffer) <= Len(buffer')
      BY <1>5, Basics
    <2> QED
      BY <1>5, <1>6, <2>1, <2>2, Basics, AtProxy, ParameterFacts, LayoutKept
  <1>8. /\ ValuesIn(arguments, buffer', next + 1) /\ ArraysIn(arguments, buffer', next + 1)
        /\ ArraysInLine(arguments, buffer', next + 1)
    BY <1>1, <1>7, Basics, LayoutGrows
  <1>9. endpoints' \in Seq(Firsts) /\ HandlesListed(arguments, endpoints', next + 1)
    BY <1>1, <1>4, Basics, AtProxy, ParameterFacts, ListedHandle
  <1>10. Len(buffer') >= Len(buffer)
    BY <1>5, Basics
  <1> QED
    BY <1>5, <1>8, <1>9, <1>10, WrittenMore

\* Writing an argument keeps the invariant.
LEMMA WriteArgumentKeeps == IndInv /\ WriteArgument => IndInv'
  <1> SUFFICES ASSUME IndInv, WriteArgument PROVE IndInv'
    OBVIOUS
  <1>1. \/ Kind(arguments[next]) = "value" /\ WriteValue(arguments[next][2])
        \/ Kind(arguments[next]) = "array" /\ WriteArray(arguments[next][2])
        \/ Kind(arguments[next]) = "handle" /\ WriteHandle(arguments[next][2])
    BY DEF WriteArgument
  <1> QED
    BY <1>1, WriteValueKeeps, WriteArrayKeeps, WriteHandleKeeps

\* What is known of the buffer from when it is written.
LEMMA AtWay ==
  ASSUME IndInv, place \notin {"caller", "proxy"}
  PROVE  /\ params = HeaderLength + 1 /\ LastParameter(arguments) <= Len(buffer)
         /\ ValuesIn(arguments, buffer, Len(arguments) + 1)
         /\ ArraysIn(arguments, buffer, Len(arguments) + 1)
         /\ ArraysInLine(arguments, buffer, Len(arguments) + 1)
         /\ HandlesListed(arguments, endpoints, Len(arguments) + 1)
         /\ buffer[IdCell] = Method(MethodOf(arguments))
         /\ DescriptorsIn(arguments, endpoints, buffer, Level)
  <1>1. ToWrite = Len(arguments) + 1 /\ place # "caller"
    BY DEF ToWrite
  <1>2. Written /\ Finished
    BY DEF IndInv
  <1> QED
    BY <1>1, <1>2 DEF Written, Finished

\* A written buffer that stays, or is replaced by one of the same layout.
LEMMA StillWritten ==
  ASSUME UNCHANGED <<arguments, endpoints>>, params' = HeaderLength + 1,
         place' \notin {"caller", "proxy"},
         LastParameter(arguments) <= Len(buffer'),
         ValuesIn(arguments, buffer', Len(arguments) + 1),
         ArraysIn(arguments, buffer', Len(arguments) + 1),
         ArraysInLine(arguments, buffer', Len(arguments) + 1),
         HandlesListed(arguments, endpoints, Len(arguments) + 1),
         buffer'[IdCell] = Method(MethodOf(arguments)),
         DescriptorsIn(arguments, endpoints, buffer', Level')
  PROVE  AtCaller' /\ Written' /\ Finished'
  <1>1. ToWrite' = Len(arguments) + 1
    BY DEF ToWrite
  <1> QED
    BY <1>1 DEF AtCaller, Written, Finished

\* The descriptors stay where the buffer stays the same behind the parameters.
LEMMA DescriptorsKept ==
  ASSUME NEW a \in Calls, NEW e \in Seq(Firsts), NEW b \in Seq(Cells),
         NEW c \in Seq(Cells), NEW k \in Nat, DescriptorsIn(a, e, b, k),
         Len(c) = Len(b), c[EndpointsCell] = b[EndpointsCell],
         \A x \in (LastParameter(a) + 1)..Len(b) : c[x] = b[x],
         \A i \in ArraysAt(a) : Start(c, i) = Start(b, i)
  PROVE  DescriptorsIn(a, e, c, k)
  <1> DEFINE start == DecodePointer(b, EndpointsCell)
  <1>1. /\ PointsTo(a, b, EndpointsCell, Len(e))
        /\ \A j \in 1..Len(e) : b[start + j] = Generation(PipeAt(e, j), k)
        /\ \A i \in ArraysAt(a) : Start(b, i) + Size(a, i) < start
    BY DEF DescriptorsIn
  <1>2. start + Len(e) <= Len(b) /\ start \in (LastParameter(a) + 1)..Len(b)
    BY <1>1 DEF PointsTo
  <1>3. Len(b) \in Nat /\ Len(e) \in Nat /\ LastParameter(a) \in Nat
    BY LenProperties, CallFacts, BoundsAssumption DEF LastParameter, HeaderLength
  <1>4. /\ PointsTo(a, c, EndpointsCell, Len(e))
        /\ DecodePointer(c, EndpointsCell) = start
    <2>1. Len(b) <= Len(c) /\ EndpointsCell \in Nat /\ Len(b) \in Nat /\ Len(e) \in Nat
      BY <1>3 DEF EndpointsCell
    <2>2. PointsTo(a, b, EndpointsCell, Len(e)) /\ start + Len(e) <= Len(b)
      BY <1>1, <1>2
    <2> DEFINE n == Len(e)
               m == Len(b)
    <2>3. /\ m <= Len(c) /\ \A x \in (LastParameter(a) + 1)..m : c[x] = b[x]
          /\ DecodePointer(b, EndpointsCell) + n <= m
          /\ PointsTo(a, b, EndpointsCell, n) /\ n \in Nat /\ m \in Nat
      BY <2>1, <2>2
    <2> HIDE DEF n, m
    <2>4. /\ PointsTo(a, c, EndpointsCell, n)
          /\ DecodePointer(c, EndpointsCell) = DecodePointer(b, EndpointsCell)
      BY SMTT(30), <2>1, <2>3, PointsToKept
    <2> QED
      BY <2>4 DEF n
  <1> HIDE DEF start
  <1>5. ASSUME NEW j \in 1..Len(e) PROVE c[start + j] = Generation(PipeAt(e, j), k)
    <2>1. start + j \in (LastParameter(a) + 1)..Len(b)
      BY <1>2, <1>3
    <2> QED
      BY <1>1, <2>1
  <1>6. \A i \in ArraysAt(a) : Start(c, i) + Size(a, i) < start
    BY <1>1
  <1> QED
    BY <1>4, <1>5, <1>6 DEF DescriptorsIn

\* The cells of the header come before the parameters.
LEMMA HeaderFacts ==
  ASSUME NEW a \in Calls, NEW b \in Seq(Cells), LastParameter(a) <= Len(b)
  PROVE  /\ {SizeCell, IdCell, EndpointsCell} \subseteq 1..Len(b)
         /\ \A x \in (LastParameter(a) + 1)..Len(b) :
               x \in 1..Len(b) /\ x \notin {SizeCell, IdCell, EndpointsCell}
         /\ \A i \in 1..Len(a) :
               /\ Parameter(i) \in 1..LastParameter(a) /\ Parameter(i) \in 1..Len(b)
               /\ Parameter(i) \notin {SizeCell, IdCell, EndpointsCell}
  <1>1. Len(a) \in Nat /\ Len(b) \in Nat
    BY LenProperties, CallFacts, BoundsAssumption
  <1> QED
    BY <1>1 DEF SizeCell, IdCell, EndpointsCell, LastParameter, Parameter, HeaderLength

\* Writing the descriptors keeps the invariant.
LEMMA WriteEndpointsKeeps == IndInv /\ WriteEndpoints => IndInv'
  <1> SUFFICES ASSUME IndInv, WriteEndpoints PROVE IndInv'
    OBVIOUS
  <1> DEFINE grown == AllocateArray(buffer, endpoints)
             start == Len(buffer) + 1
             id == Method(MethodOf(arguments))
             pointer == EncodePointer(EndpointsCell, start)
             named == [grown EXCEPT ![IdCell] = id]
             n == Len(endpoints)
             last == Len(arguments) + 1
  <1>1. /\ place = "proxy" /\ place' = "written" /\ next = last
        /\ buffer' = [named EXCEPT ![EndpointsCell] = pointer]
        /\ UNCHANGED <<arguments, route, next, params, endpoints, pipes, hops, registered,
                       read>>
    BY DEF WriteEndpoints, EndOf
  <1>2. /\ arguments \in Calls /\ buffer \in Seq(Cells) /\ endpoints \in Seq(Firsts)
        /\ Len(buffer) \in Nat /\ n \in Nat /\ last \in Nat
        /\ LastParameter(arguments) \in Nat
    BY Basics
  <1>3. /\ params = HeaderLength + 1 /\ LastParameter(arguments) <= Len(buffer)
        /\ ValuesIn(arguments, buffer, last) /\ ArraysIn(arguments, buffer, last)
        /\ ArraysInLine(arguments, buffer, last)
        /\ HandlesListed(arguments, endpoints, last)
        /\ ArraysEnd(arguments, buffer, last, Len(buffer)) /\ hops = 0
    BY <1>1, AtProxy
  <1>4. /\ endpoints \in Seq(Cells)
        /\ \A j \in 1..n : endpoints[j] = Generation(PipeAt(endpoints, j), 0)
    <2>1. \A j \in 1..n : /\ endpoints[j] = Generation(PipeAt(endpoints, j), 0)
                          /\ endpoints[j] \in Cells
      BY <1>2, FirstFacts
    <2> QED
      BY <1>2, <2>1
  <1>5. /\ grown \in Seq(Cells) /\ Len(grown) = Len(buffer) + 1 + n
        /\ \A x \in 1..Len(buffer) : grown[x] = buffer[x]
        /\ grown[start] = Number(n)
        /\ \A j \in 1..n : grown[start + j] = endpoints[j]
    BY <1>2, <1>4, AllocateFacts
  <1> HIDE DEF grown
  <1>6. LastParameter(arguments) <= Len(grown) /\ Len(grown) \in Nat
    BY <1>2, <1>3, <1>5
  <1>7. /\ {IdCell, EndpointsCell} \subseteq 1..Len(grown)
        /\ IdCell # EndpointsCell /\ EndpointsCell \in Nat
        /\ \A x \in (LastParameter(arguments) + 1)..Len(grown) :
              x \in 1..Len(grown) /\ x \notin {IdCell, EndpointsCell}
        /\ \A i \in 1..Len(arguments) :
              /\ Parameter(i) \in 1..LastParameter(arguments)
              /\ Parameter(i) \in 1..Len(grown)
              /\ Parameter(i) \notin {IdCell, EndpointsCell}
    BY SMTT(30), <1>2, <1>5, <1>6, HeaderFacts DEF IdCell, EndpointsCell
  <1>8. id \in Cells /\ pointer \in Cells
    <2>1. start - EndpointsCell \in Int
      BY <1>2 DEF EndpointsCell
    <2> HIDE DEF start
    <2> QED
      BY <1>2, <2>1, CallFacts, CellFacts DEF EncodePointer
  <1> HIDE DEF id, pointer
  <1>9. /\ named \in Seq(Cells) /\ Len(named) = Len(grown) /\ named[IdCell] = id
        /\ \A y \in 1..Len(grown) : y # IdCell => named[y] = grown[y]
    BY <1>5, <1>7, <1>8, WriteFacts
  <1> HIDE DEF named
  <1>10. /\ buffer' \in Seq(Cells) /\ Len(buffer') = Len(grown)
         /\ buffer'[EndpointsCell] = pointer
         /\ \A y \in 1..Len(grown) : y # EndpointsCell => buffer'[y] = named[y]
    BY <1>1, <1>7, <1>8, <1>9, WriteFacts
  <1>11. /\ buffer'[IdCell] = id
         /\ \A y \in 1..Len(grown) : y \notin {IdCell, EndpointsCell} => buffer'[y] = grown[y]
    BY <1>7, <1>9, <1>10
  <1>12. /\ ValuesIn(arguments, buffer', last) /\ ArraysIn(arguments, buffer', last)
         /\ ArraysInLine(arguments, buffer', last)
         /\ \A i \in ArraysAt(arguments) : i < last => Start(buffer', i) = Start(buffer, i)
    <2>1. \A x \in (LastParameter(arguments) + 1)..Len(buffer) : buffer'[x] = buffer[x]
      <3>1. \A x \in (LastParameter(arguments) + 1)..Len(buffer) :
               x \in 1..Len(buffer) /\ x \in (LastParameter(arguments) + 1)..Len(grown)
        BY <1>2, <1>5
      <3> QED
        BY <1>5, <1>7, <1>11, <3>1
    <2>2. \A i \in 1..Len(arguments) : i < last => buffer'[Parameter(i)] = buffer[Parameter(i)]
      <3>1. \A i \in 1..Len(arguments) : Parameter(i) \in 1..Len(buffer)
        BY <1>2, <1>3, HeaderFacts
      <3> QED
        BY <1>5, <1>7, <1>11, <3>1
    <2>3. Len(buffer) <= Len(buffer')
      BY <1>2, <1>5, <1>10
    <2> HIDE DEF last
    <2> QED
      BY <1>2, <1>3, <1>10, <2>1, <2>2, <2>3, LayoutKept
  <1>13. DescriptorsIn(arguments, endpoints, buffer', 0)
    <2>1. DecodePointer(buffer', EndpointsCell) = start
      <3>1. start \in Nat
        BY <1>2
      <3> HIDE DEF start
      <3> QED
        BY <1>7, <1>10, <3>1, PointerFacts DEF pointer
    <2>2. /\ start \in (LastParameter(arguments) + 1)..Len(grown)
          /\ start + n <= Len(grown)
      BY <1>2, <1>3, <1>5
    <2>3. buffer'[start] = Number(n)
      BY <1>5, <1>7, <1>11, <2>2
    <2>4. \A j \in 1..n : buffer'[start + j] = Generation(PipeAt(endpoints, j), 0)
      <3> SUFFICES ASSUME NEW j \in 1..n
                   PROVE  buffer'[start + j] = Generation(PipeAt(endpoints, j), 0)
        OBVIOUS
      <3>1. start + j \in (LastParameter(arguments) + 1)..Len(grown)
        BY <1>2, <2>2
      <3>2. buffer'[start + j] = grown[start + j]
        BY <1>7, <1>11, <3>1
      <3> HIDE DEF start
      <3> QED
        BY <1>4, <1>5, <3>2
    <2>5. \A i \in ArraysAt(arguments) : Start(buffer', i) + Size(arguments, i) < start
      <3> SUFFICES ASSUME NEW i \in ArraysAt(arguments)
                   PROVE  Start(buffer', i) + Size(arguments, i) < start
        OBVIOUS
      <3>1. i \in 1..Len(arguments) /\ i < last
        BY <1>2, CallFacts DEF ArraysAt
      <3>2. Start(buffer', i) = Start(buffer, i)
        BY <1>12, <3>1
      <3>3. Start(buffer, i) + Size(arguments, i) <= Len(buffer)
        BY <1>3, <3>1 DEF ArraysEnd
      <3>4. Start(buffer, i) \in Int
        <4>1. PointsTo(arguments, buffer, Parameter(i), Size(arguments, i))
          BY <1>3, <3>1 DEF ArraysIn
        <4> QED
          BY <1>2, <4>1 DEF PointsTo, Start
      <3>5. Size(arguments, i) \in Nat
        <4>1. arguments[i][2] \in Seq(Words)
          BY <1>2, <3>1, CallFacts, ArgumentFacts DEF ArraysAt
        <4> QED
          BY <4>1, LenProperties DEF Size
      <3> QED
        BY <1>2, <3>2, <3>3, <3>4, <3>5
    <2>6. PointsTo(arguments, buffer', EndpointsCell, n)
      <3> HIDE DEF start
      <3> QED
        BY <1>10, <2>1, <2>2, <2>3 DEF PointsTo, pointer
    <2> QED
      BY <2>1, <2>4, <2>5, <2>6 DEF DescriptorsIn
  <1> HIDE DEF last, start
  <1>14. AtCaller' /\ Written' /\ Finished'
    <2>1. Level' = 0
      BY <1>1, <1>3 DEF Level
    <2>2. LastParameter(arguments) <= Len(buffer')
      BY <1>6, <1>10
    <2> QED
      BY <1>1, <1>3, <1>11, <1>12, <1>13, <2>1, <2>2, StillWritten DEF last, id
  <1>15. Shapes'
    BY <1>1, <1>10, Basics DEF Shapes
  <1>16. TypeOK'
    <2>1. \A i \in 1..Len(pipes') : pipes'[i] \in Pipes \X (0..MaxHops)
      BY <1>1, Basics, LenProperties DEF IndInv, TypeOK
    <2> QED
      BY <1>1, <1>15, <2>1, Basics, TypesFrom
  <1>17. Counters' /\ Queued' /\ ReadBack'
    BY <1>1, <1>3, Basics DEF Counters, Queued, ReadBack, Reads, IndInv
  <1>18. Names' /\ Stopped'
    BY <1>1, StillNamed
  <1> QED
    BY <1>14, <1>15, <1>16, <1>17, <1>18 DEF IndInv

\* Writing the size keeps the invariant.
LEMMA FinalizeSizeKeeps == IndInv /\ FinalizeSize => IndInv'
  <1> SUFFICES ASSUME IndInv, FinalizeSize PROVE IndInv'
    OBVIOUS
  <1> DEFINE last == Len(arguments) + 1
             size == Number(Len(buffer))
  <1>1. /\ place = "written" /\ place' = "sent"
        /\ buffer' = [buffer EXCEPT ![SizeCell] = size]
        /\ UNCHANGED <<arguments, route, next, params, endpoints, pipes, hops, registered,
                       read>>
    BY DEF FinalizeSize
  <1>2. /\ arguments \in Calls /\ buffer \in Seq(Cells) /\ endpoints \in Seq(Firsts)
        /\ Len(buffer) \in Nat /\ last \in Nat /\ LastParameter(arguments) \in Nat
    BY Basics
  <1>3. /\ params = HeaderLength + 1 /\ LastParameter(arguments) <= Len(buffer)
        /\ ValuesIn(arguments, buffer, last) /\ ArraysIn(arguments, buffer, last)
        /\ ArraysInLine(arguments, buffer, last)
        /\ HandlesListed(arguments, endpoints, last)
        /\ buffer[IdCell] = Method(MethodOf(arguments))
        /\ DescriptorsIn(arguments, endpoints, buffer, Level)
    BY <1>1, AtWay
  <1>4. Level = 0 /\ Level' = 0 /\ hops = 0
    BY <1>1 DEF Level, IndInv, Counters
  <1>5. size \in Cells
    BY <1>2, CellFacts
  <1> HIDE DEF size
  <1>6. /\ SizeCell \in 1..Len(buffer) /\ IdCell \in 1..Len(buffer)
        /\ EndpointsCell \in 1..Len(buffer)
        /\ SizeCell # IdCell /\ SizeCell # EndpointsCell
        /\ \A x \in (LastParameter(arguments) + 1)..Len(buffer) :
              x \in 1..Len(buffer) /\ x # SizeCell
        /\ \A i \in 1..Len(arguments) :
              Parameter(i) \in 1..Len(buffer) /\ Parameter(i) # SizeCell
    BY <1>2, <1>3, HeaderFacts DEF SizeCell, IdCell, EndpointsCell
  <1>7. /\ buffer' \in Seq(Cells) /\ Len(buffer') = Len(buffer)
        /\ \A y \in 1..Len(buffer) : y # SizeCell => buffer'[y] = buffer[y]
    BY <1>1, <1>2, <1>5, <1>6, WriteFacts
  <1>8. \A x \in (LastParameter(arguments) + 1)..Len(buffer) : buffer'[x] = buffer[x]
    BY <1>6, <1>7
  <1>9. /\ ValuesIn(arguments, buffer', last) /\ ArraysIn(arguments, buffer', last)
        /\ ArraysInLine(arguments, buffer', last)
        /\ \A i \in ArraysAt(arguments) : i < last => Start(buffer', i) = Start(buffer, i)
    <2>1. \A i \in 1..Len(arguments) : i < last => buffer'[Parameter(i)] = buffer[Parameter(i)]
      BY <1>6, <1>7
    <2>2. Len(buffer) <= Len(buffer')
      BY <1>2, <1>7
    <2>3. /\ ValuesIn(arguments, buffer, last) /\ ArraysIn(arguments, buffer, last)
          /\ ArraysInLine(arguments, buffer, last)
          /\ ArraysEnd(arguments, buffer, last, Len(buffer))
      BY <1>3, ArraysEndWithin
    <2>4. buffer' \in Seq(Cells)
      BY <1>7
    <2> HIDE DEF last
    <2> QED
      BY <1>2, <1>8, <2>1, <2>2, <2>3, <2>4, LayoutKept
  <1>10. DescriptorsIn(arguments, endpoints, buffer', 0)
    <2>1. \A i \in ArraysAt(arguments) : Start(buffer', i) = Start(buffer, i)
      <3>1. \A i \in ArraysAt(arguments) : i < last
        BY <1>2, CallFacts DEF ArraysAt
      <3> QED
        BY <1>9, <3>1
    <2>2. buffer'[EndpointsCell] = buffer[EndpointsCell] /\ 0 \in Nat
      BY <1>6, <1>7
    <2> QED
      BY <1>2, <1>3, <1>4, <1>7, <1>8, <2>1, <2>2, DescriptorsKept
  <1>11. AtCaller' /\ Written' /\ Finished'
    <2>1. buffer'[IdCell] = buffer[IdCell]
      BY <1>6, <1>7
    <2> QED
      BY <1>1, <1>3, <1>4, <1>7, <1>9, <1>10, <2>1, StillWritten
  <1>12. Shapes'
    BY <1>1, <1>7, Basics DEF Shapes
  <1>13. TypeOK'
    <2>1. \A i \in 1..Len(pipes') : pipes'[i] \in Pipes \X (0..MaxHops)
      BY <1>1, Basics, LenProperties DEF IndInv, TypeOK
    <2> QED
      BY <1>1, <1>12, <2>1, Basics, TypesFrom
  <1>14. Counters' /\ Queued' /\ ReadBack'
    BY <1>1, <1>4, Basics DEF Counters, Queued, ReadBack, Reads, IndInv
  <1>15. Names' /\ Stopped'
    BY <1>1, StillNamed
  <1> QED
    BY <1>11, <1>12, <1>13, <1>14, <1>15 DEF IndInv

\* The descriptors of the buffer on the way, as its pointer to them gives them.
LEMMA OnItsWay ==
  ASSUME IndInv, place \notin {"caller", "proxy"}
  PROVE  /\ Level \in Nat /\ DOMAIN Descriptors = 1..Len(endpoints)
         /\ \A j \in 1..Len(endpoints) :
               /\ Descriptors[j] = Generation(PipeAt(endpoints, j), Level)
               /\ Descriptors[j][2].name = Name(PipeAt(endpoints, j), Level)
               /\ Descriptors[j][2].cross = Name(PipeAt(endpoints, j), Level + 1)
               /\ PipeAt(endpoints, j) \in Pipes
  <1>1. Level \in Nat
    <2>1. place # "sent" /\ hops # 0 => hops - 1 \in Nat
      BY Basics
    <2> QED
      BY <2>1, Basics DEF Level
  <1>2. DescriptorsIn(arguments, endpoints, buffer, Level)
    BY AtWay
  <1>3. /\ DOMAIN Descriptors = 1..Len(endpoints)
        /\ \A j \in 1..Len(endpoints) : Descriptors[j] = Generation(PipeAt(endpoints, j), Level)
    BY <1>1, <1>2, Basics, DescriptorsRead DEF Descriptors
  <1>4. ASSUME NEW j \in 1..Len(endpoints)
        PROVE  /\ Descriptors[j][2].name = Name(PipeAt(endpoints, j), Level)
               /\ Descriptors[j][2].cross = Name(PipeAt(endpoints, j), Level + 1)
               /\ PipeAt(endpoints, j) \in Pipes
    <2>1. PipeAt(endpoints, j) \in Pipes
      BY Basics, FirstFacts
    <2> DEFINE p == PipeAt(endpoints, j)
               k == Level
    <2>2. p \in Pipes /\ k \in Nat /\ Descriptors[j] = Generation(p, k)
      BY <1>1, <1>3, <2>1
    <2> HIDE DEF p, k
    <2>3. Generation(p, k)[2].name = Name(p, k) /\ Generation(p, k)[2].cross = Name(p, k + 1)
      BY <2>2, NameFacts
    <2>4. Descriptors[j][2].name = Name(p, k) /\ Descriptors[j][2].cross = Name(p, k + 1)
      BY <2>2, <2>3
    <2> QED
      BY <2>1, <2>4 DEF p, k
  <1> QED
    BY <1>1, <1>3, <1>4

\* A written buffer that stays.
LEMMA SameBuffer ==
  ASSUME IndInv, place \notin {"caller", "proxy"}, place' \notin {"caller", "proxy"},
         UNCHANGED <<arguments, endpoints, buffer>>, params' = HeaderLength + 1,
         Level' = Level
  PROVE  AtCaller' /\ Written' /\ Finished'
  <1> DEFINE level == Level
  <1>1. level' = level
    OBVIOUS
  <1> HIDE DEF level
  <1>2. DescriptorsIn(arguments, endpoints, buffer', level')
    BY <1>1, AtWay DEF level
  <1>3. DescriptorsIn(arguments, endpoints, buffer', Level')
    BY <1>2 DEF level
  <1> QED
    BY <1>3, AtWay, StillWritten

\* The handles of all the descriptors, queued on a message that has come k
\* processes far.
LEMMA HandlesQueued ==
  ASSUME NEW e \in Seq(Firsts), NEW k \in Nat, k <= MaxHops, NEW q,
         q = [j \in 1..Len(e) |-> Name(PipeAt(e, j), k)]
  PROVE  /\ q \in Seq(Named) /\ Len(q) = Len(e)
         /\ \A j \in 1..Len(q) : /\ q[j] = Name(PipeAt(e, j), k)
                                 /\ q[j] \in Pipes \X (0..MaxHops)
         /\ ToSet(q) = {Name(PipeAt(e, j), k) : j \in 1..Len(e)}
  <1>1. Len(e) \in Nat
    BY LenProperties
  <1>2. ASSUME NEW j \in 1..Len(e)
        PROVE  /\ Name(PipeAt(e, j), k) \in Named
               /\ Name(PipeAt(e, j), k) \in Pipes \X (0..MaxHops)
    <2>1. PipeAt(e, j) \in Pipes
      BY FirstFacts
    <2>2. k \in 0..MaxHops
      BY BoundsAssumption
    <2> QED
      BY <2>1, <2>2 DEF Name, Named
  <1>3. q \in [1..Len(e) -> Named] /\ DOMAIN q = 1..Len(e)
    BY <1>2
  <1>4. q \in Seq(Named) /\ Len(q) = Len(e)
    BY <1>1, <1>3
  <1>5. ToSet(q) = {Name(PipeAt(e, j), k) : j \in 1..Len(e)}
    BY <1>3 DEF ToSet
  <1> QED
    BY <1>2, <1>4, <1>5

\* Delivering in the same process keeps the invariant.
LEMMA DeliverLocallyKeeps == IndInv /\ DeliverLocally => IndInv'
  <1> SUFFICES ASSUME IndInv, DeliverLocally PROVE IndInv'
    OBVIOUS
  <1>1. /\ place = "sent" /\ hops = 0 /\ place' = "queued"
        /\ NamesKnown
        /\ pipes' = [i \in DOMAIN Descriptors |-> Descriptors[i][2].name]
        /\ UNCHANGED <<arguments, route, next, buffer, params, endpoints, hops, registered,
                       read>>
    BY DEF DeliverLocally
  <1>2. Level = 0 /\ Level' = 0
    BY <1>1 DEF Level
  <1>3. params = HeaderLength + 1
    BY <1>1, AtWay
  <1>4. AtCaller' /\ Written' /\ Finished'
    BY <1>1, <1>2, <1>3, SameBuffer
  <1>5. /\ DOMAIN Descriptors = 1..Len(endpoints)
        /\ \A j \in 1..Len(endpoints) : Descriptors[j][2].name = Name(PipeAt(endpoints, j), 0)
    BY <1>1, <1>2, OnItsWay
  <1>6. pipes' = [j \in 1..Len(endpoints) |-> Name(PipeAt(endpoints, j), 0)]
    BY <1>1, <1>5
  <1>7. /\ pipes' \in Seq(Named) /\ Len(pipes') = Len(endpoints)
        /\ \A j \in 1..Len(pipes') : /\ pipes'[j] = Name(PipeAt(endpoints, j), 0)
                                     /\ pipes'[j] \in Pipes \X (0..MaxHops)
    <2>1. 0 \in Nat /\ 0 <= MaxHops /\ endpoints \in Seq(Firsts)
      BY Basics
    <2> QED
      BY <1>6, <2>1, HandlesQueued
  <1>8. Shapes'
    BY <1>1, <1>7, Basics DEF Shapes
  <1>9. TypeOK'
    BY <1>1, <1>7, <1>8, Basics, TypesFrom
  <1>10. Queued'
    <2>1. Taken' = 0
      BY <1>1 DEF Taken, Reads
    <2>2. Len(pipes') + 0 = Len(endpoints) /\ \A j \in 1..Len(pipes') : 0 + j = j
      BY <1>7, Basics
    <2>3. \A j \in 1..Len(endpoints) : Name(PipeAt(endpoints, j), 0) \in registered
      BY <1>1, <1>5 DEF NamesKnown
    <2> QED
      BY <1>1, <1>7, <2>1, <2>2, <2>3 DEF Queued
  <1>11. Counters' /\ ReadBack'
    BY <1>1, Basics DEF Counters, ReadBack, Reads, IndInv
  <1>12. Names' /\ Stopped'
    BY <1>1, StillNamed
  <1> QED
    BY <1>4, <1>8, <1>9, <1>10, <1>11, <1>12 DEF IndInv

\* What a process knows of the descriptors of a message that it flushes: in the
\* caller's process all of them, in another one none.
LEMMA NamedHere ==
  ASSUME IndInv, Flushes
  PROVE  /\ hops = 0 => NamesKnown
         /\ hops # 0 /\ NamesKnown => Len(endpoints) = 0
  <1>1. place \notin {"caller", "proxy"} /\ (place = "queued" \/ hops = 0)
    BY DEF Flushes
  <1>2. /\ DOMAIN Descriptors = 1..Len(endpoints)
        /\ \A j \in 1..Len(endpoints) :
              /\ Descriptors[j][2].name = Name(PipeAt(endpoints, j), Level)
              /\ PipeAt(endpoints, j) \in Pipes
    BY <1>1, OnItsWay
  <1>3. Names /\ hops \in Nat /\ Len(endpoints) \in Nat
    BY Basics DEF IndInv
  <1>4. ASSUME hops = 0 PROVE NamesKnown
    <2>1. Level = 0 /\ registered = {Name(p, 0) : p \in Pipes}
      BY <1>3, <1>4 DEF Level, Names
    <2> QED
      BY <1>2, <2>1 DEF NamesKnown
  <1>5. ASSUME hops # 0, NamesKnown, Len(endpoints) # 0 PROVE FALSE
    <2>1. 1 \in 1..Len(endpoints)
      BY <1>3, <1>5
    <2>2. Level = hops - 1 /\ \A n \in registered : n[2] = hops
      BY <1>1, <1>3, <1>5 DEF Level, Names, Flushes
    <2>3. Descriptors[1][2].name[2] = hops - 1
      BY <1>2, <2>1, <2>2 DEF Name
    <2>4. Descriptors[1][2].name \in registered
      BY <1>2, <1>5, <2>1 DEF NamesKnown
    <2> QED
      BY <1>3, <2>2, <2>3, <2>4
  <1> QED
    BY <1>4, <1>5

\* A flush that fails keeps the invariant.
LEMMA FlushFailsKeeps == IndInv /\ FlushFails => IndInv'
  <1> SUFFICES ASSUME IndInv, FlushFails PROVE IndInv'
    OBVIOUS
  <1>1. /\ hops < route /\ Flushes /\ ~NamesKnown /\ place' = "aborted"
        /\ UNCHANGED <<arguments, route, next, buffer, params, endpoints, pipes, hops,
                       registered, read>>
    BY DEF FlushFails
  <1>2. place \in {"queued", "sent"} /\ (place = "queued" \/ hops = 0)
    BY <1>1 DEF Flushes
  <1>3. Level' = Level
    BY <1>1, <1>2 DEF Level
  <1>4. params = HeaderLength + 1
    BY <1>2, AtWay
  <1>5. AtCaller' /\ Written' /\ Finished'
    BY <1>1, <1>2, <1>3, <1>4, SameBuffer
  <1>6. Shapes'
    BY <1>1, Basics DEF Shapes
  <1>7. TypeOK'
    <2>1. \A i \in 1..Len(pipes') : pipes'[i] \in Pipes \X (0..MaxHops)
      BY <1>1, Basics, LenProperties DEF IndInv, TypeOK
    <2> QED
      BY <1>1, <1>6, <2>1, Basics, TypesFrom
  <1>8. Counters' /\ ReadBack' /\ Queued'
    BY <1>1, <1>2, Basics DEF Counters, ReadBack, Reads, Queued, IndInv
  <1>9. Names'
    BY <1>1 DEF Names, IndInv
  <1>10. Stopped'
    <2>1. hops # 0
      BY <1>1, NamedHere
    <2>2. HandlesAt(arguments) # {}
      <3> SUFFICES ASSUME HandlesAt(arguments) = {} PROVE FALSE
        OBVIOUS
      <3>1. HandlesListed(arguments, endpoints, Len(arguments) + 1)
        BY <1>2, AtWay
      <3>2. Rank(arguments, Len(arguments) + 1) = 0
        <4>1. {i \in HandlesAt(arguments) : i < Len(arguments) + 1} = {}
          OBVIOUS
        <4> QED
          BY <4>1, FS_EmptySet DEF Rank
      <3>3. DOMAIN Descriptors = 1..0
        BY <1>2, <3>1, <3>2, OnItsWay DEF HandlesListed
      <3> QED
        BY <1>1, <3>3 DEF NamesKnown
    <2> QED
      BY <1>1, <2>1, <2>2, Basics DEF Stopped, Reforwarded
  <1> QED
    BY <1>5, <1>6, <1>7, <1>8, <1>9, <1>10 DEF IndInv

\* Going to another process keeps the invariant.
LEMMA TransmitKeeps == IndInv /\ Transmit => IndInv'
  <1> SUFFICES ASSUME IndInv, Transmit PROVE IndInv'
    OBVIOUS
  <1>1. /\ place \in {"sent", "queued"} /\ (Flushes => NamesKnown)
        /\ hops < route /\ hops' = hops + 1 /\ place' = "received"
        /\ pipes' = [i \in DOMAIN Descriptors |-> Descriptors[i][2].cross]
        /\ registered' = ToSet(pipes')
        /\ UNCHANGED <<arguments, route, next, buffer, params, endpoints, read>>
    BY DEF Transmit
  <1>2. place \notin {"caller", "proxy"} /\ ~Reads
    BY <1>1 DEF Reads
  <1>3. /\ hops' \in 0..route /\ hops' \in Nat /\ hops' <= MaxHops /\ hops' > 0
        /\ hops' # 0 /\ hops' - 1 = hops
    BY SMTT(30), <1>1, Basics
  <1>4. Level' = hops
    BY <1>1, <1>3 DEF Level
  <1>5. params = HeaderLength + 1
    BY <1>2, AtWay
  <1>6. /\ DOMAIN Descriptors = 1..Len(endpoints)
        /\ \A j \in 1..Len(endpoints) :
              Descriptors[j][2].cross = Name(PipeAt(endpoints, j), hops')
        /\ DescriptorsIn(arguments, endpoints, buffer, hops)
    <2>1. CASE Level = hops
      BY <1>1, <1>2, <2>1, OnItsWay, AtWay
    <2>2. CASE Level # hops
      <3>1. Flushes /\ hops # 0 /\ NamesKnown
        BY <1>1, <2>2 DEF Level, Flushes
      <3>2. Len(endpoints) = 0
        BY <1>2, <3>1, NamedHere, Basics
      <3> QED
        BY <1>2, <3>2, OnItsWay, AtWay DEF DescriptorsIn
    <2> QED
      BY <2>1, <2>2
  <1>7. AtCaller' /\ Written' /\ Finished'
    <2>1. DescriptorsIn(arguments, endpoints, buffer', Level')
      BY <1>1, <1>4, <1>6
    <2> QED
      BY <1>1, <1>2, <1>5, <2>1, AtWay, StillWritten
  <1>8. pipes' = [j \in 1..Len(endpoints) |-> Name(PipeAt(endpoints, j), hops')]
    BY <1>1, <1>6
  <1>9. /\ pipes' \in Seq(Named) /\ Len(pipes') = Len(endpoints)
        /\ \A j \in 1..Len(pipes') : /\ pipes'[j] = Name(PipeAt(endpoints, j), hops')
                                     /\ pipes'[j] \in Pipes \X (0..MaxHops)
        /\ registered' = {Name(PipeAt(endpoints, j), hops') : j \in 1..Len(endpoints)}
    <2> DEFINE q == pipes'
               k == hops'
    <2>1. /\ endpoints \in Seq(Firsts) /\ k \in Nat /\ k <= MaxHops
          /\ q = [j \in 1..Len(endpoints) |-> Name(PipeAt(endpoints, j), k)]
          /\ registered' = ToSet(q)
      BY <1>1, <1>3, <1>8, Basics
    <2> HIDE DEF q, k
    <2>2. /\ q \in Seq(Named) /\ Len(q) = Len(endpoints)
          /\ \A j \in 1..Len(q) : /\ q[j] = Name(PipeAt(endpoints, j), k)
                                  /\ q[j] \in Pipes \X (0..MaxHops)
          /\ ToSet(q) = {Name(PipeAt(endpoints, j), k) : j \in 1..Len(endpoints)}
      BY <2>1, HandlesQueued
    <2> QED
      BY <2>1, <2>2 DEF q, k
  <1>10. Shapes'
    BY <1>1, <1>9, Basics DEF Shapes
  <1>11. TypeOK'
    BY <1>1, <1>3, <1>9, <1>10, Basics, TypesFrom
  <1>12. Queued'
    <2>1. Taken' = 0
      BY <1>1 DEF Taken, Reads
    <2>2. Len(pipes') + 0 = Len(endpoints) /\ \A j \in 1..Len(pipes') : 0 + j = j
      BY <1>9, Basics
    <2>3. \A j \in 1..Len(endpoints) : Name(PipeAt(endpoints, j), hops') \in registered'
      BY <1>9
    <2> QED
      BY <1>1, <1>9, <2>1, <2>2, <2>3 DEF Queued
  <1>13. Counters' /\ ReadBack'
    <2>1. read = << >>
      BY <1>2 DEF IndInv, ReadBack
    <2> QED
      BY <1>1, <1>3, <2>1, Basics DEF Counters, ReadBack, Reads
  <1>14. Names' /\ Stopped'
    <2>1. \A p \in Pipes : Name(p, hops')[2] = hops'
      BY DEF Name
    <2>2. \A j \in 1..Len(endpoints) : PipeAt(endpoints, j) \in Pipes
      BY <1>2, OnItsWay
    <2>3. \A n \in registered' : n[2] = hops'
      BY <1>9, <2>1, <2>2
    <2> QED
      BY <1>1, <1>3, <2>3 DEF Names, Stopped
  <1> QED
    BY <1>7, <1>10, <1>11, <1>12, <1>13, <1>14 DEF IndInv

\* Delivering where the message arrived keeps the invariant.
LEMMA DeliverKeeps == IndInv /\ Deliver => IndInv'
  <1> SUFFICES ASSUME IndInv, Deliver PROVE IndInv'
    OBVIOUS
  <1>1. /\ place = "received" /\ place' = "queued"
        /\ UNCHANGED <<arguments, route, next, buffer, params, endpoints, pipes, hops,
                       registered, read>>
    BY DEF Deliver
  <1>2. Level' = Level
    BY <1>1 DEF Level
  <1>3. params = HeaderLength + 1
    BY <1>1, AtWay
  <1>4. AtCaller' /\ Written' /\ Finished'
    BY <1>1, <1>2, <1>3, SameBuffer
  <1>5. Shapes'
    BY <1>1, Basics DEF Shapes
  <1>6. TypeOK'
    <2>1. \A i \in 1..Len(pipes') : pipes'[i] \in Pipes \X (0..MaxHops)
      BY <1>1, Basics, LenProperties DEF IndInv, TypeOK
    <2> QED
      BY <1>1, <1>5, <2>1, Basics, TypesFrom
  <1>7. Queued'
    <2>1. Taken = 0 /\ Taken' = 0
      BY <1>1 DEF Taken, Reads
    <2> QED
      BY <1>1, <2>1 DEF Queued, IndInv
  <1>8. Counters' /\ ReadBack'
    BY <1>1, Basics DEF Counters, ReadBack, Reads, IndInv
  <1>9. Names' /\ Stopped'
    BY <1>1, StillNamed
  <1> QED
    BY <1>4, <1>5, <1>6, <1>7, <1>8, <1>9 DEF IndInv

\* Going on from a proxy keeps the invariant.
LEMMA ForwardKeeps == IndInv /\ Forward => IndInv'
  <1> SUFFICES ASSUME IndInv, Forward PROVE IndInv'
    OBVIOUS
  <1> DEFINE first == DecodePointer(buffer, EndpointsCell)
             n == Len(endpoints)
             last == Len(arguments) + 1
             lp == LastParameter(arguments)
  <1>1. /\ place = "received" /\ place' = "sent"
        /\ buffer' = [k \in DOMAIN buffer |->
                         IF k \in (first + 1)..(first + Len(Descriptors))
                         THEN Inchworm(buffer[k]) ELSE buffer[k]]
        /\ UNCHANGED <<arguments, route, next, params, endpoints, pipes, hops, registered,
                       read>>
    BY DEF Forward
  <1>2. /\ arguments \in Calls /\ buffer \in Seq(Cells) /\ endpoints \in Seq(Firsts)
        /\ Len(buffer) \in Nat /\ n \in Nat /\ last \in Nat /\ lp \in Nat /\ hops \in Nat
    BY Basics
  <1>3. /\ params = HeaderLength + 1 /\ lp <= Len(buffer)
        /\ ValuesIn(arguments, buffer, last) /\ ArraysIn(arguments, buffer, last)
        /\ ArraysInLine(arguments, buffer, last)
        /\ HandlesListed(arguments, endpoints, last)
        /\ buffer[IdCell] = Method(MethodOf(arguments))
        /\ DescriptorsIn(arguments, endpoints, buffer, Level)
    BY <1>1, AtWay
  <1>4. Level \in Nat /\ Level + 1 = hops /\ Level' = hops
    BY <1>1, Basics DEF Level, IndInv, Counters
  <1> DEFINE level == Level
  <1>5. level \in Nat /\ level + 1 = hops
    BY <1>4
  <1>6. /\ PointsTo(arguments, buffer, EndpointsCell, n)
        /\ \A j \in 1..n : buffer[first + j] = Generation(PipeAt(endpoints, j), level)
        /\ \A i \in ArraysAt(arguments) : Start(buffer, i) + Size(arguments, i) < first
    BY <1>3 DEF DescriptorsIn
  <1>7. /\ first \in (lp + 1)..Len(buffer) /\ first + n <= Len(buffer)
        /\ buffer[first] = Number(n)
        /\ buffer[EndpointsCell] = EncodePointer(EndpointsCell, first)
    BY <1>6 DEF PointsTo
  <1>8. Len(Descriptors) = n
    BY <1>1, <1>2, <1>3, <1>4, DescriptorsRead DEF Descriptors
  <1> HIDE DEF level
  <1>9. \A j \in 1..n : /\ PipeAt(endpoints, j) \in Pipes
                        /\ Inchworm(buffer[first + j]) = Generation(PipeAt(endpoints, j), hops)
                        /\ Inchworm(buffer[first + j]) \in Cells
    <2> SUFFICES ASSUME NEW j \in 1..n
                 PROVE  /\ PipeAt(endpoints, j) \in Pipes
                        /\ Inchworm(buffer[first + j]) = Generation(PipeAt(endpoints, j), hops)
                        /\ Inchworm(buffer[first + j]) \in Cells
      OBVIOUS
    <2>1. PipeAt(endpoints, j) \in Pipes
      BY <1>2, FirstFacts
    <2>2. /\ Inchworm(Generation(PipeAt(endpoints, j), level))
                = Generation(PipeAt(endpoints, j), level + 1)
          /\ Generation(PipeAt(endpoints, j), hops) \in Cells
      BY <1>2, <1>5, <2>1, NameFacts
    <2> QED
      BY <1>5, <1>6, <2>1, <2>2
  <1>10. DOMAIN buffer = 1..Len(buffer)
    BY <1>2
  <1> HIDE DEF first, n, lp
  <1>11. /\ \A x \in 1..Len(buffer) :
               buffer'[x] = IF x \in (first + 1)..(first + n) THEN Inchworm(buffer[x])
                            ELSE buffer[x]
         /\ buffer' = [x \in 1..Len(buffer) |-> buffer'[x]]
    BY <1>1, <1>8, <1>10
  <1>12. /\ \A x \in 1..Len(buffer) :
               x \notin (first + 1)..(first + n) => buffer'[x] = buffer[x]
         /\ \A j \in 1..n : buffer'[first + j] = Generation(PipeAt(endpoints, j), hops)
    <2>1. \A j \in 1..n : /\ first + j \in 1..Len(buffer)
                          /\ first + j \in (first + 1)..(first + n)
      BY <1>2, <1>7
    <2> QED
      BY <1>9, <1>11, <2>1
  <1>13. \A x \in 1..Len(buffer) : buffer'[x] \in Cells
    <2> SUFFICES ASSUME NEW x \in 1..Len(buffer) PROVE buffer'[x] \in Cells
      OBVIOUS
    <2>1. CASE x \notin (first + 1)..(first + n)
      BY <1>2, <1>12, <2>1, ElementOfSeq
    <2>2. CASE x \in (first + 1)..(first + n)
      <3>1. x - first \in 1..n /\ first + (x - first) = x
        BY <1>2, <1>7, <2>2
      <3>2. Inchworm(buffer[first + (x - first)]) \in Cells
        BY <1>9, <3>1
      <3> QED
        BY <1>11, <2>2, <3>1, <3>2
    <2> QED
      BY <2>1, <2>2
  <1>14. buffer' \in Seq(Cells) /\ Len(buffer') = Len(buffer)
    BY SMTT(30), <1>2, <1>11, <1>13
  <1>15. /\ IdCell \in 1..Len(buffer) /\ EndpointsCell \in 1..Len(buffer)
         /\ IdCell \notin (first + 1)..(first + n)
         /\ EndpointsCell \notin (first + 1)..(first + n)
         /\ first \in 1..Len(buffer) /\ first \notin (first + 1)..(first + n)
         /\ \A i \in 1..Len(arguments) : /\ Parameter(i) \in 1..Len(buffer)
                                         /\ Parameter(i) \notin (first + 1)..(first + n)
         /\ \A x \in (lp + 1)..first : /\ x \in 1..Len(buffer)
                                       /\ x \notin (first + 1)..(first + n)
    BY <1>2, <1>3, <1>7, HeaderFacts DEF IdCell, EndpointsCell, lp, LastParameter, HeaderLength
  <1>16. /\ ValuesIn(arguments, buffer', last) /\ ArraysIn(arguments, buffer', last)
         /\ ArraysInLine(arguments, buffer', last)
         /\ \A i \in ArraysAt(arguments) : i < last => Start(buffer', i) = Start(buffer, i)
    <2>1. \A x \in (LastParameter(arguments) + 1)..first : buffer'[x] = buffer[x]
      BY <1>12, <1>15 DEF lp
    <2>2. \A i \in 1..Len(arguments) : i < last => buffer'[Parameter(i)] = buffer[Parameter(i)]
      BY <1>12, <1>15
    <2>3. first <= Len(buffer') /\ first \in Nat
      BY <1>14, <1>15
    <2>4. ArraysEnd(arguments, buffer, last, first)
      <3> SUFFICES ASSUME NEW i \in ArraysAt(arguments)
                   PROVE  Start(buffer, i) + Size(arguments, i) <= first
        BY DEF ArraysEnd
      <3>1. i \in 1..Len(arguments) /\ i < last
        BY <1>2, CallFacts DEF ArraysAt
      <3>2. PointsTo(arguments, buffer, Parameter(i), Size(arguments, i))
        BY <1>3, <3>1 DEF ArraysIn
      <3>3. Start(buffer, i) \in Int
        BY <1>2, <3>2 DEF PointsTo, Start, lp
      <3>4. Size(arguments, i) \in Nat
        <4>1. arguments[i][2] \in Seq(Words)
          BY <1>2, <3>1, CallFacts, ArgumentFacts DEF ArraysAt
        <4> QED
          BY <4>1, LenProperties DEF Size
      <3> QED
        BY <1>6, <2>3, <3>3, <3>4
    <2>5. /\ ValuesIn(arguments, buffer, last) /\ ArraysIn(arguments, buffer, last)
          /\ ArraysInLine(arguments, buffer, last)
      BY <1>3
    <2> HIDE DEF last
    <2> QED
      BY SMTT(30), <1>2, <1>14, <2>1, <2>2, <2>3, <2>4, <2>5, LayoutKept
  <1>17. DescriptorsIn(arguments, endpoints, buffer', hops)
    <2>1. DecodePointer(buffer', EndpointsCell) = first
      BY <1>12, <1>15 DEF DecodePointer, first
    <2>2. PointsTo(arguments, buffer', EndpointsCell, n)
      <3>1. /\ buffer'[EndpointsCell] = EncodePointer(EndpointsCell, first)
            /\ buffer'[first] = Number(n)
        BY <1>7, <1>12, <1>15
      <3> QED
        BY <1>7, <1>14, <2>1, <3>1 DEF PointsTo, lp
    <2>3. \A i \in ArraysAt(arguments) : Start(buffer', i) + Size(arguments, i) < first
      <3>1. \A i \in ArraysAt(arguments) : i < last
        BY <1>2, CallFacts DEF ArraysAt
      <3> QED
        BY <1>6, <1>16, <3>1
    <2> QED
      BY <1>12, <2>1, <2>2, <2>3 DEF DescriptorsIn, n
  <1>18. AtCaller' /\ Written' /\ Finished'
    <2>1. buffer'[IdCell] = buffer[IdCell]
      BY <1>12, <1>15
    <2>2. LastParameter(arguments) <= Len(buffer')
      BY <1>3, <1>14 DEF lp
    <2> QED
      BY <1>1, <1>3, <1>4, <1>16, <1>17, <2>1, <2>2, StillWritten
  <1>19. Shapes'
    BY <1>1, <1>14, Basics DEF Shapes
  <1>20. TypeOK'
    <2>1. \A i \in 1..Len(pipes') : pipes'[i] \in Pipes \X (0..MaxHops)
      BY <1>1, Basics, LenProperties DEF IndInv, TypeOK
    <2> QED
      BY <1>1, <1>19, <2>1, Basics, TypesFrom
  <1>21. Counters' /\ Queued' /\ ReadBack'
    BY <1>1, Basics DEF Counters, Queued, ReadBack, Reads, IndInv
  <1>22. Names' /\ Stopped'
    BY <1>1, StillNamed
  <1> QED
    BY <1>18, <1>19, <1>20, <1>21, <1>22 DEF IndInv

\* Dispatching keeps the invariant.
LEMMA DispatchKeeps == IndInv /\ Dispatch => IndInv'
  <1> SUFFICES ASSUME IndInv, Dispatch PROVE IndInv'
    OBVIOUS
  <1>1. /\ place = "queued" /\ hops = route /\ place' = "stub" /\ next' = 1
        /\ params' = HeaderLength + 1
        /\ UNCHANGED <<arguments, route, buffer, endpoints, pipes, hops, registered, read>>
    BY DEF Dispatch
  <1>2. Level' = Level
    BY <1>1 DEF Level
  <1>3. AtCaller' /\ Written' /\ Finished'
    BY <1>1, <1>2, SameBuffer
  <1>4. Shapes'
    BY <1>1, Basics DEF Shapes
  <1>5. TypeOK'
    <2>1. \A i \in 1..Len(pipes') : pipes'[i] \in Pipes \X (0..MaxHops)
      BY <1>1, Basics, LenProperties DEF IndInv, TypeOK
    <2>2. next' \in 1..(Len(arguments) + 1)
      BY <1>1, Basics
    <2> QED
      BY <1>1, <1>4, <2>1, <2>2, Basics, TypesFrom
  <1>6. Queued'
    <2>1. Taken = 0 /\ Taken' = 0
      <3>1. Rank(arguments, 1) = 0
        BY Basics, RankFacts
      <3> QED
        BY <1>1, <3>1 DEF Taken, Reads
    <2> QED
      BY <1>1, <2>1 DEF Queued, IndInv
  <1>7. Counters' /\ ReadBack'
    <2>1. read = << >> /\ Len(<< >>) = 0
      BY <1>1 DEF IndInv, ReadBack, Reads
    <2> QED
      BY <1>1, <2>1, Basics DEF Counters, ReadBack, Reads
  <1>8. Names' /\ Stopped'
    BY <1>1, StillNamed
  <1> QED
    BY <1>3, <1>4, <1>5, <1>6, <1>7, <1>8 DEF IndInv

\* What the stub knows of the argument it reads.
LEMMA SignatureFacts ==
  ASSUME IndInv, place = "stub"
  PROVE  /\ Len(Signature) = Len(arguments)
         /\ \A i \in 1..Len(arguments) : Signature[i] = Kind(arguments[i])
         /\ \A i \in 1..Len(arguments) : ParameterCell(i) = Parameter(i)
  <1>1. buffer[IdCell] = Method(MethodOf(arguments)) /\ params = HeaderLength + 1
    BY AtWay
  <1>2. /\ MethodOf(arguments) \in Methods
        /\ Len(MethodOf(arguments)) = Len(arguments)
        /\ \A i \in 1..Len(arguments) : MethodOf(arguments)[i] = Kind(arguments[i])
    BY Basics, CallFacts
  <1>3. Signature = MethodOf(arguments)
    BY <1>1, <1>2, CellFacts DEF Signature
  <1> QED
    BY <1>1, <1>2, <1>3 DEF ParameterCell, Parameter

\* Reading an argument keeps the invariant if it is read as it arrived, and a handle
\* is taken from the queue.
LEMMA ReadMore ==
  ASSUME IndInv, ReadArgument, next \in 1..Len(arguments),
         read' = Append(read, Arrived(arguments[next])),
         Kind(arguments[next]) = "handle" => pipes # << >> /\ pipes' = Tail(pipes),
         Kind(arguments[next]) # "handle" => pipes' = pipes
  PROVE  IndInv'
  <1> DEFINE x == Arrived(arguments[next])
             n == Len(endpoints)
             t == Taken
  <1>1. /\ place = "stub" /\ place' = "stub" /\ next' = next + 1
        /\ UNCHANGED <<arguments, route, buffer, params, endpoints, hops, registered>>
    BY DEF ReadArgument
  <1>2. /\ arguments \in Calls /\ arguments[next] \in Arguments /\ hops \in 0..MaxHops
        /\ hops \in Nat /\ read \in Seq(Readings) /\ pipes \in Seq(Named)
        /\ Len(pipes) \in Nat /\ n \in Nat /\ Len(arguments) \in Nat
    BY Basics, CallFacts
  <1>3. \/ x \in {"value"} \X Words \/ x \in {"array"} \X Arrays
        \/ x \in {"handle"} \X (Pipes \X (0..MaxHops))
    BY <1>2, ArgumentFacts DEF Arrived, Name
  <1>4. x \in Readings
    BY <1>2, <1>3 DEF Readings, Named
  <1>5. Len(read) = next - 1 /\ \A i \in 1..Len(read) : read[i] = Arrived(arguments[i])
    BY <1>1 DEF IndInv, ReadBack, Reads
  <1>6. t = Rank(arguments, next) /\ Taken' = Rank(arguments, next + 1) /\ t \in Nat
    BY <1>1, <1>2, RankFacts DEF Taken, Reads
  <1>7. /\ Len(pipes) + t = n
        /\ \A j \in 1..Len(pipes) : pipes[j] = Name(PipeAt(endpoints, t + j), hops)
        /\ \A j \in 1..n : Name(PipeAt(endpoints, j), hops) \in registered
        /\ \A j \in 1..Len(pipes) : pipes[j] \in Pipes \X (0..MaxHops)
    BY <1>1, <1>2, LenProperties DEF IndInv, Queued, TypeOK
  <1> HIDE DEF x, n, t
  <1>8. AtCaller' /\ Written' /\ Finished'
    <2>1. Level' = Level
      BY <1>1 DEF Level
    <2>2. params = HeaderLength + 1
      BY <1>1, AtWay
    <2> QED
      BY <1>1, <2>1, <2>2, SameBuffer
  <1>9. /\ pipes' \in Seq(Named) /\ Len(pipes') \in Nat
        /\ Len(pipes') + Taken' = n
        /\ \A j \in 1..Len(pipes') : pipes'[j] = Name(PipeAt(endpoints, Taken' + j), hops)
        /\ \A j \in 1..Len(pipes') : pipes'[j] \in Pipes \X (0..MaxHops)
    <2>1. CASE Kind(arguments[next]) # "handle"
      <3>1. pipes' = pipes /\ Taken' = t
        BY <1>2, <1>6, <2>1, RankFacts
      <3> QED
        BY <1>2, <1>7, <3>1
    <2>2. CASE Kind(arguments[next]) = "handle"
      <3>1. pipes # << >> /\ pipes' = Tail(pipes) /\ Taken' = t + 1
        BY <1>2, <1>6, <2>2, RankFacts
      <3>2. /\ pipes' \in Seq(Named) /\ Len(pipes') = Len(pipes) - 1
            /\ \A j \in 1..Len(pipes') : pipes'[j] = pipes[j + 1]
        BY <1>2, <3>1, HeadTailProperties
      <3>3. Len(pipes) > 0 /\ Len(pipes') \in Nat
        <4>1. Len(pipes) # 0
          BY <1>2, <3>1, EmptySeq
        <4> QED
          BY <1>2, <3>2, <4>1
      <3>4. \A j \in 1..Len(pipes') : j + 1 \in 1..Len(pipes) /\ t + (j + 1) = (t + 1) + j
        BY <1>2, <1>6, <3>2, <3>3
      <3>5. Len(pipes') + (t + 1) = n
        BY <1>2, <1>6, <1>7, <3>2
      <3> QED
        BY <1>7, <3>1, <3>2, <3>3, <3>4, <3>5
    <2> QED
      BY <2>1, <2>2
  <1>10. /\ read' \in Seq(Readings) /\ Len(read') = next
         /\ \A i \in 1..Len(read') : read'[i] = Arrived(arguments[i])
    <2>1. read' = Append(read, x)
      BY DEF x
    <2>2. /\ read' \in Seq(Readings) /\ Len(read') = Len(read) + 1
          /\ \A i \in 1..Len(read) : read'[i] = read[i]
          /\ read'[Len(read) + 1] = x
      BY <1>2, <1>4, <2>1, AppendProperties
    <2>3. Len(read) \in Nat /\ Len(read) + 1 = next
      BY <1>2, <1>5, LenProperties
    <2>4. \A i \in 1..Len(read') : i \in 1..Len(read) \/ i = next
      BY <2>2, <2>3
    <2> QED
      BY <1>5, <2>2, <2>3, <2>4 DEF x
  <1>11. Shapes'
    BY <1>1, <1>9, <1>10, Basics DEF Shapes
  <1>12. TypeOK'
    <2>1. Len(read) < Len(arguments)
      BY <1>2, <1>5
    <2>2. next' \in 1..(Len(arguments) + 1)
      BY <1>1, <1>2
    <2>3. /\ read' = Append(read, x) /\ Len(read) < Len(arguments)
          /\ \/ x \in {"value"} \X Words \/ x \in {"array"} \X Arrays
             \/ x \in {"handle"} \X (Pipes \X (0..MaxHops))
      BY <1>3, <2>1 DEF x
    <2> HIDE DEF x
    <2> QED
      BY <1>1, <1>9, <1>11, <2>2, <2>3, Basics, TypesFrom
  <1>13. Queued'
    BY <1>1, <1>7, <1>9 DEF Queued, n
  <1>14. Counters' /\ ReadBack'
    <2>1. \A i \in 1..Len(read') : read'[i] = Arrived(arguments[i])'
      BY <1>1, <1>10 DEF Arrived
    <2>2. Len(read') = next' - 1 /\ next' <= Len(arguments) + 1
      BY <1>1, <1>2, <1>10
    <2> QED
      BY <1>1, <1>2, <2>1, <2>2, Basics DEF Counters, ReadBack, Reads
  <1>15. Names' /\ Stopped'
    BY <1>1, StillNamed
  <1> QED
    BY <1>8, <1>11, <1>12, <1>13, <1>14, <1>15 DEF IndInv

\* The stub reads a value as it was written.
LEMMA ReadValueKeeps ==
  ASSUME IndInv, ReadArgument, next \in 1..Len(arguments),
         Kind(arguments[next]) = "value", ReadValue
  PROVE  IndInv'
  <1>1. place = "stub" /\ arguments[next] \in Arguments
    BY Basics, CallFacts DEF ReadArgument
  <1>2. arguments[next][2] \in Words /\ arguments[next] = <<"value", arguments[next][2]>>
    BY <1>1, ArgumentFacts
  <1>3. buffer[Parameter(next)] = Word(arguments[next][2])
    <2>1. ValuesIn(arguments, buffer, Len(arguments) + 1)
      BY <1>1, AtWay
    <2>2. next \in DOMAIN arguments /\ next < Len(arguments) + 1
      BY Basics
    <2> QED
      BY <2>1, <2>2 DEF ValuesIn
  <1>4. buffer[ParameterCell(next)][2] = arguments[next][2]
    BY <1>1, <1>2, <1>3, CellFacts, SignatureFacts
  <1>5. read' = Append(read, Arrived(arguments[next])) /\ pipes' = pipes
    BY <1>2, <1>4 DEF ReadValue, Arrived
  <1> QED
    BY <1>5, ReadMore

\* The stub reads an array as it was written.
LEMMA ReadArrayKeeps ==
  ASSUME IndInv, ReadArgument, next \in 1..Len(arguments),
         Kind(arguments[next]) = "array", ReadArray
  PROVE  IndInv'
  <1> DEFINE array == arguments[next][2]
             n == Size(arguments, next)
             start == Start(buffer, next)
             cells == SubSeq(buffer, start + 1, start + n)
             lp == LastParameter(arguments)
  <1>1. place = "stub" /\ arguments[next] \in Arguments /\ buffer \in Seq(Cells)
        /\ Len(buffer) \in Nat /\ lp \in Nat
    BY Basics, CallFacts DEF ReadArgument
  <1>2. /\ array \in Seq(Words) /\ arguments[next] = <<"array", array>>
        /\ n \in Nat /\ n = Len(array)
    BY <1>1, ArgumentFacts, LenProperties DEF Size
  <1>3. /\ PointsTo(arguments, buffer, Parameter(next), n)
        /\ \A j \in 1..n : buffer[start + j] = Word(array[j])
    <2>1. ArraysIn(arguments, buffer, Len(arguments) + 1)
      BY <1>1, AtWay
    <2>2. next \in ArraysAt(arguments) /\ next < Len(arguments) + 1
      BY Basics DEF ArraysAt
    <2> QED
      BY <2>1, <2>2 DEF ArraysIn
  <1>4. /\ start \in (lp + 1)..Len(buffer) /\ start + n <= Len(buffer)
        /\ buffer[start] = Number(n)
    BY <1>3 DEF PointsTo, Start
  <1>5. buffer[start][2] = n
    BY <1>2, <1>4, CellFacts
  <1>6. ArrayAt(buffer, DecodePointer(buffer, ParameterCell(next))) = cells
    <2>1. DecodePointer(buffer, ParameterCell(next)) = start
      BY <1>1, SignatureFacts DEF Start
    <2> QED
      BY <1>5, <2>1 DEF ArrayAt
  <1> HIDE DEF start, n, array, lp
  <1>7. \A x \in (start + 1)..(start + n) : buffer[x] \in Cells
    BY <1>1, <1>2, <1>4, ElementOfSeq
  <1>8. Len(cells) = n /\ cells \in Seq(Cells) /\ \A j \in 1..n : cells[j] = buffer[start + j]
    <2>1. start \in Int /\ start + 1 \in Int /\ start + n \in Int
      BY <1>1, <1>2, <1>4
    <2>2. /\ cells \in Seq(Cells)
          /\ Len(cells) = IF start + 1 <= start + n THEN (start + n) - (start + 1) + 1 ELSE 0
          /\ \A j \in 1..((start + n) - (start + 1) + 1) :
                cells[j] = buffer[(start + 1) + j - 1]
      BY <1>7, <2>1, SubSeqProperties
    <2> HIDE DEF cells
    <2> QED
      BY <1>2, <2>1, <2>2
  <1> HIDE DEF cells
  <1>9. [i \in DOMAIN cells |-> cells[i][2]] = array
    <2>1. DOMAIN cells = 1..n /\ DOMAIN array = 1..n
      BY <1>2, <1>8, LenProperties
    <2>2. \A i \in 1..n : cells[i][2] = array[i]
      <3>1. \A i \in 1..n : array[i] \in Words
        BY <1>2
      <3> QED
        BY <1>3, <1>8, <3>1, CellFacts
    <2> QED
      BY <1>2, <2>1, <2>2
  <1>10. read' = Append(read, Arrived(arguments[next])) /\ pipes' = pipes
    <2>1. /\ read' = Append(read, <<"array", [i \in DOMAIN cells |-> cells[i][2]]>>)
          /\ pipes' = pipes
      BY <1>6 DEF ReadArray
    <2> QED
      BY <1>2, <1>9, <2>1 DEF Arrived
  <1> QED
    BY <1>10, ReadMore

\* The stub takes the handle that was written at its place.
LEMMA TakeNextPipeKeeps ==
  ASSUME IndInv, ReadArgument, next \in 1..Len(arguments),
         Kind(arguments[next]) = "handle", TakeNextPipe
  PROVE  IndInv'
  <1> DEFINE p == arguments[next][2]
             r == Rank(arguments, next)
  <1>1. place = "stub" /\ arguments[next] \in Arguments /\ arguments \in Calls
        /\ pipes \in Seq(Named)
    BY Basics, CallFacts DEF ReadArgument
  <1>2. p \in Pipes
    BY <1>1, ArgumentFacts
  <1>3. /\ pipes # << >> /\ pipes' = Tail(pipes)
        /\ read' = Append(read, <<"handle", Head(pipes)>>)
    BY DEF TakeNextPipe
  <1>4. endpoints[r + 1] = Generation(p, 0)
    <2>1. HandlesListed(arguments, endpoints, Len(arguments) + 1)
      BY <1>1, AtWay
    <2>2. next \in HandlesAt(arguments) /\ next < Len(arguments) + 1
      BY Basics DEF HandlesAt
    <2> QED
      BY <2>1, <2>2 DEF HandlesListed
  <1>5. PipeAt(endpoints, r + 1) = p
    <2>1. 0 \in Nat
      OBVIOUS
    <2>2. Generation(p, 0)[2].name = Name(p, 0) /\ Name(p, 0)[1] = p
      BY <1>2, <2>1, NameFacts
    <2> QED
      BY <1>4, <2>2 DEF PipeAt
  <1>6. Head(pipes) = Name(p, hops)
    <2>1. Taken = r
      BY <1>1 DEF Taken, Reads
    <2>2. \A j \in 1..Len(pipes) : pipes[j] = Name(PipeAt(endpoints, r + j), hops)
      BY <1>1, <2>1 DEF IndInv, Queued
    <2>3. Head(pipes) = pipes[1] /\ 1 \in 1..Len(pipes)
      BY <1>1, <1>3, EmptySeq, LenProperties
    <2> QED
      BY <1>5, <2>2, <2>3
  <1>7. read' = Append(read, Arrived(arguments[next]))
    BY <1>3, <1>6 DEF Arrived
  <1> QED
    BY <1>3, <1>7, ReadMore

\* Reading an argument keeps the invariant.
LEMMA ReadArgumentKeeps == IndInv /\ ReadArgument => IndInv'
  <1> SUFFICES ASSUME IndInv, ReadArgument PROVE IndInv'
    OBVIOUS
  <1>1. /\ place = "stub" /\ next <= Len(Signature)
        /\ \/ Signature[next] = "value" /\ ReadValue
           \/ Signature[next] = "array" /\ ReadArray
           \/ Signature[next] = "handle" /\ TakeNextPipe
    BY DEF ReadArgument
  <1>2. next \in 1..Len(arguments)
    BY <1>1, Basics, SignatureFacts
  <1>3. Signature[next] = Kind(arguments[next])
    BY <1>1, <1>2, SignatureFacts
  <1> QED
    BY <1>1, <1>2, <1>3, ReadValueKeeps, ReadArrayKeeps, TakeNextPipeKeeps

\* Invoking the method keeps the invariant.
LEMMA InvokeKeeps == IndInv /\ Invoke => IndInv'
  <1> SUFFICES ASSUME IndInv, Invoke PROVE IndInv'
    OBVIOUS
  <1>1. /\ place = "stub" /\ next = Len(Signature) + 1 /\ place' = "invoked"
        /\ UNCHANGED <<arguments, route, next, buffer, params, endpoints, pipes, hops,
                       registered, read>>
    BY DEF Invoke
  <1>2. Level' = Level /\ Taken' = Taken
    BY <1>1 DEF Level, Taken, Reads
  <1>3. params = HeaderLength + 1 /\ next = Len(arguments) + 1
    BY <1>1, AtWay, SignatureFacts
  <1>4. AtCaller' /\ Written' /\ Finished'
    BY <1>1, <1>2, <1>3, SameBuffer
  <1>5. Shapes'
    BY <1>1, Basics DEF Shapes
  <1>6. TypeOK'
    <2>1. \A i \in 1..Len(pipes') : pipes'[i] \in Pipes \X (0..MaxHops)
      BY <1>1, Basics, LenProperties DEF IndInv, TypeOK
    <2> QED
      BY <1>1, <1>5, <2>1, Basics, TypesFrom
  <1>7. Queued'
    BY <1>1, <1>2 DEF Queued, IndInv
  <1>8. Counters' /\ ReadBack'
    <2>1. \A i \in 1..Len(read) : Arrived(arguments[i])' = Arrived(arguments[i])
      BY <1>1 DEF Arrived
    <2> QED
      BY <1>1, <1>3, <2>1, Basics DEF Counters, ReadBack, Reads, IndInv
  <1>9. Names' /\ Stopped'
    BY <1>1, StillNamed
  <1> QED
    BY <1>4, <1>5, <1>6, <1>7, <1>8, <1>9 DEF IndInv

\* A stutter keeps the invariant.
LEMMA StutterKeeps == IndInv /\ UNCHANGED vars => IndInv'
  <1> SUFFICES ASSUME IndInv, UNCHANGED vars PROVE IndInv'
    OBVIOUS
  <1>1. /\ place' = place /\ arguments' = arguments /\ route' = route /\ next' = next
        /\ buffer' = buffer /\ params' = params /\ endpoints' = endpoints
        /\ pipes' = pipes /\ hops' = hops /\ registered' = registered /\ read' = read
    BY DEF vars
  <1>2. TypeOK' /\ Shapes' /\ Counters'
    BY <1>1 DEF IndInv, TypeOK, Shapes, Counters
  <1>5. Names' /\ Stopped'
    BY <1>1 DEF IndInv, Names, Stopped, Reforwarded
  <1>3. AtCaller' /\ Written' /\ Finished'
    BY <1>1 DEF IndInv, AtCaller, Written, Finished, ToWrite, Level
  <1>4. Queued' /\ ReadBack'
    BY <1>1 DEF IndInv, Queued, ReadBack, Taken, Reads, Arrived
  <1> QED
    BY <1>2, <1>3, <1>4, <1>5 DEF IndInv
-----------------------------------------------------------------------------
(* The theorems.                                                            *)

\* What the runs check follows from the invariant.
LEMMA InvariantGivesArguments == IndInv => ArgumentsArrive
  <1> SUFFICES ASSUME IndInv, place = "invoked" PROVE
        /\ read = [i \in DOMAIN arguments |-> Arrived(arguments[i])]
        /\ \A i \in HandlesAt(read) : read[i][2] \in registered
        /\ pipes = << >>
    BY DEF ArgumentsArrive
  <1> DEFINE n == Len(arguments)
  <1>1. /\ arguments \in Calls /\ n \in Nat /\ DOMAIN arguments = 1..n
        /\ read \in Seq(Readings) /\ pipes \in Seq(Named)
    BY Basics
  <1>2. Len(read) = n /\ \A i \in 1..n : read[i] = Arrived(arguments[i])
    <2>1. Len(read) = next - 1 /\ next = n + 1
          /\ \A i \in 1..Len(read) : read[i] = Arrived(arguments[i])
      BY DEF IndInv, ReadBack, Reads
    <2> QED
      BY <1>1, <2>1
  <1>3. read = [i \in DOMAIN arguments |-> Arrived(arguments[i])]
    <2>1. DOMAIN read = 1..n /\ read = [i \in DOMAIN read |-> read[i]]
      BY <1>1, <1>2, LenProperties
    <2> QED
      BY <1>1, <1>2, <2>1
  <1>4. HandlesListed(arguments, endpoints, n + 1)
    BY AtWay
  <1>5. /\ Len(pipes) + Rank(arguments, n + 1) = Len(endpoints)
        /\ \A j \in 1..Len(endpoints) : Name(PipeAt(endpoints, j), hops) \in registered
    <2>1. Taken = Rank(arguments, n + 1)
      BY DEF Taken, Reads, IndInv, ReadBack
    <2> QED
      BY <2>1 DEF IndInv, Queued
  <1>6. pipes = << >>
    <2>1. Len(pipes) \in Nat /\ Rank(arguments, n + 1) \in Nat
      BY <1>1, LenProperties, RankFacts
    <2>2. Len(endpoints) = Rank(arguments, n + 1)
      BY <1>4 DEF HandlesListed
    <2>3. Len(pipes) = 0
      BY <1>5, <2>1, <2>2
    <2> QED
      BY <1>1, <2>3, EmptySeq
  <1>7. ASSUME NEW i \in HandlesAt(read) PROVE read[i][2] \in registered
    <2> DEFINE p == arguments[i][2]
               j == Rank(arguments, i) + 1
    <2>1. i \in 1..n /\ Kind(read[i]) = "handle"
      BY <1>1, <1>2, LenProperties DEF HandlesAt
    <2>2. read[i] = Arrived(arguments[i])
      BY <1>2, <2>1
    <2>3. Kind(arguments[i]) = "handle" /\ read[i] = <<"handle", Name(p, hops)>>
      BY <2>1, <2>2 DEF Arrived, Kind
    <2>4. p \in Pipes
      BY <1>1, <2>1, <2>3, CallFacts, ArgumentFacts
    <2>5. i \in HandlesAt(arguments) /\ i < n + 1
      BY <1>1, <2>1, <2>3 DEF HandlesAt
    <2>6. endpoints[j] = Generation(p, 0)
      BY <1>4, <2>5 DEF HandlesListed
    <2>7. PipeAt(endpoints, j) = p
      <3>1. 0 \in Nat
        OBVIOUS
      <3>2. Generation(p, 0)[2].name = Name(p, 0) /\ Name(p, 0)[1] = p
        BY <2>4, <3>1, NameFacts
      <3> QED
        BY <2>6, <3>2 DEF PipeAt
    <2>8. j \in 1..Len(endpoints)
      <3>1. /\ Rank(arguments, i) \in Nat /\ Rank(arguments, i + 1) = Rank(arguments, i) + 1
            /\ Rank(arguments, i + 1) <= Rank(arguments, n + 1)
            /\ Rank(arguments, n + 1) \in Nat
        <4>1. i \in Nat /\ i + 1 \in Nat /\ n + 1 \in Nat /\ i + 1 <= n + 1
          BY <1>1, <2>1
        <4>2. Rank(arguments, i + 1) = Rank(arguments, i) + 1
          BY <1>1, <2>1, <2>3, RankFacts
        <4> HIDE DEF n
        <4> QED
          BY <1>1, <4>1, <4>2, RankFacts
      <3>2. Len(endpoints) = Rank(arguments, n + 1)
        BY <1>4 DEF HandlesListed
      <3> QED
        BY <3>1, <3>2
    <2> HIDE DEF p, j
    <2> QED
      BY <1>5, <2>3, <2>7, <2>8
  <1> QED
    BY <1>3, <1>6, <1>7

\* A pointer of the invariant leads to the cells of its array.
LEMMA ExtentFacts ==
  ASSUME IndInv, NEW at \in Int, NEW n \in Nat, at <= LastParameter(arguments),
         PointsTo(arguments, buffer, at, n)
  PROVE  /\ buffer[at] # Zero
         /\ DecodePointer(buffer, at) \in (LastParameter(arguments) + 1)..Len(buffer)
         /\ Extent(at) = DecodePointer(buffer, at)..(DecodePointer(buffer, at) + n)
         /\ Extent(at) \subseteq 1..Len(buffer)
  <1> DEFINE start == DecodePointer(buffer, at)
             lp == LastParameter(arguments)
  <1>1. /\ buffer[at] = Number(start - at) /\ start \in (lp + 1)..Len(buffer)
        /\ buffer[start] = Number(n) /\ start + n <= Len(buffer)
    BY DEF PointsTo, EncodePointer
  <1>2. lp \in Nat /\ Len(buffer) \in Nat
    BY Basics
  <1>3. buffer[start][2] = n
    BY <1>1, CellFacts
  <1>4. Extent(at) = start..(start + n)
    BY <1>3 DEF Extent
  <1>5. buffer[at] # Zero
    <2>1. start - at \in Int /\ start - at # 0
      BY <1>1, <1>2
    <2> QED
      BY <1>1, <2>1, CellFacts
  <1> HIDE DEF start
  <1>6. start..(start + n) \subseteq 1..Len(buffer)
    BY <1>1, <1>2
  <1> QED
    BY <1>1, <1>4, <1>5, <1>6 DEF start

\* The pointers in the buffer are sound.
LEMMA InvariantGivesPointers == IndInv => PointersSound
  <1> SUFFICES ASSUME IndInv, OnTheWay PROVE
        /\ \A at \in Pointers :
              /\ buffer[at] # Zero
              /\ DecodePointer(buffer, at) \in (params + Len(arguments) + 1)..Len(buffer)
              /\ Extent(at) \subseteq DOMAIN buffer
        /\ \A a, b \in Pointers : a # b => Extent(a) \cap Extent(b) = {}
    BY DEF PointersSound
  <1> DEFINE last == Len(arguments) + 1
             lp == LastParameter(arguments)
             first == DecodePointer(buffer, EndpointsCell)
             n == Len(endpoints)
  <1>1. place \notin {"caller", "proxy"}
    BY DEF OnTheWay
  <1>2. /\ params = HeaderLength + 1
        /\ ArraysIn(arguments, buffer, last) /\ ArraysInLine(arguments, buffer, last)
        /\ DescriptorsIn(arguments, endpoints, buffer, Level)
    BY <1>1, AtWay
  <1>3. /\ arguments \in Calls /\ DOMAIN arguments = 1..Len(arguments) /\ lp \in Nat
        /\ Len(arguments) \in Nat /\ n \in Nat /\ DOMAIN buffer = 1..Len(buffer)
        /\ Len(buffer) \in Nat
    BY Basics, LenProperties
  <1>4. params + Len(arguments) = lp
    BY <1>2, <1>3 DEF LastParameter, HeaderLength
  <1>5. ASSUME NEW i \in ArraysAt(arguments)
        PROVE  /\ i \in 1..Len(arguments) /\ Size(arguments, i) \in Nat
               /\ Parameter(i) \in Int /\ Parameter(i) <= lp
               /\ PointsTo(arguments, buffer, Parameter(i), Size(arguments, i))
               /\ Start(buffer, i) \in Int
               /\ Extent(Parameter(i))
                     = Start(buffer, i)..(Start(buffer, i) + Size(arguments, i))
               /\ Start(buffer, i) + Size(arguments, i) < first
    <2>1. i \in 1..Len(arguments) /\ Kind(arguments[i]) = "array"
      BY <1>3 DEF ArraysAt
    <2>2. Size(arguments, i) \in Nat
      <3>1. arguments[i][2] \in Seq(Words)
        BY <1>3, <2>1, CallFacts, ArgumentFacts
      <3> QED
        BY <3>1, LenProperties DEF Size
    <2>3. Parameter(i) \in Int /\ Parameter(i) <= lp
      BY <1>3, <2>1 DEF Parameter, LastParameter, HeaderLength
    <2>4. PointsTo(arguments, buffer, Parameter(i), Size(arguments, i))
      BY <1>2, <1>3, <2>1 DEF ArraysIn
    <2>5. Start(buffer, i) \in (lp + 1)..Len(buffer)
      BY <2>4 DEF PointsTo, Start
    <2>6. Extent(Parameter(i)) = Start(buffer, i)..(Start(buffer, i) + Size(arguments, i))
      BY <2>2, <2>3, <2>4, ExtentFacts DEF Start
    <2>7. Start(buffer, i) + Size(arguments, i) < first
      BY <1>2 DEF DescriptorsIn
    <2> HIDE DEF lp
    <2> QED
      BY <1>3, <2>1, <2>2, <2>3, <2>4, <2>5, <2>6, <2>7
  <1>6. /\ EndpointsCell \in Int /\ EndpointsCell <= lp
        /\ PointsTo(arguments, buffer, EndpointsCell, n)
        /\ first \in Int /\ Extent(EndpointsCell) = first..(first + n)
    <2>1. EndpointsCell \in Int /\ EndpointsCell <= lp
      BY <1>3 DEF EndpointsCell, LastParameter, HeaderLength
    <2>2. PointsTo(arguments, buffer, EndpointsCell, n)
      BY <1>2 DEF DescriptorsIn
    <2>3. first \in (lp + 1)..Len(buffer)
      BY <2>2 DEF PointsTo
    <2>4. Extent(EndpointsCell) = first..(first + n)
      BY <1>3, <2>1, <2>2, ExtentFacts
    <2> HIDE DEF lp
    <2> QED
      BY <1>3, <2>1, <2>2, <2>3, <2>4
  <1>7. \A at \in Pointers :
           at = EndpointsCell \/ \E i \in ArraysAt(arguments) : at = Parameter(i)
    BY <1>2 DEF Pointers, ArraysAt, ParameterCell, Parameter
  <1>8. ASSUME NEW at \in Pointers
        PROVE  /\ buffer[at] # Zero /\ DecodePointer(buffer, at) \in (lp + 1)..Len(buffer)
               /\ Extent(at) \subseteq 1..Len(buffer)
    <2>1. CASE at = EndpointsCell
      BY <1>3, <1>6, <2>1, ExtentFacts
    <2>2. ASSUME NEW i \in ArraysAt(arguments), at = Parameter(i)
          PROVE  /\ buffer[at] # Zero /\ DecodePointer(buffer, at) \in (lp + 1)..Len(buffer)
                 /\ Extent(at) \subseteq 1..Len(buffer)
      BY <1>5, <2>2, ExtentFacts
    <2> QED
      BY <1>7, <2>1, <2>2
  <1> HIDE DEF first, n, lp
  <1>9. ASSUME NEW i \in ArraysAt(arguments), NEW j \in ArraysAt(arguments), i < j
        PROVE  Extent(Parameter(i)) \cap Extent(Parameter(j)) = {}
    <2>1. Start(buffer, i) + Size(arguments, i) < Start(buffer, j)
      BY <1>2, <1>3, <1>5, <1>9 DEF ArraysInLine
    <2> QED
      BY <1>5, <2>1
  <1>10. ASSUME NEW i \in ArraysAt(arguments)
         PROVE  Extent(Parameter(i)) \cap Extent(EndpointsCell) = {}
    BY <1>3, <1>5, <1>6
  <1>11. ASSUME NEW a \in Pointers, NEW b \in Pointers, a # b
         PROVE  Extent(a) \cap Extent(b) = {}
    <2>1. CASE a = EndpointsCell
      <3>1. PICK i \in ArraysAt(arguments) : b = Parameter(i)
        BY <1>7, <1>11, <2>1
      <3> QED
        BY <1>10, <2>1, <3>1
    <2>2. CASE b = EndpointsCell
      <3>1. PICK i \in ArraysAt(arguments) : a = Parameter(i)
        BY <1>7, <1>11, <2>2
      <3> QED
        BY <1>10, <2>2, <3>1
    <2>3. CASE a # EndpointsCell /\ b # EndpointsCell
      <3>1. PICK i \in ArraysAt(arguments) : a = Parameter(i)
        BY <1>7, <2>3
      <3>2. PICK j \in ArraysAt(arguments) : b = Parameter(j)
        BY <1>7, <2>3
      <3>3. i # j /\ i \in Int /\ j \in Int
        BY <1>5, <1>11, <3>1, <3>2
      <3>4. CASE i < j
        BY <1>9, <3>1, <3>2, <3>4
      <3>5. CASE j < i
        BY <1>9, <3>1, <3>2, <3>5
      <3> QED
        BY <3>3, <3>4, <3>5
    <2> QED
      BY <2>1, <2>2, <2>3
  <1> QED
    BY <1>3, <1>4, <1>8, <1>11

\* The invariant holds in every state the program can be in.
THEOREM InductiveInvariant == Spec => []IndInv
  <1>1. Init => IndInv
    BY InitKeeps
  <1>2. IndInv /\ [Next]_vars => IndInv'
    <2> SUFFICES ASSUME IndInv, [Next]_vars PROVE IndInv'
      OBVIOUS
    <2>1. CASE Proxy
      BY <2>1, AllocateKeeps, WriteArgumentKeeps, WriteEndpointsKeeps, FinalizeSizeKeeps
      DEF Proxy
    <2>2. CASE Way
      BY <2>2, DeliverLocallyKeeps, FlushFailsKeeps, TransmitKeeps, DeliverKeeps,
      ForwardKeeps DEF Way
    <2>3. CASE Stub
      BY <2>3, DispatchKeeps, ReadArgumentKeeps, InvokeKeeps DEF Stub
    <2>4. CASE UNCHANGED vars
      BY <2>4, StutterKeeps
    <2> QED
      BY <2>1, <2>2, <2>3, <2>4 DEF Next
  <1> QED
    BY <1>1, <1>2, PTL DEF Spec

\* Every variable stays within its type, cells and names included.
THEOREM TypeCorrect == Spec => []TypeOK
  <1>1. IndInv => TypeOK
    BY DEF IndInv
  <1> QED
    BY <1>1, InductiveInvariant, PTL

\* A method of any arguments is invoked with what its proxy was called with, however
\* many processes the message went through.
THEOREM ArgumentsAlwaysArrive == Spec => []ArgumentsArrive
  BY InductiveInvariant, InvariantGivesArguments, PTL

\* The CHECK of node.cc:502 stops a call for one cause only: it carries a handle, and
\* was queued in another process and moved on.
THEOREM StopsOnlyReforwarded == Spec => [](place = "aborted" => Reforwarded)
  <1>1. IndInv => (place = "aborted" => Reforwarded)
    BY DEF IndInv, Stopped
  <1> QED
    BY <1>1, InductiveInvariant, PTL

\* A pointer of a message on its way leads behind the parameters, to an array that is
\* all in the buffer and shares no cell with another, so that decoding it unchecked
\* (message.h:52) is safe.
THEOREM PointersAlwaysSound == Spec => []PointersSound
  BY InductiveInvariant, InvariantGivesPointers, PTL
=============================================================================
