----------------------------- MODULE DataProofs -----------------------------
(***************************************************************************)
(* That bytes keep their order and their values on their way: through the  *)
(* streams of two programs and the TLS between them (Streams), and through *)
(* Data, its deque and the reader of files (Data, AsyncFile).              *)
(***************************************************************************)
EXTENDS AsyncFile, Streams, DequeTheorems, FiniteSetTheorems

-----------------------------------------------------------------------------
(* Streams.  On the wire from one engine to the other is at most a flight  *)
(* of the handshake, and then whole records: chunks of bytes in boxes, a   *)
(* header before each.                                                     *)
Positive == Nat \ {0}
Chunks == {c \in Seq(Positive) : Len(c) \in 1 .. Record}

Box(c) == <<-Len(c)>> \o c
Boxes(chunks) == [i \in 1 .. Len(chunks) |-> Box(chunks[i])]
Packed(chunks) == FlattenSeq(Boxes(chunks))

(* The provers look into \o element by element; behind a name of its own   *)
(* it is what can be regrouped.                                            *)
Join(x, y) == x \o y

LEMMA Regroup == \A s1, s2, s3 \in Seq(Int) : (s1 \o s2) \o s3 = s1 \o (s2 \o s3)
  BY ONLY ConcatAssociative

LEMMA Joined == \A s1, s2 \in Seq(Int) : s1 \o s2 \in Seq(Int)
  BY ONLY ConcatProperties

LEMMA UnitsAssociative ==
    \A x, y, z \in Seq(Int) : (x \o y) \o z = x \o (y \o z) /\ x \o y \in Seq(Int)
  BY Regroup, Joined

LEMMA UnitsJoin ==
    /\ \A x, y : x \in Seq(Int) /\ y \in Seq(Int) => Join(x, y) \in Seq(Int)
    /\ \A x, y, z : x \in Seq(Int) /\ y \in Seq(Int) /\ z \in Seq(Int) =>
           Join(Join(x, y), z) = Join(x, Join(y, z))
<1>1. \A x, y \in Seq(Int) : Join(x, y) \in Seq(Int)
  BY Joined DEF Join
<1>2. \A x, y, z \in Seq(Int) : Join(Join(x, y), z) = Join(x, Join(y, z))
  BY Regroup DEF Join
<1> QED
  BY <1>1, <1>2

LEMMA BytesRegroup == \A s1, s2, s3 \in Seq(Positive) : (s1 \o s2) \o s3 = s1 \o (s2 \o s3)
  BY ONLY ConcatAssociative

LEMMA BytesJoined == \A s1, s2 \in Seq(Positive) : s1 \o s2 \in Seq(Positive)
  BY ONLY ConcatProperties

LEMMA BytesJoin ==
    /\ \A x, y : x \in Seq(Positive) /\ y \in Seq(Positive) => Join(x, y) \in Seq(Positive)
    /\ \A x, y, z : x \in Seq(Positive) /\ y \in Seq(Positive) /\ z \in Seq(Positive) =>
           Join(Join(x, y), z) = Join(x, Join(y, z))
    /\ \A x : x \in Seq(Positive) => Join(x, <<>>) = x /\ Join(<<>>, x) = x
<1>1. \A x, y \in Seq(Positive) : Join(x, y) \in Seq(Positive)
  BY BytesJoined DEF Join
<1>2. \A x, y, z \in Seq(Positive) : Join(Join(x, y), z) = Join(x, Join(y, z))
  BY BytesRegroup DEF Join
<1>3. \A x \in Seq(Positive) : x \o <<>> = x /\ <<>> \o x = x
  BY ConcatEmptySeq
<1>4. \A x : x \in Seq(Positive) => Join(x, <<>>) = x /\ Join(<<>>, x) = x
  BY <1>3 DEF Join
<1>5. \A x, y : x \in Seq(Positive) /\ y \in Seq(Positive) => Join(x, y) \in Seq(Positive)
  BY <1>1
<1>6. \A x, y, z : x \in Seq(Positive) /\ y \in Seq(Positive) /\ z \in Seq(Positive) =>
          Join(Join(x, y), z) = Join(x, Join(y, z))
  BY <1>2
<1> QED
  BY ONLY <1>4, <1>5, <1>6

LEMMA BoxType ==
    \A c \in Chunks :
        /\ Box(c) \in Seq(Int) /\ Len(Box(c)) = Len(c) + 1
        /\ Box(c) # <<>> /\ Head(Box(c)) = -Len(c) /\ Tail(Box(c)) = c
        /\ Opened(Box(c)) = c /\ c \in Seq(Positive) /\ c \in Seq(Int) /\ Len(c) \in 1 .. Record
<1> SUFFICES ASSUME NEW c \in Chunks
             PROVE  /\ Box(c) \in Seq(Int) /\ Len(Box(c)) = Len(c) + 1
                    /\ Box(c) # <<>> /\ Head(Box(c)) = -Len(c) /\ Tail(Box(c)) = c
                    /\ Opened(Box(c)) = c
                    /\ c \in Seq(Positive) /\ c \in Seq(Int) /\ Len(c) \in 1 .. Record
  OBVIOUS
<1>1. c \in Seq(Positive) /\ Len(c) \in 1 .. Record
  BY DEF Chunks
<1>2. c \in Seq(Int)
  BY <1>1, SeqMonotonic, Positive \subseteq Int DEF Positive
<1> DEFINE h == -Len(c)
<1>3. h \in Int /\ h \notin Positive /\ <<h>> \in Seq(Int)
  BY <1>1 DEF Positive
<1> HIDE DEF h
<1>4. /\ <<h>> \o c \in Seq(Int) /\ Len(<<h>> \o c) = Len(c) + 1
      /\ \A i \in 1 .. Len(c) + 1 : (<<h>> \o c)[i] = IF i = 1 THEN h ELSE c[i - 1]
  <2>1. Len(<<h>>) = 1 /\ <<h>>[1] = h
    OBVIOUS
  <2>2. Len(c) \in Nat
    BY <1>2, LenProperties
  <2>3. /\ <<h>> \o c \in Seq(Int) /\ Len(<<h>> \o c) = Len(<<h>>) + Len(c)
        /\ \A i \in 1 .. Len(<<h>>) + Len(c) :
               (<<h>> \o c)[i] = IF i <= Len(<<h>>) THEN <<h>>[i] ELSE c[i - Len(<<h>>)]
    BY <1>2, <1>3, ConcatProperties
  <2> QED
    BY <2>1, <2>2, <2>3
<1> DEFINE b == <<h>> \o c
<1> HIDE DEF b
<1>5. b # <<>> /\ Head(b) = h
  <2>1. b \in Seq(Int) /\ Len(b) # 0 /\ b[1] = h
    BY <1>1, <1>4 DEF b
  <2> QED
    BY <2>1, EmptySeq
<1>6. Tail(b) = c
  <2>1. /\ Tail(b) \in Seq(Int) /\ Len(Tail(b)) = Len(b) - 1
        /\ \A i \in 1 .. Len(Tail(b)) : Tail(b)[i] = b[i + 1]
    BY <1>4, <1>5, HeadTailProperties DEF b
  <2>2. Len(Tail(b)) = Len(c) /\ \A i \in 1 .. Len(c) : Tail(b)[i] = c[i]
    <3>1. Len(c) \in Nat
      BY <1>1
    <3> QED
      BY <1>4, <2>1, <3>1 DEF b
  <2> QED
    BY <1>2, <2>1, <2>2, SeqEqual
<1>7. Opened(b) = c
  <2>1. Filter(<<h>> \o c, Positive) = Filter(<<h>>, Positive) \o Filter(c, Positive)
    BY <1>2, <1>3, FilterConcat
  <2>2. Filter(<<h>>, Positive) = <<>>
    BY <1>3, FilterOne
  <2>3. Filter(c, Positive) = c
    BY <1>1, FilterAll
  <2>4. <<>> \o c = c
    BY <1>2, ConcatEmptySeq
  <2> QED
    BY <2>1, <2>2, <2>3, <2>4 DEF Opened, b, Positive
<1>8. Box(c) = b
  BY DEF Box, b, h
<1> QED
  BY <1>1, <1>2, <1>4, <1>5, <1>6, <1>7, <1>8 DEF b, h

LEMMA BoxesType ==
    \A r \in Seq(Chunks) :
        /\ Boxes(r) \in Seq(Seq(Int)) /\ Len(Boxes(r)) = Len(r) /\ Len(r) \in Nat
        /\ \A i \in 1 .. Len(r) : Boxes(r)[i] = Box(r[i]) /\ r[i] \in Chunks
<1> SUFFICES ASSUME NEW r \in Seq(Chunks)
             PROVE  /\ Boxes(r) \in Seq(Seq(Int)) /\ Len(Boxes(r)) = Len(r) /\ Len(r) \in Nat
                    /\ \A i \in 1 .. Len(r) : Boxes(r)[i] = Box(r[i]) /\ r[i] \in Chunks
  OBVIOUS
<1>1. Len(r) \in Nat /\ \A i \in 1 .. Len(r) : r[i] \in Chunks
  BY LenProperties
<1>2. Boxes(r) \in [1 .. Len(r) -> Seq(Int)]
  BY <1>1, BoxType DEF Boxes
<1>3. \A i \in 1 .. Len(r) : Boxes(r)[i] = Box(r[i])
  BY DEF Boxes
<1>4. Boxes(r) \in Seq(Seq(Int)) /\ Len(Boxes(r)) = Len(r)
  BY <1>1, <1>2
<1> QED
  BY <1>1, <1>3, <1>4

LEMMA BoxesAppend ==
    ASSUME NEW r \in Seq(Chunks), NEW c \in Chunks
    PROVE  Boxes(Append(r, c)) = Append(Boxes(r), Box(c))
<1> DEFINE u == Append(r, c)
           a == Boxes(u)
           b == Append(Boxes(r), Box(c))
           n == Len(r)
           T == Seq(Int)
<1>1. u \in Seq(Chunks) /\ Len(u) = n + 1 /\ u[n + 1] = c /\ \A i \in 1 .. n : u[i] = r[i]
  BY AppendProperties
<1>2. Boxes(r) \in Seq(T) /\ Len(Boxes(r)) = n /\ n \in Nat /\ Box(c) \in T
      /\ \A i \in 1 .. n : Boxes(r)[i] = Box(r[i])
  BY BoxesType, BoxType
<1> HIDE DEF T
<1>3. /\ b \in Seq(T) /\ Len(b) = n + 1 /\ b[n + 1] = Box(c)
      /\ \A i \in 1 .. n : b[i] = Boxes(r)[i]
  BY <1>2, AppendProperties
<1> HIDE DEF u, b, n
<1>4. a \in Seq(T) /\ Len(a) = n + 1 /\ \A i \in 1 .. n + 1 : a[i] = Box(u[i])
  BY <1>1, BoxesType DEF T
<1> HIDE DEF a
<1>5. \A i \in 1 .. n + 1 : a[i] = b[i]
  BY <1>1, <1>2, <1>3, <1>4
<1>6. a = b
  BY <1>3, <1>4, <1>5, SeqEqual
<1> QED
  BY <1>6 DEF a, b, u

(* What is packed can be opened again.                                     *)
LEMMA PackedAppend ==
    ASSUME NEW r \in Seq(Chunks), NEW c \in Chunks
    PROVE  /\ Packed(r) \in Seq(Int)
           /\ Packed(Append(r, c)) = Packed(r) \o Box(c)
<1>1. Boxes(r) \in Seq(Seq(Int)) /\ Box(c) \in Seq(Int)
  BY BoxesType, BoxType
<1>2. FlattenSeq(Append(Boxes(r), Box(c))) = FlattenSeq(Boxes(r)) \o Box(c)
      /\ FlattenSeq(Boxes(r)) \in Seq(Int)
  BY <1>1, FlattenAppend
<1> QED
  BY <1>2, BoxesAppend DEF Packed

LEMMA PackedEmpty == Packed(<<>>) = <<>> /\ FlattenSeq(<<>>) = <<>>
<1>1. <<>> \in Seq(Seq(Int)) /\ <<>> \in Seq(Chunks)
  BY EmptySeq
<1>2. Boxes(<<>>) \in Seq(Seq(Int)) /\ Len(Boxes(<<>>)) = 0
  BY <1>1, BoxesType, EmptySeq
<1>3. Boxes(<<>>) = <<>>
  BY <1>2, EmptySeq
<1> QED
  BY <1>1, <1>3, FlattenDef DEF Packed

LEMMA PackedConcat ==
    \A r \in Seq(Chunks) : \A q \in Seq(Chunks) : Packed(r \o q) = Packed(r) \o Packed(q)
<1> SUFFICES ASSUME NEW r \in Seq(Chunks)
             PROVE  \A q \in Seq(Chunks) : Packed(r \o q) = Packed(r) \o Packed(q)
  OBVIOUS
<1> DEFINE P == {q \in Seq(Chunks) : Packed(r \o q) = Packed(r) \o Packed(q)}
<1>0. \A q \in Seq(Chunks) : Packed(q) \in Seq(Int)
  BY BoxesType, FlattenType DEF Packed
<1>1. <<>> \in P
  BY <1>0, PackedEmpty, ConcatEmptySeq, EmptySeq
<1>2. ASSUME NEW q \in Seq(Chunks), NEW c \in Chunks, q \in P PROVE Append(q, c) \in P
  <2>1. r \o Append(q, c) = Append(r \o q, c) /\ r \o q \in Seq(Chunks)
    BY ConcatAppend
  <2>2. Packed(Append(r \o q, c)) = Packed(r \o q) \o Box(c)
    BY <2>1, PackedAppend
  <2>3. Packed(Append(q, c)) = Packed(q) \o Box(c) /\ Append(q, c) \in Seq(Chunks)
    BY PackedAppend, AppendProperties
  <2>4. (Packed(r) \o Packed(q)) \o Box(c) = Packed(r) \o (Packed(q) \o Box(c))
    <3>2. Packed(r) \in Seq(Int) /\ Packed(q) \in Seq(Int) /\ Box(c) \in Seq(Int)
      BY <1>0, BoxType
    <3> QED
      BY <3>2, UnitsAssociative
  <2> QED
    BY <1>2, <2>1, <2>2, <2>3, <2>4
<1> HIDE DEF P
<1>3. \A q \in Seq(Chunks) : q \in P
  BY <1>1, <1>2, SeqInduction
<1> QED
  BY <1>3 DEF P

LEMMA OpenedPacked ==
    \A r \in Seq(Chunks) : /\ Packed(r) \in Seq(Int)
                           /\ Opened(Packed(r)) = FlattenSeq(r)
                           /\ FlattenSeq(r) \in Seq(Positive)
<1> DEFINE P == {r \in Seq(Chunks) : Opened(Packed(r)) = FlattenSeq(r)}
<1>0. \A r \in Seq(Chunks) : Packed(r) \in Seq(Int) /\ r \in Seq(Seq(Positive))
                             /\ FlattenSeq(r) \in Seq(Positive)
  <2> SUFFICES ASSUME NEW r \in Seq(Chunks)
               PROVE  Packed(r) \in Seq(Int) /\ r \in Seq(Seq(Positive))
                      /\ FlattenSeq(r) \in Seq(Positive)
    OBVIOUS
  <2>1. Packed(r) \in Seq(Int)
    BY BoxesType, FlattenType DEF Packed
  <2>2. r \in Seq(Seq(Positive))
    <3>1. Chunks \subseteq Seq(Positive)
      BY DEF Chunks
    <3> QED
      BY <3>1, SeqMonotonic
  <2> QED
    BY <2>1, <2>2, FlattenType
<1>1. <<>> \in P
  BY PackedEmpty, FilterEmpty, EmptySeq DEF Opened
<1>2. ASSUME NEW r \in Seq(Chunks), NEW c \in Chunks, r \in P PROVE Append(r, c) \in P
  <2>1. Packed(Append(r, c)) = Packed(r) \o Box(c)
    BY PackedAppend
  <2>2. Opened(Packed(r) \o Box(c)) = Opened(Packed(r)) \o Opened(Box(c))
    <3>1. \A x, y \in Seq(Int) : Filter(x \o y, Nat \ {0}) = Filter(x, Nat \ {0}) \o Filter(y, Nat \ {0})
      BY FilterConcat
    <3>2. Packed(r) \in Seq(Int) /\ Box(c) \in Seq(Int)
      BY <1>0, BoxType
    <3> QED
      BY <3>1, <3>2 DEF Opened
  <2>3. FlattenSeq(Append(r, c)) = FlattenSeq(r) \o c
    <3>1. r \in Seq(Seq(Positive)) /\ c \in Seq(Positive)
      BY <1>0, BoxType
    <3> QED
      BY <3>1, FlattenAppend
  <2> QED
    BY <1>2, <2>1, <2>2, <2>3, BoxType, AppendProperties
<1> HIDE DEF P
<1>3. \A r \in Seq(Chunks) : r \in P
  BY <1>1, <1>2, SeqInduction
<1> QED
  BY <1>0, <1>3 DEF P

-----------------------------------------------------------------------------
(* What SSL_write is given comes out in boxes, Record bytes in each but    *)
(* the last.                                                               *)
PartOf(bytes, i) == SubSeq(bytes, (i - 1) * Record + 1, Smaller(i * Record, Len(bytes)))
Number(bytes) == (Len(bytes) + Record - 1) \div Record
Parts(bytes) == [i \in 1 .. Number(bytes) |-> PartOf(bytes, i)]

LEMMA Multiples ==
    ASSUME NEW R \in Nat \ {0}, NEW k \in Nat
    PROVE  /\ k * R \in Nat /\ (k + 1) * R = k * R + R
           /\ ((k + 1) - 1) * R = k * R /\ 0 * R = 0
<1>1. (k + 1) - 1 = k
  OBVIOUS
<1> QED
  BY <1>1

LEMMA Quotient ==
    ASSUME NEW R \in Nat \ {0}, NEW n \in Nat
    PROVE  LET q == (n + R - 1) \div R IN
           /\ q \in Nat /\ n <= q * R /\ (q > 0 => (q - 1) * R < n) /\ (q = 0 <=> n = 0)
<1> DEFINE q == (n + R - 1) \div R
           m == n + R - 1
<1>1. m \in Nat
  OBVIOUS
<1>2. q \in Int /\ R * q <= m /\ m < R * q + R
  OBVIOUS
<1> QED
  BY <1>1, <1>2

LEMMA Monotone ==
    ASSUME NEW R \in Nat \ {0}, NEW a \in Nat, NEW b \in Nat, a <= b
    PROVE  a * R <= b * R
<1>1. PICK d \in Nat : b = a + d
  <2>1. b - a \in Nat /\ b = a + (b - a)
    OBVIOUS
  <2> QED
    BY <2>1
<1>2. b * R = a * R + d * R /\ d * R \in Nat /\ a * R \in Nat
  BY <1>1
<1> QED
  BY <1>2

(* Where the parts are.                                                    *)
LEMMA PartBounds ==
    ASSUME NEW bytes \in Seq(Positive), NEW i \in 1 .. Number(bytes)
    PROVE  /\ (i - 1) * Record \in Nat /\ (i - 1) * Record < Len(bytes)
           /\ Smaller(i * Record, Len(bytes)) \in (i - 1) * Record + 1 .. Len(bytes)
           /\ Smaller(i * Record, Len(bytes)) <= (i - 1) * Record + Record
           /\ Smaller((i - 1) * Record, Len(bytes)) = (i - 1) * Record
<1> DEFINE n == Len(bytes)
           q == Number(bytes)
           a == (i - 1) * Record
           b == i * Record
<1>1. n \in Nat /\ Record \in Nat \ {0}
  BY LenProperties, StreamsAssumption
<1>2. q \in Nat /\ q > 0 /\ (q - 1) * Record < n
  BY <1>1, Quotient DEF Number
<1>3. i \in Nat /\ i - 1 \in Nat /\ q - 1 \in Nat /\ i - 1 <= q - 1
  BY <1>2
<1>4. a <= (q - 1) * Record /\ a \in Nat /\ (q - 1) * Record \in Nat
  BY <1>1, <1>3, Monotone, Multiples
<1>5. b = a + Record
  <2> DEFINE j == i - 1
  <2>1. j \in Nat /\ i = j + 1
    BY <1>3
  <2> HIDE DEF j
  <2>2. (j + 1) * Record = j * Record + Record
    BY <1>1, <2>1, Multiples
  <2> QED
    BY <2>1, <2>2 DEF j
<1> HIDE DEF a, b, n, q
<1>6. a < n
  BY <1>1, <1>2, <1>4
<1>7. Smaller(b, n) \in a + 1 .. n /\ Smaller(b, n) <= a + Record /\ Smaller(a, n) = a
  BY <1>1, <1>4, <1>5, <1>6 DEF Smaller
<1> QED
  BY <1>4, <1>6, <1>7 DEF a, b, n

LEMMA PartType ==
    ASSUME NEW bytes \in Seq(Positive), NEW i \in 1 .. Number(bytes)
    PROVE  PartOf(bytes, i) \in Chunks
<1> DEFINE a == (i - 1) * Record
           z == Smaller(i * Record, Len(bytes))
<1>1. a \in Nat /\ z \in a + 1 .. Len(bytes) /\ z <= a + Record /\ Len(bytes) \in Nat
      /\ Record \in Nat \ {0}
  BY PartBounds, LenProperties, StreamsAssumption
<1> HIDE DEF a, z
<1>2. \A k \in a + 1 .. z : bytes[k] \in Positive
  <2>1. \A k \in 1 .. Len(bytes) : bytes[k] \in Positive
    BY ElementOfSeq
  <2> QED
    BY <1>1, <2>1
<1>3. /\ SubSeq(bytes, a + 1, z) \in Seq(Positive)
      /\ Len(SubSeq(bytes, a + 1, z)) = IF a + 1 <= z THEN z - (a + 1) + 1 ELSE 0
  BY <1>1, <1>2, SubSeqProperties
<1>4. Len(SubSeq(bytes, a + 1, z)) \in 1 .. Record
  BY <1>1, <1>3
<1> QED
  BY <1>3, <1>4 DEF Chunks, PartOf, a, z

(* The first k of the parts.                                               *)
FirstParts(bytes, k) == [i \in 1 .. k |-> PartOf(bytes, i)]

LEMMA FirstPartsGrow ==
    ASSUME NEW bytes \in Seq(Positive), NEW k \in Nat, k + 1 <= Number(bytes)
    PROVE  /\ FirstParts(bytes, k) \in Seq(Chunks)
           /\ FirstParts(bytes, k + 1) = Append(FirstParts(bytes, k), PartOf(bytes, k + 1))
<1> DEFINE a == FirstParts(bytes, k)
           b == FirstParts(bytes, k + 1)
           c == PartOf(bytes, k + 1)
<1>0. Number(bytes) \in Nat
  BY LenProperties, StreamsAssumption, Quotient DEF Number
<1>1. \A i \in 1 .. k + 1 : PartOf(bytes, i) \in Chunks
  <2>1. \A i \in 1 .. k + 1 : i \in 1 .. Number(bytes)
    BY <1>0
  <2> QED
    BY <2>1, PartType
<1>2. a \in [1 .. k -> Chunks] /\ b \in [1 .. k + 1 -> Chunks] /\ c \in Chunks /\ k + 1 \in Nat
  BY <1>1 DEF FirstParts
<1>3. /\ \A i \in 1 .. k : a[i] = PartOf(bytes, i)
      /\ \A i \in 1 .. k + 1 : b[i] = PartOf(bytes, i)
  BY DEF FirstParts
<1> HIDE DEF a, b
<1>4. a \in Seq(Chunks) /\ Len(a) = k /\ b \in Seq(Chunks) /\ Len(b) = k + 1
  BY <1>2
<1>5. /\ Append(a, c) \in Seq(Chunks) /\ Len(Append(a, c)) = k + 1 /\ Append(a, c)[k + 1] = c
      /\ \A i \in 1 .. k : Append(a, c)[i] = a[i]
  BY <1>2, <1>4, AppendProperties
<1>6. \A i \in 1 .. k + 1 : b[i] = Append(a, c)[i]
  BY <1>3, <1>5
<1>7. b = Append(a, c)
  BY <1>4, <1>5, <1>6, SeqEqual
<1> QED
  BY <1>4, <1>7 DEF a, b

LEMMA PartsJoined ==
    ASSUME NEW bytes \in Seq(Positive)
    PROVE  /\ Parts(bytes) \in Seq(Chunks)
           /\ FlattenSeq(Parts(bytes)) = bytes
<1> DEFINE n == Len(bytes)
           q == Number(bytes)
           S == {k \in Nat : k <= q =>
                    /\ FirstParts(bytes, k) \in Seq(Chunks)
                    /\ FlattenSeq(FirstParts(bytes, k)) = SubSeq(bytes, 1, Smaller(k * Record, n))}
<1>1. n \in Nat /\ Record \in Nat \ {0}
  BY LenProperties, StreamsAssumption
<1>2. q \in Nat /\ n <= q * Record
  BY <1>1, Quotient DEF Number
<1>3. 0 \in S
  <2>1. FirstParts(bytes, 0) \in [1 .. 0 -> Chunks]
    BY DEF FirstParts
  <2>2. FirstParts(bytes, 0) \in Seq(Chunks) /\ Len(FirstParts(bytes, 0)) = 0
    BY <2>1
  <2>3. FirstParts(bytes, 0) = <<>>
    BY <2>2, EmptySeq
  <2>4. Smaller(0 * Record, n) = 0
    BY <1>1, Multiples DEF Smaller
  <2>5. SubSeq(bytes, 1, 0) = <<>>
    BY SubSeqEmpty
  <2> QED
    BY <2>2, <2>3, <2>4, <2>5, PackedEmpty
<1>4. ASSUME NEW k \in Nat, k \in S PROVE k + 1 \in S
  <2> SUFFICES ASSUME k + 1 <= q
               PROVE  /\ FirstParts(bytes, k + 1) \in Seq(Chunks)
                      /\ FlattenSeq(FirstParts(bytes, k + 1))
                             = SubSeq(bytes, 1, Smaller((k + 1) * Record, n))
    OBVIOUS
  <2> DEFINE c == PartOf(bytes, k + 1)
             a == k * Record
             z == Smaller((k + 1) * Record, n)
  <2>1. FirstParts(bytes, k) \in Seq(Chunks)
        /\ FirstParts(bytes, k + 1) = Append(FirstParts(bytes, k), c)
    BY FirstPartsGrow
  <2>2. k + 1 \in 1 .. q /\ (k + 1) - 1 = k
    BY <1>2
  <2>3. c \in Chunks
    BY <2>2, PartType
  <2>4. /\ a \in Nat /\ a < n /\ z \in a + 1 .. n /\ Smaller(a, n) = a
    <3>1. /\ ((k + 1) - 1) * Record \in Nat /\ ((k + 1) - 1) * Record < Len(bytes)
          /\ Smaller((k + 1) * Record, Len(bytes)) \in ((k + 1) - 1) * Record + 1 .. Len(bytes)
          /\ Smaller(((k + 1) - 1) * Record, Len(bytes)) = ((k + 1) - 1) * Record
      BY <2>2, PartBounds
    <3> QED
      BY <2>2, <3>1
  <2>5. c = SubSeq(bytes, a + 1, z)
    BY <2>2 DEF PartOf
  <2>6. FlattenSeq(FirstParts(bytes, k)) = SubSeq(bytes, 1, a)
    BY <1>2, <1>4, <2>4
  <2>7. FlattenSeq(Append(FirstParts(bytes, k), c)) = FlattenSeq(FirstParts(bytes, k)) \o c
    <3>1. FirstParts(bytes, k) \in Seq(Seq(Positive)) /\ c \in Seq(Positive)
      <4>1. Chunks \subseteq Seq(Positive)
        BY DEF Chunks
      <4> QED
        BY <2>1, <2>3, <4>1, SeqMonotonic
    <3> QED
      BY <3>1, FlattenAppend
  <2>8. SubSeq(bytes, 1, a) \o SubSeq(bytes, a + 1, z) = SubSeq(bytes, 1, z)
    <3> HIDE DEF a, z, n
    <3>1. 1 \in 1 .. n + 1 /\ a \in (1 - 1) .. n /\ z \in a .. n
      BY <1>1, <2>4
    <3> QED
      BY <3>1, ConcatAdjacentSubSeq DEF n
  <2>9. Append(FirstParts(bytes, k), c) \in Seq(Chunks)
    BY <2>1, <2>3, AppendProperties
  <2> QED
    BY <2>1, <2>5, <2>6, <2>7, <2>8, <2>9
<1> HIDE DEF S
<1>5. q \in S
  BY <1>2, <1>3, <1>4, Induction
<1>6. /\ FirstParts(bytes, q) \in Seq(Chunks)
      /\ FlattenSeq(FirstParts(bytes, q)) = SubSeq(bytes, 1, Smaller(q * Record, n))
  BY <1>2, <1>5 DEF S
<1>7. Smaller(q * Record, n) = n
  <2>1. q * Record \in Nat
    BY <1>1, <1>2, Multiples
  <2> QED
    BY <1>1, <1>2, <2>1 DEF Smaller
<1>8. SubSeq(bytes, 1, n) = bytes
  BY SubSeqFull
<1>9. FirstParts(bytes, q) = Parts(bytes)
  BY DEF FirstParts, Parts
<1> QED
  BY <1>6, <1>7, <1>8, <1>9

LEMMA RecordsPacked ==
    ASSUME NEW bytes \in Seq(Positive)
    PROVE  Records(bytes) = Packed(Parts(bytes))
<1>1. Records(bytes) = FlattenSeq([i \in 1 .. Number(bytes) |-> Box(PartOf(bytes, i))])
  BY DEF Records, Number, Box, PartOf
<1>2. Len(Parts(bytes)) = Number(bytes)
  <2>1. Number(bytes) \in Nat
    BY LenProperties, StreamsAssumption, Quotient DEF Number
  <2> QED
    BY <2>1 DEF Parts
<1>3. \A i \in 1 .. Number(bytes) : Parts(bytes)[i] = PartOf(bytes, i)
  BY DEF Parts
<1>4. [i \in 1 .. Number(bytes) |-> Box(PartOf(bytes, i))]
          = [i \in 1 .. Number(bytes) |-> Box(Parts(bytes)[i])]
  BY <1>3
<1> QED
  BY <1>1, <1>2, <1>4 DEF Packed, Boxes

-----------------------------------------------------------------------------
(* One side of the wire.  f and g are the flights of an engine and of its  *)
(* peer: they take turns, so that one is at most a flight ahead, and that  *)
(* flight is what comes first on the wire.                                 *)
Flight(on) == IF on THEN <<0>> ELSE <<>>

Carries(w, on, f) ==
    \E r \in Seq(Chunks) : w = Flight(on) \o Packed(r) /\ (r # <<>> => f = Flights)

Shake(s, f, g) ==
    /\ f \in 0 .. Flights /\ g \in 0 .. Flights /\ f <= g + 1 /\ g <= f + 1
    /\ f = g + 1 => SentBy(f) = s
    /\ g = f + 1 => SentBy(g) # s

Linked(s, f, g, in, out) ==
    Shake(s, f, g) /\ Carries(in, g = f + 1, g) /\ Carries(out, f = g + 1, f)

Engines == [flights : 0 .. Flights, bioIn : Seq(Int), bioOut : Seq(Int),
            app : Seq(Positive), waiting : Seq(Int)]

(* The bytes on it.                                                        *)
LEMMA OpenedConcat ==
    \A x, y \in Seq(Int) : /\ Opened(x \o y) = Opened(x) \o Opened(y)
                           /\ Opened(x) \in Seq(Positive)
<1>1. \A x, y \in Seq(Int) : Filter(x \o y, Positive) = Filter(x, Positive) \o Filter(y, Positive)
  BY FilterConcat
<1>2. \A x \in Seq(Int) : Filter(x, Positive) \in Seq(Int \cap Positive)
  BY FilterType
<1>3. Int \cap Positive = Positive
  BY DEF Positive
<1> QED
  BY <1>1, <1>2, <1>3 DEF Opened, Positive

LEMMA OpenedFlight ==
    \A on \in BOOLEAN : \A r \in Seq(Chunks) :
        /\ Flight(on) \o Packed(r) \in Seq(Int)
        /\ Opened(Flight(on) \o Packed(r)) = FlattenSeq(r)
<1> SUFFICES ASSUME NEW on \in BOOLEAN, NEW r \in Seq(Chunks)
             PROVE  /\ Flight(on) \o Packed(r) \in Seq(Int)
                    /\ Opened(Flight(on) \o Packed(r)) = FlattenSeq(r)
  OBVIOUS
<1>1. Flight(on) \in Seq(Int) /\ Opened(Flight(on)) = <<>>
  <2>1. <<>> \in Seq(Int) /\ Opened(<<>>) = <<>>
    BY EmptySeq, FilterEmpty DEF Opened
  <2>2. <<0>> \in Seq(Int) /\ Opened(<<0>>) = <<>>
    BY FilterOne DEF Opened
  <2> QED
    BY <2>1, <2>2 DEF Flight
<1>2. /\ Packed(r) \in Seq(Int) /\ Opened(Packed(r)) = FlattenSeq(r)
      /\ FlattenSeq(r) \in Seq(Positive)
  BY OpenedPacked
<1>3. <<>> \o FlattenSeq(r) = FlattenSeq(r)
  BY <1>2, ConcatEmptySeq
<1>4. Flight(on) \o Packed(r) \in Seq(Int)
  BY <1>1, <1>2, UnitsAssociative
<1>5. Opened(Flight(on) \o Packed(r)) = Opened(Flight(on)) \o Opened(Packed(r))
  BY <1>1, <1>2, OpenedConcat
<1> QED
  BY <1>1, <1>2, <1>3, <1>4, <1>5

LEMMA FlightOrNot ==
    \A r \in Seq(Chunks) :
        /\ Packed(r) \in Seq(Int) /\ Flight(FALSE) \o Packed(r) = Packed(r)
        /\ Flight(TRUE) \o Packed(r) = <<0>> \o Packed(r)
        /\ Flight(TRUE) \o Packed(r) # <<>>
        /\ Tail(Flight(TRUE) \o Packed(r)) = Packed(r)
<1> SUFFICES ASSUME NEW r \in Seq(Chunks)
             PROVE  /\ Packed(r) \in Seq(Int) /\ Flight(FALSE) \o Packed(r) = Packed(r)
                    /\ Flight(TRUE) \o Packed(r) = <<0>> \o Packed(r)
                    /\ Flight(TRUE) \o Packed(r) # <<>>
                    /\ Tail(Flight(TRUE) \o Packed(r)) = Packed(r)
  OBVIOUS
<1>1. Packed(r) \in Seq(Int)
  BY OpenedPacked
<1>2. <<>> \o Packed(r) = Packed(r)
  BY <1>1, ConcatEmptySeq
<1> DEFINE c == Packed(r)
           b == <<0>> \o c
<1>3. /\ b \in Seq(Int) /\ Len(b) = Len(c) + 1 /\ Len(c) \in Nat
      /\ \A i \in 1 .. Len(c) + 1 : b[i] = IF i = 1 THEN 0 ELSE c[i - 1]
  <2>1. Len(<<0>>) = 1 /\ <<0>>[1] = 0 /\ <<0>> \in Seq(Int)
    OBVIOUS
  <2>2. Len(c) \in Nat
    BY <1>1, LenProperties
  <2> HIDE DEF c
  <2>3. /\ <<0>> \o c \in Seq(Int) /\ Len(<<0>> \o c) = Len(<<0>>) + Len(c)
        /\ \A i \in 1 .. Len(<<0>>) + Len(c) :
               (<<0>> \o c)[i] = IF i <= Len(<<0>>) THEN <<0>>[i] ELSE c[i - Len(<<0>>)]
    BY <1>1, <2>1, ConcatProperties DEF c
  <2> QED
    BY <2>1, <2>2, <2>3
<1> HIDE DEF b, c
<1>4. b # <<>>
  BY <1>3, EmptySeq
<1>5. Tail(b) = c
  <2>1. /\ Tail(b) \in Seq(Int) /\ Len(Tail(b)) = Len(b) - 1
        /\ \A i \in 1 .. Len(Tail(b)) : Tail(b)[i] = b[i + 1]
    BY <1>3, <1>4, HeadTailProperties
  <2>2. Len(Tail(b)) = Len(c) /\ \A i \in 1 .. Len(c) : Tail(b)[i] = c[i]
    BY <1>3, <2>1
  <2> QED
    BY <1>1, <2>1, <2>2, SeqEqual DEF c
<1> QED
  BY <1>1, <1>2, <1>4, <1>5 DEF Flight, b, c

(* Two sequences that are one, cut in two places.                          *)
LEMMA CutFirst ==
    ASSUME NEW a \in Seq(Int), NEW b \in Seq(Int), NEW k \in 0 .. Len(a)
    PROVE  /\ FirstOf(k, a) \in Seq(Int) /\ Len(FirstOf(k, a)) = k
           /\ AllAfter(k, a) \in Seq(Int) /\ AllAfter(k, a) \o b \in Seq(Int)
           /\ FirstOf(k, a) \o (AllAfter(k, a) \o b) = a \o b
<1> DEFINE h == FirstOf(k, a)
           r == AllAfter(k, a)
<1>1. h \in Seq(Int) /\ Len(h) = k /\ r \in Seq(Int) /\ h \o r = a
  BY Cut
<1> HIDE DEF h, r
<1>2. (h \o r) \o b = h \o (r \o b)
  <2>1. h \in Seq(Int) /\ r \in Seq(Int)
    BY <1>1
  <2> QED
    BY ONLY <2>1, b \in Seq(Int), UnitsAssociative
<1>3. r \o b \in Seq(Int)
  BY <1>1, UnitsAssociative
<1> QED
  BY <1>1, <1>2, <1>3 DEF h, r

LEMMA TwoCuts ==
    ASSUME NEW a \in Seq(Int), NEW b \in Seq(Int), NEW x \in Seq(Int), NEW y \in Seq(Int),
           a \o b = x \o y, Len(x) <= Len(a)
    PROVE  FirstOf(Len(x), a) = x /\ AllAfter(Len(x), a) \o b = y
<1> DEFINE k == Len(x)
           h == FirstOf(k, a)
           r == AllAfter(k, a)
<1>1. k \in Nat /\ Len(a) \in Nat
  BY LenProperties
<1>2. k \in 0 .. Len(a)
  BY <1>1
<1>3. h \in Seq(Int) /\ Len(h) = k /\ r \in Seq(Int)
      /\ h \o (r \o b) = a \o b /\ r \o b \in Seq(Int)
  BY <1>2, CutFirst
<1> HIDE DEF h, r
<1>4. h \o (r \o b) = x \o y /\ r \o b \in Seq(Int)
  BY <1>3
<1>5. \A i \in 1 .. k : h[i] = x[i]
  <2> SUFFICES ASSUME NEW i \in 1 .. k PROVE h[i] = x[i]
    OBVIOUS
  <2>1. \A u, v \in Seq(Int) : \A j \in 1 .. Len(u) + Len(v) :
            (u \o v)[j] = IF j <= Len(u) THEN u[j] ELSE v[j - Len(u)]
    BY ONLY ConcatProperties
  <2>2. (h \o (r \o b))[i] = h[i]
    <3>1. Len(r \o b) \in Nat
      BY <1>4, LenProperties
    <3>2. i \in 1 .. Len(h) + Len(r \o b) /\ i <= Len(h)
      BY <1>1, <1>3, <3>1
    <3> QED
      BY <1>3, <1>4, <2>1, <3>2
  <2>3. (x \o y)[i] = x[i]
    <3>1. Len(y) \in Nat
      BY LenProperties
    <3>2. i \in 1 .. Len(x) + Len(y) /\ i <= Len(x)
      BY <1>1, <3>1
    <3> QED
      BY <2>1, <3>2
  <2> QED
    BY <1>4, <2>2, <2>3
<1>6. h = x
  BY <1>3, <1>5, SeqEqual
<1>7. \A u, v, w \in Seq(Int) : u \o v = u \o w => v = w
  BY ConcatSimplifications
<1>8. r \o b = y
  BY <1>4, <1>6, <1>7
<1> QED
  BY <1>6, <1>8 DEF h, r

(* The tail of what begins with something.                                 *)
LEMMA TailOfConcat ==
    ASSUME NEW a \in Seq(Int), NEW b \in Seq(Int), a # <<>>
    PROVE  /\ Tail(a \o b) = Tail(a) \o b /\ a \o b # <<>>
           /\ Tail(a) \in Seq(Int) /\ Len(Tail(a)) <= Len(a)
<1>1. /\ Tail(a) \in Seq(Int) /\ Len(Tail(a)) = Len(a) - 1 /\ Len(a) \in Nat /\ Len(a) # 0
      /\ \A i \in 1 .. Len(Tail(a)) : Tail(a)[i] = a[i + 1]
  BY HeadTailProperties, EmptySeq, LenProperties
<1> DEFINE c == a \o b
           t == Tail(a)
           d == t \o b
<1>2. /\ c \in Seq(Int) /\ Len(c) = Len(a) + Len(b)
      /\ \A i \in 1 .. Len(a) + Len(b) : c[i] = IF i <= Len(a) THEN a[i] ELSE b[i - Len(a)]
  BY ConcatProperties
<1> HIDE DEF t
<1>3. /\ d \in Seq(Int) /\ Len(d) = Len(t) + Len(b)
      /\ \A i \in 1 .. Len(t) + Len(b) : d[i] = IF i <= Len(t) THEN t[i] ELSE b[i - Len(t)]
  BY <1>1, ConcatProperties DEF t
<1>4. Len(b) \in Nat
  BY LenProperties
<1> HIDE DEF c, d
<1>5. c # <<>>
  BY <1>1, <1>2, <1>4, EmptySeq
<1>6. /\ Tail(c) \in Seq(Int) /\ Len(Tail(c)) = Len(c) - 1
      /\ \A i \in 1 .. Len(Tail(c)) : Tail(c)[i] = c[i + 1]
  BY <1>2, <1>5, HeadTailProperties
<1>7. \A i \in 1 .. Len(Tail(c)) : Tail(c)[i] = d[i]
  <2> SUFFICES ASSUME NEW i \in 1 .. Len(Tail(c)) PROVE Tail(c)[i] = d[i]
    OBVIOUS
  <2>1. i \in Nat /\ i >= 1 /\ i + 1 <= Len(a) + Len(b) /\ Tail(c)[i] = c[i + 1]
    BY <1>1, <1>2, <1>4, <1>6
  <2>4. Len(t) = Len(a) - 1 /\ Len(t) \in Nat
    BY <1>1 DEF t
  <2>5. i \in 1 .. Len(t) + Len(b) /\ i + 1 \in 1 .. Len(a) + Len(b)
    BY <1>1, <1>4, <2>1, <2>4
  <2>6. /\ c[i + 1] = IF i + 1 <= Len(a) THEN a[i + 1] ELSE b[(i + 1) - Len(a)]
        /\ d[i] = IF i <= Len(t) THEN t[i] ELSE b[i - Len(t)]
    BY <1>2, <1>3, <2>5
  <2>2. CASE i <= Len(t)
    <3>1. t[i] = a[i + 1]
      BY <1>1, <2>1, <2>2 DEF t
    <3>2. i + 1 <= Len(a)
      BY <1>1, <2>1, <2>2, <2>4
    <3> QED
      BY <2>1, <2>2, <2>6, <3>1, <3>2
  <2>3. CASE ~(i <= Len(t))
    <3>1. (i + 1) - Len(a) = i - Len(t) /\ ~(i + 1 <= Len(a))
      BY <1>1, <2>1, <2>3, <2>4
    <3> QED
      BY <2>1, <2>3, <2>6, <3>1
  <2> QED
    BY <2>2, <2>3
<1>8. Tail(c) = d
  <2>1. Len(Tail(c)) = Len(d)
    BY <1>1, <1>2, <1>3, <1>4, <1>6 DEF t
  <2> QED
    BY <1>3, <1>6, <1>7, <2>1, SeqEqual
<1> QED
  BY <1>1, <1>5, <1>8 DEF c, d, t

-----------------------------------------------------------------------------
(* The handshake.  The two sides and whose turn it is.                     *)
LEMMA PeerOf ==
    \A s \in Sides : /\ Peer(s) \in Sides /\ Peer(s) # s /\ Peer(Peer(s)) = s
                     /\ \A u \in Sides : u = s \/ u = Peer(s)
<1>1. \A s \in Sides : Peer(s) \in Sides /\ Peer(s) # s
  <2> SUFFICES ASSUME NEW s \in Sides PROVE \E t \in Sides : t # s
    BY DEF Peer
  <2> QED
    BY DEF Sides
<1> QED
  BY <1>1 DEF Sides

LEMMA Turns ==
    \A f \in Nat : SentBy(f) \in Sides /\ SentBy(f + 1) # SentBy(f)
<1>1. \A f \in Nat : (f + 1) % 2 = 1 <=> ~(f % 2 = 1)
  OBVIOUS
<1> QED
  BY <1>1 DEF SentBy, Sides

LEMMA LinkedPeer ==
    ASSUME NEW s \in Sides, NEW f, NEW g, NEW in, NEW out, Linked(s, f, g, in, out)
    PROVE  Linked(Peer(s), g, f, out, in)
<1>1. Shake(s, f, g) /\ Carries(in, g = f + 1, g) /\ Carries(out, f = g + 1, f)
  BY DEF Linked
<1>2. f \in Nat /\ g \in Nat
  BY <1>1, StreamsAssumption DEF Shake
<1>3. SentBy(f) \in Sides /\ SentBy(g) \in Sides
  BY <1>2, Turns
<1>4. Shake(Peer(s), g, f)
  BY <1>1, <1>3, PeerOf DEF Shake
<1> QED
  BY <1>1, <1>4 DEF Linked

(* What the handshake leaves as it is, for an engine with L before what it *)
(* sends and R after what it received, and a peer at the flight g: the     *)
(* bytes on either wire, and what the engine has for the program.          *)
InTurn(s, e, g, L, R) ==
    e \in Engines /\ Linked(s, e.flights, g, e.bioIn \o R, L \o e.bioOut)

Keeps(s, e, d, g, L, R) ==
    /\ InTurn(s, d, g, L, R)
    /\ Opened(d.bioIn \o R) = Opened(e.bioIn \o R)
    /\ Opened(L \o d.bioOut) = Opened(L \o e.bioOut)
    /\ d.app = e.app
    /\ d.waiting = e.waiting
    /\ Len(d.bioIn) <= Len(e.bioIn)

(* What is received is the flight on the wire.                             *)
LEMMA ReceiveKeeps ==
    ASSUME NEW s \in Sides, NEW e, NEW g, NEW L \in Seq(Int), NEW R \in Seq(Int),
           InTurn(s, e, g, L, R)
    PROVE  Keeps(s, e, Exchange(s, e, FALSE), g, L, R)
<1> DEFINE d == Exchange(s, e, FALSE)
           out == L \o e.bioOut
           f == e.flights
           b == e.bioIn
<1>e. e \in Engines /\ Linked(s, f, g, b \o R, out)
  BY DEF InTurn
<1>0. /\ f \in 0 .. Flights /\ b \in Seq(Int) /\ Flights \in Nat /\ Len(b) \in Nat
      /\ f \in Nat
  BY <1>e, StreamsAssumption, LenProperties DEF Engines
<1>1. Shake(s, f, g) /\ Carries(b \o R, g = f + 1, g) /\ Carries(out, f = g + 1, f)
  BY <1>e DEF Linked
<1>2. CASE Established(e) \/ SentBy(f + 1) = s \/ b = <<>>
  <2>1. d = e
    BY <1>2 DEF Exchange
  <2>2. Len(e.bioIn) <= Len(e.bioIn)
    BY <1>0
  <2>3. Keeps(s, e, e, g, L, R)
    BY <2>2 DEF Keeps
  <2> QED
    BY <2>1, <2>3
<1>3. CASE ~Established(e) /\ SentBy(f + 1) # s /\ b # <<>>
  <2>1. d = [e EXCEPT !.flights = @ + 1, !.bioIn = Tail(@)]
    BY <1>3 DEF Exchange
  <2>2. f # Flights /\ f + 1 \in 0 .. Flights
    <3>1. f # Flights
      BY <1>3 DEF Established
    <3>2. \A m, n \in Nat : m \in 0 .. n /\ m # n => m + 1 \in 0 .. n
      OBVIOUS
    <3> QED
      BY <1>0, <3>1, <3>2
  <2>3. PICK r \in Seq(Chunks) : /\ b \o R = Flight(g = f + 1) \o Packed(r)
                                 /\ r # <<>> => g = Flights
    BY <1>1 DEF Carries
  <2>4. b \o R # <<>> /\ Tail(b \o R) = Tail(b) \o R
        /\ Tail(b) \in Seq(Int) /\ Len(Tail(b)) <= Len(b)
    BY <1>0, <1>3, TailOfConcat
  <2>5. g = f + 1
    <3> SUFFICES ASSUME g # f + 1 PROVE FALSE
      OBVIOUS
    <3>1. b \o R = Packed(r)
      BY <2>3, FlightOrNot
    <3>2. r # <<>>
      BY <2>4, <3>1, PackedEmpty
    <3> QED
      BY <1>0, <1>1, <2>2, <2>3, <3>2 DEF Shake
  <2>6. b \o R = Flight(TRUE) \o Packed(r) /\ Tail(b \o R) = Packed(r)
    <3>1. b \o R = Flight(TRUE) \o Packed(r)
      BY <2>3, <2>5
    <3> QED
      BY <3>1, FlightOrNot
  <2>7. Tail(b) \o R = Flight(FALSE) \o Packed(r)
    BY <2>4, <2>6, FlightOrNot
  <2>8. d \in Engines /\ d.flights = f + 1 /\ d.bioIn = Tail(b)
        /\ d.bioOut = e.bioOut /\ d.app = e.app /\ d.waiting = e.waiting
    BY <1>e, <2>1, <2>2, <2>4 DEF Engines
  <2>9. Opened(d.bioIn \o R) = Opened(b \o R)
    BY <2>6, <2>7, <2>8, OpenedFlight
  <2>10. Carries(Tail(b) \o R, g = (f + 1) + 1, g)
    <3>1. (g = (f + 1) + 1) = FALSE
      BY <1>0, <2>5
    <3> QED
      BY <2>3, <2>7, <3>1 DEF Carries
  <2>11. Carries(out, f + 1 = g + 1, f + 1)
    <3>1. (f + 1 = g + 1) = FALSE /\ (f = g + 1) = FALSE
      BY <1>0, <2>5
    <3>2. PICK q \in Seq(Chunks) : /\ out = Flight(FALSE) \o Packed(q)
                                   /\ q # <<>> => f = Flights
      BY <1>1, <3>1 DEF Carries
    <3> QED
      BY <2>2, <3>1, <3>2 DEF Carries
  <2>12. Shake(s, f + 1, g)
    BY <1>0, <1>1, <2>2, <2>5 DEF Shake
  <2>13. Linked(s, f + 1, g, Tail(b) \o R, out)
    BY <2>10, <2>11, <2>12 DEF Linked
  <2>14. Linked(s, d.flights, g, d.bioIn \o R, out) /\ Len(d.bioIn) <= Len(e.bioIn)
    BY <2>4, <2>8, <2>13
  <2>15. InTurn(s, d, g, L, R) /\ Opened(L \o d.bioOut) = Opened(L \o e.bioOut)
    BY <2>8, <2>14 DEF InTurn
  <2> QED
    BY <2>8, <2>9, <2>14, <2>15 DEF Keeps
<1> QED
  BY <1>2, <1>3

(* What is sent is the only thing on the wire.                             *)
LEMMA SendKeeps ==
    ASSUME NEW s \in Sides, NEW e, NEW g, NEW L \in Seq(Int), NEW R \in Seq(Int),
           InTurn(s, e, g, L, R)
    PROVE  Keeps(s, e, Exchange(s, e, TRUE), g, L, R)
<1> DEFINE d == Exchange(s, e, TRUE)
           in == e.bioIn \o R
           f == e.flights
           b == e.bioOut
<1>e. e \in Engines /\ Linked(s, f, g, in, L \o b)
  BY DEF InTurn
<1>0. f \in 0 .. Flights /\ b \in Seq(Int) /\ Flights \in Nat /\ f \in Nat
  BY <1>e, StreamsAssumption DEF Engines
<1>1. Shake(s, f, g) /\ Carries(in, g = f + 1, g) /\ Carries(L \o b, f = g + 1, f)
  BY <1>e DEF Linked
<1>2. CASE Established(e) \/ SentBy(f + 1) # s
  <2>1. d = e
    BY <1>2 DEF Exchange
  <2>2. Len(e.bioIn) \in Nat
    BY <1>e, LenProperties DEF Engines
  <2>3. Keeps(s, e, e, g, L, R)
    BY <2>2 DEF Keeps
  <2> QED
    BY <2>1, <2>3
<1>3. CASE ~Established(e) /\ SentBy(f + 1) = s
  <2>1. d = [e EXCEPT !.flights = @ + 1, !.bioOut = Append(@, 0)]
    BY <1>3 DEF Exchange
  <2>2. f # Flights /\ f + 1 \in 0 .. Flights
    <3>1. f # Flights
      BY <1>3 DEF Established
    <3>2. \A m, n \in Nat : m \in 0 .. n /\ m # n => m + 1 \in 0 .. n
      OBVIOUS
    <3> QED
      BY <1>0, <3>1, <3>2
  <2>3. f = g
    <3>1. g \in Nat /\ f <= g + 1 /\ g <= f + 1
      BY <1>0, <1>1 DEF Shake
    <3>2. g # f + 1
      BY <1>1, <1>3 DEF Shake
    <3>3. f # g + 1
      BY <1>0, <1>1, <1>3, Turns DEF Shake
    <3>4. \A m, n \in Nat : m <= n + 1 /\ n <= m + 1 /\ n # m + 1 /\ m # n + 1 => m = n
      OBVIOUS
    <3> QED
      BY <1>0, <3>1, <3>2, <3>3, <3>4
  <2>4. L \o b = <<>>
    <3>1. (f = g + 1) = FALSE
      BY <1>0, <2>3
    <3>2. PICK q \in Seq(Chunks) : /\ L \o b = Flight(FALSE) \o Packed(q)
                                   /\ q # <<>> => f = Flights
      BY <1>1, <3>1 DEF Carries
    <3> QED
      BY <2>2, <3>2, FlightOrNot, PackedEmpty
  <2>5. Append(b, 0) \in Seq(Int) /\ L \o Append(b, 0) = <<0>>
    <3>1. b \in Seq(Int) /\ 0 \in Int
      BY <1>0
    <3>2. \A x, y \in Seq(Int) : x \o Append(y, 0) = Append(x \o y, 0)
      BY ConcatAppend
    <3>3. L \o Append(b, 0) = Append(L \o b, 0)
      BY <3>1, <3>2
    <3> QED
      BY <2>4, <3>1, <3>3
  <2>6. d \in Engines /\ d.flights = f + 1 /\ d.bioOut = Append(b, 0)
        /\ d.bioIn = e.bioIn /\ d.app = e.app /\ d.waiting = e.waiting
    BY <1>e, <2>1, <2>2, <2>5 DEF Engines
  <2>7. <<>> \in Seq(Chunks) /\ <<0>> = Flight(TRUE) \o Packed(<<>>)
    <3>1. <<0>> \o <<>> = <<0>>
      OBVIOUS
    <3> QED
      BY <3>1, PackedEmpty, EmptySeq DEF Flight
  <2>8. Carries(<<0>>, f + 1 = g + 1, f + 1)
    <3>1. (f + 1 = g + 1) = TRUE
      BY <1>0, <2>3
    <3> QED
      BY <2>7, <3>1 DEF Carries
  <2>9. Carries(in, g = (f + 1) + 1, g)
    <3>1. (g = (f + 1) + 1) = (g = f + 1)
      BY <1>0, <2>3
    <3> QED
      BY <1>1, <3>1
  <2>10. Shake(s, f + 1, g)
    BY <1>0, <1>1, <1>3, <2>2, <2>3 DEF Shake
  <2>11. Opened(<<0>>) = Opened(<<>>)
    BY FilterOne, FilterEmpty DEF Opened
  <2>12. Linked(s, f + 1, g, in, <<0>>)
    BY <2>8, <2>9, <2>10 DEF Linked
  <2>13. d.bioIn \o R = in /\ L \o d.bioOut = <<0>>
    BY <2>5, <2>6
  <2>14. InTurn(s, d, g, L, R)
    BY <2>6, <2>12, <2>13 DEF InTurn
  <2>15. Len(d.bioIn) <= Len(e.bioIn)
    <3>1. Len(e.bioIn) \in Nat
      BY <1>e, LenProperties DEF Engines
    <3>2. Len(e.bioIn) <= Len(e.bioIn)
      BY <3>1
    <3>3. d.bioIn = e.bioIn
      BY <2>6
    <3> HIDE DEF d
    <3> QED
      BY <3>2, <3>3
  <2> QED
    BY <2>4, <2>6, <2>11, <2>13, <2>14, <2>15 DEF Keeps
<1> QED
  BY <1>2, <1>3

LEMMA HandshakeKeeps ==
    ASSUME NEW s \in Sides, NEW e, NEW g, NEW L \in Seq(Int), NEW R \in Seq(Int),
           InTurn(s, e, g, L, R)
    PROVE  Keeps(s, e, Handshake(s, e), g, L, R)
<1>0. PICK c : c = Exchange(s, e, FALSE)
  OBVIOUS
<1>1. PICK d : d = Exchange(s, c, TRUE)
  OBVIOUS
<1>2. Keeps(s, e, c, g, L, R)
  BY <1>0, ReceiveKeeps
<1>3. InTurn(s, c, g, L, R)
  BY <1>2 DEF Keeps
<1>4. Keeps(s, c, d, g, L, R)
  BY <1>1, <1>3, SendKeeps
<1>5. Len(d.bioIn) <= Len(e.bioIn)
  <2>1. e \in Engines /\ c \in Engines /\ d \in Engines
    BY <1>2, <1>4 DEF Keeps, InTurn
  <2>2. Len(e.bioIn) \in Nat /\ Len(c.bioIn) \in Nat /\ Len(d.bioIn) \in Nat
    BY <2>1, LenProperties DEF Engines
  <2> QED
    BY <1>2, <1>4, <2>2 DEF Keeps
<1>6. Keeps(s, e, d, g, L, R)
  BY <1>2, <1>4, <1>5 DEF Keeps
<1> QED
  BY <1>0, <1>1, <1>6 DEF Handshake

-----------------------------------------------------------------------------
(* Records.  What begins with one.                                         *)
LEMMA HeadOfConcat ==
    ASSUME NEW a \in Seq(Int), NEW b \in Seq(Int), a # <<>>
    PROVE  Head(a \o b) = Head(a)
<1>1. Len(a) \in Nat /\ Len(a) # 0 /\ Len(b) \in Nat
  BY LenProperties, EmptySeq
<1>2. (a \o b)[1] = a[1]
  <2>1. \A i \in 1 .. Len(a) + Len(b) :
            (a \o b)[i] = IF i <= Len(a) THEN a[i] ELSE b[i - Len(a)]
    BY ConcatProperties
  <2>2. 1 \in 1 .. Len(a) + Len(b) /\ 1 <= Len(a)
    BY <1>1
  <2> QED
    BY <2>1, <2>2
<1>3. \A x \in Seq(Int) : x # <<>> => Head(x) = x[1]
  OBVIOUS
<1>4. a \o b \in Seq(Int) /\ a \o b # <<>>
  BY ConcatProperties, TailOfConcat
<1> QED
  BY <1>2, <1>3, <1>4

LEMMA PackedFirst ==
    ASSUME NEW r \in Seq(Chunks), r # <<>>
    PROVE  /\ Head(r) \in Chunks /\ Tail(r) \in Seq(Chunks)
           /\ Packed(r) = Box(Head(r)) \o Packed(Tail(r))
           /\ FlattenSeq(r) = Head(r) \o FlattenSeq(Tail(r))
<1> DEFINE c == Head(r)
           q == Tail(r)
<1>1. c \in Chunks /\ q \in Seq(Chunks)
  BY HeadTailProperties
<1>2. r = <<c>> \o q
  <2>1. Len(r) \in Nat /\ Len(r) # 0
    BY LenProperties, EmptySeq
  <2>2. 1 \in 1 .. Len(r) /\ Len(r) \in 1 .. Len(r)
    BY <2>1
  <2>3. SubSeq(r, 1, Len(r)) = <<r[1]>> \o SubSeq(r, 1 + 1, Len(r))
    BY <2>2, SubSeqRecursiveFirst
  <2>4. SubSeq(r, 1, Len(r)) = r /\ Tail(r) = SubSeq(r, 2, Len(r))
    BY SubSeqFull, TailIsSubSeq
  <2> QED
    BY <2>3, <2>4
<1> HIDE DEF c, q
<1>3. <<c>> \in Seq(Chunks) /\ <<c>> = Append(<<>>, c) /\ <<>> \in Seq(Chunks)
  BY <1>1, EmptySeq
<1>4. Packed(<<c>>) = Box(c)
  <2>1. Packed(<<c>>) = Packed(<<>>) \o Box(c)
    BY <1>1, <1>3, PackedAppend
  <2>2. Box(c) \in Seq(Int)
    BY <1>1, BoxType
  <2> QED
    BY <2>1, <2>2, PackedEmpty, ConcatEmptySeq
<1>5. Packed(r) = Packed(<<c>>) \o Packed(q)
  BY <1>1, <1>2, <1>3, PackedConcat
<1>6. FlattenSeq(r) = c \o FlattenSeq(q)
  <2>1. Chunks \subseteq Seq(Positive)
    BY DEF Chunks
  <2>2. q \in Seq(Seq(Positive)) /\ c \in Seq(Positive) /\ <<c>> \in Seq(Seq(Positive))
        /\ <<>> \in Seq(Seq(Positive))
    BY <1>1, <1>3, <2>1, SeqMonotonic, EmptySeq
  <2>3. FlattenSeq(<<c>> \o q) = FlattenSeq(<<c>>) \o FlattenSeq(q)
    BY <2>2, FlattenConcat
  <2>4. FlattenSeq(<<c>>) = c
    <3>1. FlattenSeq(Append(<<>>, c)) = FlattenSeq(<<>>) \o c
      BY <2>2, FlattenAppend
    <3> QED
      BY <1>3, <2>2, <3>1, PackedEmpty, ConcatEmptySeq
  <2> QED
    BY <1>2, <2>3, <2>4
<1> QED
  BY <1>1, <1>4, <1>5, <1>6 DEF c, q

(* What SSL_read gives is the first of the records on the wire: it holds c,*)
(* and those after it hold q.                                              *)
OnTop(e, g, R, c, q) ==
    /\ -Head(e.bioIn) = Len(c)
    /\ SubSeq(e.bioIn, 2, Len(c) + 1) = c
    /\ AllAfter(Len(c) + 1, e.bioIn) \in Seq(Int)
    /\ Len(AllAfter(Len(c) + 1, e.bioIn)) <= Len(e.bioIn)
    /\ AllAfter(Len(c) + 1, e.bioIn) \o R = Packed(q)
    /\ Opened(e.bioIn \o R) = c \o FlattenSeq(q)
    /\ g = Flights

LEMMA RecordOnTop ==
    ASSUME NEW s \in Sides, NEW e, NEW g, NEW L \in Seq(Int), NEW R \in Seq(Int),
           InTurn(s, e, g, L, R), Established(e), HasRecord(e)
    PROVE  \E c \in Chunks : \E q \in Seq(Chunks) : OnTop(e, g, R, c, q)
<1> DEFINE b == e.bioIn
           f == e.flights
<1>1. b \in Seq(Int) /\ b # <<>> /\ f = Flights /\ Len(b) > -Head(b) /\ Flights \in Nat
  BY StreamsAssumption DEF InTurn, Engines, Established, HasRecord
<1>2. Shake(s, f, g) /\ Carries(b \o R, g = f + 1, g)
  BY DEF InTurn, Linked
<1>3. g \in 0 .. Flights /\ (g = f + 1) = FALSE
  BY <1>1, <1>2 DEF Shake
<1>4. PICK r \in Seq(Chunks) : b \o R = Packed(r) /\ (r # <<>> => g = Flights)
  <2>1. PICK r \in Seq(Chunks) : b \o R = Flight(FALSE) \o Packed(r) /\ (r # <<>> => g = Flights)
    BY <1>2, <1>3 DEF Carries
  <2> QED
    BY <2>1, FlightOrNot
<1>5. r # <<>>
  <2>1. b \o R # <<>>
    BY <1>1, TailOfConcat
  <2> QED
    BY <1>4, <2>1, PackedEmpty
<1>6. PICK c \in Chunks, q \in Seq(Chunks) :
          /\ Packed(r) = Box(c) \o Packed(q)
          /\ FlattenSeq(r) = c \o FlattenSeq(q)
  BY <1>5, PackedFirst
<1> HIDE DEF b, f
<1>7. Head(b) = -Len(c)
  <2>1. Head(b \o R) = Head(b)
    BY <1>1, HeadOfConcat
  <2>2. Head(Box(c) \o Packed(q)) = Head(Box(c))
    BY BoxType, OpenedPacked, HeadOfConcat
  <2> QED
    BY <1>4, <1>6, <2>1, <2>2, BoxType
<1>8. Len(c) \in Nat /\ Len(b) \in Nat /\ Len(c) + 1 <= Len(b) /\ -Head(b) = Len(c)
      /\ Len(Box(c)) = Len(c) + 1
  <2>1. Len(c) \in Nat /\ Len(b) \in Nat /\ Len(Box(c)) = Len(c) + 1
    <3>1. c \in Seq(Positive)
      BY BoxType
    <3>2. Len(c) \in Nat /\ Len(b) \in Nat
      BY <1>1, <3>1, LenProperties
    <3> QED
      BY <3>2, BoxType
  <2>2. \A m \in Nat : -(-m) = m
    OBVIOUS
  <2>3. -Head(b) = Len(c)
    BY <1>7, <2>1, <2>2
  <2>4. Len(b) > Len(c)
    BY <1>1, <2>3
  <2> QED
    BY <2>1, <2>3, <2>4
<1>9. FirstOf(Len(c) + 1, b) = Box(c) /\ AllAfter(Len(c) + 1, b) \o R = Packed(q)
  <2>1. b \o R = Box(c) \o Packed(q) /\ Len(Box(c)) <= Len(b)
    BY <1>4, <1>6, <1>8
  <2>2. Box(c) \in Seq(Int) /\ Packed(q) \in Seq(Int)
    BY BoxType, OpenedPacked
  <2>3. FirstOf(Len(Box(c)), b) = Box(c) /\ AllAfter(Len(Box(c)), b) \o R = Packed(q)
    BY <1>1, <2>1, <2>2, TwoCuts
  <2> QED
    BY <1>8, <2>3
<1>10. SubSeq(b, 2, Len(c) + 1) = c
  <2>1. 1 \in 1 .. Len(b) /\ Len(c) + 1 \in 1 .. Len(b)
    BY <1>8
  <2>2. Tail(SubSeq(b, 1, Len(c) + 1)) = SubSeq(b, 1 + 1, Len(c) + 1)
    BY <1>1, <2>1, HeadTailOfSubSeq
  <2>3. Tail(Box(c)) = c
    BY BoxType
  <2>4. SubSeq(b, 1, Len(c) + 1) = Box(c)
    BY <1>9 DEF FirstOf
  <2>5. 1 + 1 = 2
    OBVIOUS
  <2> QED
    BY <2>2, <2>3, <2>4, <2>5
<1>11. AllAfter(Len(c) + 1, b) \in Seq(Int) /\ Len(AllAfter(Len(c) + 1, b)) <= Len(b)
  <2>1. Len(c) + 1 \in 0 .. Len(b)
    BY <1>8
  <2>2. AllAfter(Len(c) + 1, b) \in Seq(Int) /\ Len(AllAfter(Len(c) + 1, b)) = Len(b) - (Len(c) + 1)
    BY <1>1, <2>1, Cut
  <2> QED
    BY <1>8, <2>2
<1>12. Opened(b \o R) = c \o FlattenSeq(q)
  BY <1>4, <1>6, OpenedPacked
<1> QED
  BY <1>4, <1>5, <1>8, <1>9, <1>10, <1>11, <1>12 DEF OnTop, b

(* What read_app keeps: it may move a record from the wire to app.         *)
Reads(s, e, d, g, L, R) ==
    /\ InTurn(s, d, g, L, R)
    /\ d.app \o Opened(d.bioIn \o R) = e.app \o Opened(e.bioIn \o R)
    /\ Opened(L \o d.bioOut) = Opened(L \o e.bioOut)
    /\ d.waiting = e.waiting
    /\ Len(d.bioIn) <= Len(e.bioIn)
    /\ d.app = e.app \/ Len(d.app) <= Record

LEMMA ReadAppKeeps ==
    ASSUME NEW s \in Sides, NEW e, NEW g, NEW L \in Seq(Int), NEW R \in Seq(Int),
           InTurn(s, e, g, L, R)
    PROVE  Reads(s, e, ReadApp(s, e), g, L, R)
<1> DEFINE h == Handshake(s, e)
<1>1. Keeps(s, e, h, g, L, R)
  BY HandshakeKeeps
<1>2. InTurn(s, h, g, L, R) /\ h \in Engines /\ e \in Engines
  BY <1>1 DEF Keeps, InTurn
<1>3. CASE e.app # <<>>
  <2>1. ReadApp(s, e) = e
    BY <1>3 DEF ReadApp
  <2>2. Len(e.bioIn) \in Nat
    BY <1>2, LenProperties DEF Engines
  <2>3. Reads(s, e, e, g, L, R)
    BY <2>2 DEF Reads
  <2> QED
    BY <2>1, <2>3
<1>4. CASE e.app = <<>> /\ ~(Established(h) /\ HasRecord(h))
  <2>1. ReadApp(s, e) = h
    BY <1>4 DEF ReadApp
  <2> HIDE DEF h
  <2>2. Reads(s, e, h, g, L, R)
    BY <1>1 DEF Reads, Keeps
  <2> QED
    BY <2>1, <2>2
<1>5. CASE e.app = <<>> /\ Established(h) /\ HasRecord(h)
  <2> DEFINE n == -Head(h.bioIn)
             d == [h EXCEPT !.app = SubSeq(h.bioIn, 2, n + 1), !.bioIn = AllAfter(n + 1, h.bioIn)]
  <2>1. ReadApp(s, e) = d
    BY <1>5 DEF ReadApp
  <2> HIDE DEF h
  <2>0. PICK c \in Chunks : \E q \in Seq(Chunks) : OnTop(h, g, R, c, q)
    BY <1>2, <1>5, RecordOnTop
  <2>12. PICK q \in Seq(Chunks) : OnTop(h, g, R, c, q)
    BY <2>0
  <2>2. /\ -Head(h.bioIn) = Len(c)
        /\ SubSeq(h.bioIn, 2, Len(c) + 1) = c
        /\ AllAfter(Len(c) + 1, h.bioIn) \in Seq(Int)
        /\ Len(AllAfter(Len(c) + 1, h.bioIn)) <= Len(h.bioIn)
        /\ AllAfter(Len(c) + 1, h.bioIn) \o R = Packed(q)
        /\ Opened(h.bioIn \o R) = c \o FlattenSeq(q)
        /\ g = Flights
    BY <2>12 DEF OnTop
  <2> DEFINE rest == AllAfter(Len(c) + 1, h.bioIn)
  <2>3. d = [h EXCEPT !.app = c, !.bioIn = rest]
    BY <2>2
  <2> HIDE DEF d, n
  <2>4. c \in Seq(Positive) /\ Len(c) <= Record
    BY DEF Chunks
  <2>5. d \in Engines /\ d.app = c /\ d.bioIn = rest /\ d.bioOut = h.bioOut
        /\ d.waiting = h.waiting /\ d.flights = h.flights
    BY <1>2, <2>2, <2>3, <2>4 DEF Engines
  <2>6. Linked(s, h.flights, g, rest \o R, L \o h.bioOut)
    <3>1. Shake(s, h.flights, g) /\ Carries(L \o h.bioOut, h.flights = g + 1, h.flights)
      BY <1>2 DEF InTurn, Linked
    <3>2. (g = h.flights + 1) = FALSE
      <4>1. h.flights = Flights /\ Flights \in Nat
        BY <1>5, StreamsAssumption DEF Established
      <4> QED
        BY <2>2, <4>1
    <3>3. Carries(rest \o R, g = h.flights + 1, g)
      BY <2>2, <3>2, FlightOrNot DEF Carries
    <3> QED
      BY <3>1, <3>3 DEF Linked
  <2> HIDE DEF rest
  <2>7. InTurn(s, d, g, L, R)
    <3>1. d.bioIn \o R = rest \o R /\ L \o d.bioOut = L \o h.bioOut
      BY <2>5
    <3> QED
      BY <2>5, <2>6, <3>1 DEF InTurn
  <2>8. d.app \o Opened(d.bioIn \o R) = e.app \o Opened(e.bioIn \o R)
    <3>1. Opened(d.bioIn \o R) = FlattenSeq(q)
      BY <2>2, <2>5, OpenedPacked DEF rest
    <3>2. d.app \o Opened(d.bioIn \o R) = Opened(h.bioIn \o R)
      BY <2>2, <2>5, <3>1
    <3>3. Opened(h.bioIn \o R) = Opened(e.bioIn \o R)
      BY <1>1 DEF Keeps
    <3>4. Opened(e.bioIn \o R) \in Seq(Positive)
      <4>1. e.bioIn \in Seq(Int)
        BY <1>2 DEF Engines
      <4>2. e.bioIn \o R \in Seq(Int)
        BY <4>1, ConcatProperties
      <4> QED
        BY <4>2, OpenedConcat
    <3>5. <<>> \o Opened(e.bioIn \o R) = Opened(e.bioIn \o R)
      BY <3>4, ConcatEmptySeq
    <3> QED
      BY <1>5, <3>2, <3>3, <3>5
  <2>9. Opened(L \o d.bioOut) = Opened(L \o e.bioOut) /\ d.waiting = e.waiting
    BY <1>1, <2>5 DEF Keeps
  <2>10. Len(d.bioIn) <= Len(e.bioIn)
    <3>1. Len(h.bioIn) <= Len(e.bioIn)
      BY <1>1 DEF Keeps
    <3>2. Len(rest) <= Len(h.bioIn) /\ rest \in Seq(Int)
      BY <2>2 DEF rest
    <3>3. Len(h.bioIn) \in Nat /\ Len(e.bioIn) \in Nat /\ Len(rest) \in Nat
      BY <1>2, <3>2, LenProperties DEF Engines
    <3> QED
      BY <2>5, <3>1, <3>2, <3>3
  <2>11. Reads(s, e, d, g, L, R)
    BY <2>4, <2>5, <2>7, <2>8, <2>9, <2>10 DEF Reads
  <2> QED
    BY <2>1, <2>11
<1> QED
  BY <1>3, <1>4, <1>5

(* What write_socket keeps: what the socket has not taken waits.           *)
LEMMA WriteKeeps ==
    ASSUME NEW e \in Engines, NEW n \in 0 .. Len(e.waiting) + Len(e.bioOut)
    PROVE  LET d == WriteSocket(e, n)
               both == e.waiting \o e.bioOut
           IN  /\ d \in Engines /\ d.flights = e.flights /\ d.bioIn = e.bioIn /\ d.app = e.app
               /\ FirstOf(n, both) \in Seq(Int)
               /\ Join(FirstOf(n, both), Join(d.waiting, d.bioOut)) = Join(e.waiting, e.bioOut)
<1> DEFINE w == e.waiting
           o == e.bioOut
           both == w \o o
           x == FirstOf(n, both)
           y == AllAfter(n, both)
           d == WriteSocket(e, n)
<1>1. w \in Seq(Int) /\ o \in Seq(Int) /\ both \in Seq(Int) /\ Len(w) \in Nat /\ Len(o) \in Nat
      /\ Len(both) = Len(w) + Len(o)
  <2>1. w \in Seq(Int) /\ o \in Seq(Int)
    BY DEF Engines
  <2> QED
    BY <2>1, ConcatProperties, LenProperties
<1>2. n \in 0 .. Len(w) + Len(o)
  OBVIOUS
<1>0. both = Join(w, o)
  BY DEF Join
<1> HIDE DEF w, o
<1>3. n \in 0 .. Len(both) /\ n \in Nat
  BY <1>1, <1>2
<1>4. x \in Seq(Int) /\ Len(x) = n /\ y \in Seq(Int) /\ Join(x, y) = both
  BY <1>1, <1>3, Cut DEF Join
<1>5. CASE n < Len(w)
  <2>1. d = [e EXCEPT !.waiting = AllAfter(n, w)]
    BY <1>5 DEF WriteSocket, w
  <2>2. n \in 0 .. Len(w)
    BY <1>1, <1>3, <1>5
  <2>3. AllAfter(n, w) \in Seq(Int)
    BY <1>1, <2>2, Cut
  <2>4. AllAfter(n, w) \o o = y
    <3>1. w \o o = x \o y /\ Len(x) <= Len(w)
      BY <1>4, <2>2 DEF Join
    <3>2. FirstOf(Len(x), w) = x /\ AllAfter(Len(x), w) \o o = y
      BY <1>1, <1>4, <3>1, TwoCuts
    <3> QED
      BY <1>4, <3>2
  <2>5. d \in Engines /\ d.flights = e.flights /\ d.bioIn = e.bioIn /\ d.app = e.app
        /\ d.waiting = AllAfter(n, w) /\ d.bioOut = o
    BY <2>1, <2>3 DEF Engines, o
  <2>6. Join(d.waiting, d.bioOut) = y
    BY <2>4, <2>5 DEF Join
  <2> QED
    BY <1>0, <1>4, <2>5, <2>6 DEF w, o
<1>6. CASE ~(n < Len(w))
  <2> DEFINE m == n - Len(w)
             z == AllAfter(Len(w), x)
  <2>1. d = [e EXCEPT !.waiting = AllAfter(m, o), !.bioOut = <<>>]
    BY <1>6 DEF WriteSocket, w, o
  <2>2. m \in 0 .. Len(o) /\ Len(w) \in 0 .. Len(x) /\ Len(w) <= Len(x)
    BY <1>1, <1>2, <1>4, <1>6
  <2>3. AllAfter(m, o) \in Seq(Int)
    BY <1>1, <2>2, Cut
  <2>4. z \in Seq(Int) /\ Len(z) = m
    BY <1>4, <2>2, Cut
  <2>5. z \o y = o
    <3>1. x \o y = w \o o
      BY <1>4 DEF Join
    <3> QED
      BY <1>1, <1>4, <2>2, <3>1, TwoCuts
  <2> HIDE DEF z
  <2>6. AllAfter(m, o) = y
    <3>1. o \o <<>> = o /\ <<>> \in Seq(Int)
      BY <1>1, ConcatEmptySeq, EmptySeq
    <3>2. o \o <<>> = z \o y /\ Len(z) <= Len(o)
      BY <2>2, <2>4, <2>5, <3>1
    <3>3. AllAfter(Len(z), o) \o <<>> = y
      BY <1>1, <1>4, <2>4, <3>1, <3>2, TwoCuts
    <3>4. AllAfter(m, o) \o <<>> = AllAfter(m, o)
      BY <2>3, ConcatEmptySeq
    <3> QED
      BY <2>4, <3>3, <3>4
  <2>7. d \in Engines /\ d.flights = e.flights /\ d.bioIn = e.bioIn /\ d.app = e.app
        /\ d.waiting = AllAfter(m, o) /\ d.bioOut = <<>>
    BY <2>1, <2>3, EmptySeq DEF Engines
  <2>8. Join(d.waiting, d.bioOut) = y
    <3>1. Join(y, <<>>) = y
      BY <1>4, ConcatEmptySeq DEF Join
    <3> QED
      BY <2>6, <2>7, <3>1
  <2> QED
    BY <1>0, <1>4, <2>7, <2>8 DEF w, o
<1> QED
  BY <1>5, <1>6

(* What Engine::write keeps: bytes go behind what is on the wire.          *)
Written(e, a) == [e EXCEPT !.bioOut = @ \o Records(a)]

Writes(s, e, d, a, g, L, R) ==
    /\ InTurn(s, d, g, L, R) /\ Established(d)
    /\ d.bioIn = e.bioIn /\ d.app = e.app /\ d.waiting = e.waiting
    /\ Opened(Join(L, d.bioOut)) = Join(Opened(Join(L, e.bioOut)), a)

LEMMA RecordsKeep ==
    ASSUME NEW s, NEW e, NEW g, NEW L, NEW R, NEW a,
           s \in Sides, L \in Seq(Int), R \in Seq(Int), InTurn(s, e, g, L, R),
           Established(e), a \in Seq(Positive)
    PROVE  Writes(s, e, Written(e, a), a, g, L, R)
<1> DEFINE b == e.bioOut
           f == e.flights
           w == Records(a)
           d == Written(e, a)
<1>1. e \in Engines /\ b \in Seq(Int) /\ f = Flights
  BY DEF InTurn, Engines, Established
<1>2. PICK q \in Seq(Chunks) : w = Packed(q) /\ FlattenSeq(q) = a
  BY PartsJoined, RecordsPacked
<1>3. w \in Seq(Int) /\ b \o w \in Seq(Int) /\ Opened(w) = a
  <2>1. w \in Seq(Int) /\ Opened(w) = a
    BY <1>2, OpenedPacked
  <2> HIDE DEF w, b
  <2> QED
    BY <1>1, <2>1, ConcatProperties
<1>4. d \in Engines /\ d.flights = f /\ d.bioIn = e.bioIn /\ d.app = e.app
      /\ d.waiting = e.waiting /\ d.bioOut = b \o w
  BY <1>1, <1>3 DEF Engines, Written
<1>5. Shake(s, f, g) /\ Carries(e.bioIn \o R, g = f + 1, g) /\ Carries(L \o b, f = g + 1, f)
  BY DEF InTurn, Linked
<1>6. PICK r \in Seq(Chunks) : L \o b = Flight(f = g + 1) \o Packed(r)
  BY <1>5 DEF Carries
<1> HIDE DEF b, w, f
<1>7. L \o (b \o w) = (L \o b) \o w
  <2>1. b \in Seq(Int) /\ w \in Seq(Int)
    BY <1>1, <1>3
  <2> QED
    BY <2>1, Regroup
<1>8. (L \o b) \o w = Flight(f = g + 1) \o Packed(r \o q) /\ r \o q \in Seq(Chunks)
  <2>1. Packed(r \o q) = Packed(r) \o w
    BY <1>2, PackedConcat
  <2>2. \A on \in BOOLEAN : Flight(on) \in Seq(Int)
    BY EmptySeq DEF Flight
  <2>3. (f = g + 1) \in BOOLEAN
    OBVIOUS
  <2>4. Flight(f = g + 1) \in Seq(Int) /\ Packed(r) \in Seq(Int)
    BY <2>2, <2>3, OpenedPacked
  <2>5. w \in Seq(Int)
    BY <1>3
  <2>6. (Flight(f = g + 1) \o Packed(r)) \o w = Flight(f = g + 1) \o (Packed(r) \o w)
    BY <2>4, <2>5, Regroup
  <2>7. r \o q \in Seq(Chunks)
    BY ConcatProperties
  <2> QED
    BY <1>6, <2>1, <2>6, <2>7
<1>9. Carries(L \o (b \o w), f = g + 1, f)
  BY <1>1, <1>7, <1>8 DEF Carries
<1>10. Linked(s, f, g, e.bioIn \o R, L \o (b \o w))
  BY <1>5, <1>9 DEF Linked
<1>11. Opened(L \o (b \o w)) = Opened(L \o b) \o a
  <2>1. L \o b \in Seq(Int)
    BY <1>1, ConcatProperties
  <2>2. Opened((L \o b) \o w) = Opened(L \o b) \o Opened(w)
    BY <1>3, <2>1, OpenedConcat
  <2> QED
    BY <1>3, <1>7, <2>2
<1>12. InTurn(s, d, g, L, R)
  <2>1. d.bioIn \o R = e.bioIn \o R /\ L \o d.bioOut = L \o (b \o w)
    BY <1>4
  <2> QED
    BY <1>4, <1>10, <2>1 DEF InTurn
<1>13. Opened(Join(L, d.bioOut)) = Join(Opened(Join(L, e.bioOut)), a)
  BY <1>4, <1>11 DEF Join, b
<1> QED
  BY <1>1, <1>4, <1>12, <1>13 DEF Writes, Established, f

-----------------------------------------------------------------------------
(* The wire: a BIO, the network, what waits, and the other BIO.            *)
Wire(b, q, w, o) == b \o q \o w \o o

LEMMA WireBack ==
    ASSUME NEW b, NEW q, NEW w, NEW o,
           b \in Seq(Int), q \in Seq(Int), w \in Seq(Int), o \in Seq(Int)
    PROVE  /\ Wire(b, q, w, o) = Join(b, q \o w \o o)
           /\ q \o w \o o \in Seq(Int) /\ b \o q \o w \in Seq(Int) /\ Wire(b, q, w, o) \in Seq(Int)
<1>1. b \o q \in Seq(Int) /\ q \o w \in Seq(Int)
  BY Joined
<1>2. (b \o q) \o w \in Seq(Int) /\ (q \o w) \o o \in Seq(Int)
  BY <1>1, Joined
<1>3. (b \o q) \o w = b \o (q \o w)
  BY Regroup
<1>4. (b \o (q \o w)) \o o = b \o ((q \o w) \o o)
  BY <1>1, Regroup
<1>5. ((b \o q) \o w) \o o \in Seq(Int)
  BY <1>2, Joined
<1> QED
  BY <1>2, <1>3, <1>4, <1>5 DEF Wire, Join

(* What is received goes from one buffer to the next, ...                  *)
LEMMA WireReceive ==
    ASSUME NEW b, NEW q, NEW w, NEW o, NEW n,
           b \in Seq(Int), q \in Seq(Int), w \in Seq(Int), o \in Seq(Int), n \in 0 .. Len(q)
    PROVE  Wire(Join(b, FirstOf(n, q)), AllAfter(n, q), w, o) = Wire(b, q, w, o)
<1> DEFINE x == FirstOf(n, q)
           y == AllAfter(n, q)
<1>1. x \in Seq(Int) /\ y \in Seq(Int) /\ x \o y = q /\ Len(x) = n
  BY Cut
<1> HIDE DEF x, y
<1>2. (b \o x) \o y = b \o (x \o y)
  <2>1. x \in Seq(Int) /\ y \in Seq(Int)
    BY <1>1
  <2> QED
    BY ONLY <2>1, b \in Seq(Int), Regroup
<1>3. Wire(Join(b, x), y, w, o) = Wire(b, q, w, o)
  BY <1>1, <1>2 DEF Wire, Join
<1> QED
  BY <1>3 DEF x, y

(* ... and so does what is sent.                                           *)
LEMMA WireSend ==
    ASSUME NEW b, NEW q, NEW w, NEW o,
           NEW x, NEW v, NEW p,
           Join(x, Join(v, p)) = Join(w, o),
           b \in Seq(Int), q \in Seq(Int), w \in Seq(Int), o \in Seq(Int),
           x \in Seq(Int), v \in Seq(Int), p \in Seq(Int)
    PROVE  Wire(b, q \o x, v, p) = Wire(b, q, w, o)
<1>2. Join(Join(Join(b, Join(q, x)), v), p) = Join(Join(b, q), Join(x, Join(v, p)))
  <2>1. Join(b, Join(q, x)) = Join(Join(b, q), x) /\ Join(b, q) \in Seq(Int)
    BY UnitsJoin
  <2>2. Join(Join(b, q), x) \in Seq(Int) /\ Join(v, p) \in Seq(Int)
    BY <2>1, UnitsJoin
  <2>3. Join(Join(Join(Join(b, q), x), v), p) = Join(Join(Join(b, q), x), Join(v, p))
    BY <2>2, UnitsJoin
  <2>4. Join(Join(Join(b, q), x), Join(v, p)) = Join(Join(b, q), Join(x, Join(v, p)))
    BY <2>1, <2>2, UnitsJoin
  <2> QED
    BY <2>1, <2>3, <2>4
<1>3. Join(Join(Join(b, q), w), o) = Join(Join(b, q), Join(w, o))
  BY UnitsJoin
<1>4. /\ Wire(b, q \o x, v, p) = Join(Join(Join(b, Join(q, x)), v), p)
      /\ Wire(b, q, w, o) = Join(Join(Join(b, q), w), o)
  BY DEF Wire, Join
<1> QED
  BY <1>2, <1>3, <1>4

-----------------------------------------------------------------------------
(* Two engines, e of the side s and p of its peer, and what is on the      *)
(* network to and from s.                                                  *)
To(e, p, in) == Wire(e.bioIn, in, p.waiting, p.bioOut)

Link(s, e, p, in, out) ==
    /\ e \in Engines /\ p \in Engines /\ in \in Seq(Int) /\ out \in Seq(Int)
    /\ Linked(s, e.flights, p.flights, To(e, p, in), To(p, e, out))

LEMMA LinkPeer ==
    ASSUME NEW s \in Sides, NEW e, NEW p, NEW in, NEW out, Link(s, e, p, in, out)
    PROVE  Link(Peer(s), p, e, out, in)
<1>1. Linked(s, e.flights, p.flights, To(e, p, in), To(p, e, out))
  BY DEF Link
<1>2. Linked(Peer(s), p.flights, e.flights, To(p, e, out), To(e, p, in))
  BY <1>1, LinkedPeer
<1> QED
  BY <1>2 DEF Link

(* As the engine of s sees it.                                             *)
Before(e, p, out) == p.bioIn \o out \o e.waiting
Behind(p, in) == in \o p.waiting \o p.bioOut

LEMMA LinkIn ==
    ASSUME NEW e, NEW p, NEW in, e \in Engines, p \in Engines, in \in Seq(Int)
    PROVE  /\ To(e, p, in) = Join(e.bioIn, Behind(p, in))
           /\ To(e, p, in) \in Seq(Int) /\ Behind(p, in) \in Seq(Int)
<1>1. e.bioIn \in Seq(Int) /\ p.bioOut \in Seq(Int) /\ p.waiting \in Seq(Int)
  BY DEF Engines
<1>2. /\ Wire(e.bioIn, in, p.waiting, p.bioOut) = Join(e.bioIn, in \o p.waiting \o p.bioOut)
      /\ in \o p.waiting \o p.bioOut \in Seq(Int)
      /\ Wire(e.bioIn, in, p.waiting, p.bioOut) \in Seq(Int)
  BY <1>1, WireBack
<1> QED
  BY <1>2 DEF To, Behind

LEMMA LinkOut ==
    ASSUME NEW e, NEW p, NEW out, e \in Engines, p \in Engines, out \in Seq(Int)
    PROVE  /\ To(p, e, out) = Join(Before(e, p, out), e.bioOut)
           /\ To(p, e, out) \in Seq(Int) /\ Before(e, p, out) \in Seq(Int)
<1>1. p.bioIn \in Seq(Int) /\ e.bioOut \in Seq(Int) /\ e.waiting \in Seq(Int)
  BY DEF Engines
<1>2. /\ p.bioIn \o out \o e.waiting \in Seq(Int)
      /\ Wire(p.bioIn, out, e.waiting, e.bioOut) \in Seq(Int)
  BY <1>1, WireBack
<1>3. Wire(p.bioIn, out, e.waiting, e.bioOut) = Join(p.bioIn \o out \o e.waiting, e.bioOut)
  BY DEF Wire, Join
<1> QED
  BY <1>2, <1>3 DEF To, Before

LEMMA LinkTurn ==
    ASSUME NEW s, NEW e, NEW p, NEW in, NEW out,
           e \in Engines, p \in Engines, in \in Seq(Int), out \in Seq(Int)
    PROVE  Link(s, e, p, in, out)
               <=> InTurn(s, e, p.flights, Before(e, p, out), Behind(p, in))
<1>1. /\ To(e, p, in) = Join(e.bioIn, Behind(p, in))
      /\ To(p, e, out) = Join(Before(e, p, out), e.bioOut)
  BY LinkIn, LinkOut
<1>2. Linked(s, e.flights, p.flights, To(e, p, in), To(p, e, out))
          <=> Linked(s, e.flights, p.flights, Join(e.bioIn, Behind(p, in)), Join(Before(e, p, out), e.bioOut))
  BY <1>1
<1> QED
  BY <1>2 DEF Link, InTurn, Join

(* What a step of s leaves as it is: the bytes on their way to the program *)
(* of s and those on their way from it.                                    *)
SameBytes(e, d, p, in, in2, out, out2) ==
    /\ Join(d.app, Opened(To(d, p, in2))) = Join(e.app, Opened(To(e, p, in)))
    /\ Opened(To(p, d, out2)) = Opened(To(p, e, out))

(* read_socket.                                                            *)
LEMMA ReceiveLink ==
    ASSUME NEW s, NEW e, NEW p, NEW in, NEW out, Link(s, e, p, in, out),
           NEW n \in 0 .. Len(in), NEW d, d = ReadSocket(e, FirstOf(n, in))
    PROVE  /\ Link(s, d, p, AllAfter(n, in), out)
           /\ SameBytes(e, d, p, in, AllAfter(n, in), out, out)
           /\ d.app = e.app /\ Len(d.bioIn) = Len(e.bioIn) + n
<1> DEFINE x == FirstOf(n, in)
           y == AllAfter(n, in)
<1>1. e \in Engines /\ p \in Engines /\ in \in Seq(Int) /\ out \in Seq(Int)
      /\ Linked(s, e.flights, p.flights, To(e, p, in), To(p, e, out))
  BY DEF Link
<1>2. e.bioIn \in Seq(Int) /\ p.waiting \in Seq(Int) /\ p.bioOut \in Seq(Int)
  BY <1>1 DEF Engines
<1>3. /\ Wire(Join(e.bioIn, x), y, p.waiting, p.bioOut) = Wire(e.bioIn, in, p.waiting, p.bioOut)
      /\ x \in Seq(Int) /\ y \in Seq(Int) /\ Len(x) = n
  <2>1. Wire(Join(e.bioIn, x), y, p.waiting, p.bioOut) = Wire(e.bioIn, in, p.waiting, p.bioOut)
    <3>1. n \in 0 .. Len(in)
      OBVIOUS
    <3>2. in \in Seq(Int)
      BY <1>1
    <3> QED
      BY <1>2, <3>1, <3>2, WireReceive
  <2>2. x \in Seq(Int) /\ y \in Seq(Int) /\ Len(x) = n
    BY <1>1, Cut
  <2> QED
    BY <2>1, <2>2
<1> HIDE DEF x, y
<1>4. Join(e.bioIn, x) \in Seq(Int) /\ Len(Join(e.bioIn, x)) = Len(e.bioIn) + n
  BY <1>2, <1>3, ConcatProperties DEF Join
<1>5. d = [e EXCEPT !.bioIn = Join(e.bioIn, x)]
  BY DEF ReadSocket, x, Join
<1>6. d \in Engines /\ d.bioIn = Join(e.bioIn, x) /\ d.flights = e.flights /\ d.app = e.app
      /\ d.waiting = e.waiting /\ d.bioOut = e.bioOut
  BY <1>1, <1>4, <1>5 DEF Engines
<1>7. To(d, p, y) = To(e, p, in)
  BY <1>3, <1>6 DEF To
<1>8. To(p, d, out) = To(p, e, out)
  BY <1>6 DEF To
<1>9. Link(s, d, p, y, out)
  BY <1>1, <1>3, <1>6, <1>7, <1>8 DEF Link
<1>10. SameBytes(e, d, p, in, y, out, out)
  BY <1>6, <1>7, <1>8 DEF SameBytes
<1>11. Len(d.bioIn) = Len(e.bioIn) + n
  BY <1>4, <1>6
<1> QED
  BY <1>6, <1>9, <1>10, <1>11 DEF y

(* SSL_do_handshake and read_app.                                          *)
LEMMA TurnLink ==
    ASSUME NEW s \in Sides, NEW e, NEW p, NEW in, NEW out, Link(s, e, p, in, out),
           NEW d, Reads(s, e, d, p.flights, Before(e, p, out), Behind(p, in))
    PROVE  /\ Link(s, d, p, in, out)
           /\ SameBytes(e, d, p, in, in, out, out)
           /\ Len(d.bioIn) <= Len(e.bioIn)
           /\ d.app = e.app \/ Len(d.app) <= Record
<1>1. e \in Engines /\ p \in Engines /\ in \in Seq(Int) /\ out \in Seq(Int)
  BY DEF Link
<1> DEFINE L == Before(e, p, out)
           R == Behind(p, in)
           g == p.flights
<1>2. L \in Seq(Int) /\ R \in Seq(Int) /\ InTurn(s, e, g, L, R)
      /\ To(e, p, in) = Join(e.bioIn, R) /\ To(p, e, out) = Join(L, e.bioOut)
  <2>1. /\ L \in Seq(Int) /\ R \in Seq(Int)
        /\ To(e, p, in) = Join(e.bioIn, R) /\ To(p, e, out) = Join(L, e.bioOut)
    BY <1>1, LinkIn, LinkOut
  <2>2. InTurn(s, e, g, L, R)
    BY <1>1, LinkTurn
  <2> QED
    BY <2>1, <2>2
<1> HIDE DEF L, R, g
<1>3. Reads(s, e, d, g, L, R)
  BY DEF L, R, g
<1>4. d \in Engines /\ InTurn(s, d, g, L, R) /\ d.waiting = e.waiting
  BY <1>3 DEF Reads, InTurn
<1>5. Before(d, p, out) = L
  BY <1>4 DEF Before, L
<1>6. To(d, p, in) = Join(d.bioIn, R) /\ To(p, d, out) = Join(L, d.bioOut)
  <2>1. /\ To(d, p, in) = Join(d.bioIn, Behind(p, in))
        /\ To(p, d, out) = Join(Before(d, p, out), d.bioOut)
    BY <1>1, <1>4, LinkIn, LinkOut
  <2> QED
    BY <1>5, <2>1 DEF R
<1>7. Link(s, d, p, in, out)
  <2>1. InTurn(s, d, p.flights, Before(d, p, out), Behind(p, in))
    BY <1>4, <1>5 DEF R, g
  <2> QED
    BY <1>1, <1>4, <2>1, LinkTurn
<1>8. SameBytes(e, d, p, in, in, out, out)
  <2>1. Join(d.app, Opened(Join(d.bioIn, R))) = Join(e.app, Opened(Join(e.bioIn, R)))
        /\ Opened(Join(L, d.bioOut)) = Opened(Join(L, e.bioOut))
    BY <1>3 DEF Reads, Join
  <2> QED
    BY <1>2, <1>6, <2>1 DEF SameBytes
<1> QED
  BY <1>3, <1>7, <1>8 DEF Reads

LEMMA ReadLink ==
    ASSUME NEW s \in Sides, NEW e, NEW p, NEW in, NEW out, Link(s, e, p, in, out),
           NEW d, d = ReadApp(s, e)
    PROVE  Reads(s, e, d, p.flights, Before(e, p, out), Behind(p, in))
<1>1. e \in Engines /\ p \in Engines /\ in \in Seq(Int) /\ out \in Seq(Int)
  BY DEF Link
<1>2. Before(e, p, out) \in Seq(Int) /\ Behind(p, in) \in Seq(Int)
  BY <1>1, LinkIn, LinkOut
<1>3. InTurn(s, e, p.flights, Before(e, p, out), Behind(p, in))
  BY <1>1, LinkTurn
<1> QED
  BY <1>2, <1>3, ReadAppKeeps

LEMMA HandshakeLink ==
    ASSUME NEW s \in Sides, NEW e, NEW p, NEW in, NEW out, Link(s, e, p, in, out),
           NEW d, d = Handshake(s, e)
    PROVE  /\ Reads(s, e, d, p.flights, Before(e, p, out), Behind(p, in))
           /\ d.app = e.app
<1>1. e \in Engines /\ p \in Engines /\ in \in Seq(Int) /\ out \in Seq(Int)
  BY DEF Link
<1>2. Before(e, p, out) \in Seq(Int) /\ Behind(p, in) \in Seq(Int)
  BY <1>1, LinkIn, LinkOut
<1>3. InTurn(s, e, p.flights, Before(e, p, out), Behind(p, in))
  BY <1>1, LinkTurn
<1>4. Keeps(s, e, d, p.flights, Before(e, p, out), Behind(p, in))
  BY <1>2, <1>3, HandshakeKeeps
<1> QED
  BY <1>4 DEF Keeps, Reads

(* Engine::write.                                                          *)
LEMMA RecordsLink ==
    ASSUME NEW s \in Sides, NEW e, NEW p, NEW in, NEW out, Link(s, e, p, in, out),
           Established(e), NEW a \in Seq(Positive), NEW d, d = Written(e, a)
    PROVE  /\ Link(s, d, p, in, out) /\ Established(d)
           /\ d.app = e.app /\ d.bioIn = e.bioIn /\ To(d, p, in) = To(e, p, in)
           /\ Opened(To(p, d, out)) = Join(Opened(To(p, e, out)), a)
<1>1. e \in Engines /\ p \in Engines /\ in \in Seq(Int) /\ out \in Seq(Int)
  BY DEF Link
<1> DEFINE L == Before(e, p, out)
           R == Behind(p, in)
<1>2. L \in Seq(Int) /\ R \in Seq(Int) /\ To(p, e, out) = Join(L, e.bioOut)
  BY <1>1, LinkIn, LinkOut
<1>3. InTurn(s, e, p.flights, L, R)
  BY <1>1, LinkTurn
<1> HIDE DEF L, R
<1>4. /\ InTurn(s, d, p.flights, L, R) /\ Established(d)
      /\ d.bioIn = e.bioIn /\ d.app = e.app /\ d.waiting = e.waiting
      /\ Opened(Join(L, d.bioOut)) = Join(Opened(Join(L, e.bioOut)), a)
  <2>1. Writes(s, e, d, a, p.flights, L, R)
    BY <1>2, <1>3, RecordsKeep
  <2> QED
    BY <2>1 DEF Writes
<1>5. d \in Engines
  BY <1>4 DEF InTurn
<1>6. Before(d, p, out) = L
  BY <1>4 DEF Before, L
<1>7. Link(s, d, p, in, out)
  <2>1. InTurn(s, d, p.flights, Before(d, p, out), Behind(p, in))
    BY <1>4, <1>6 DEF R
  <2> QED
    BY <1>1, <1>5, <2>1, LinkTurn
<1>8. To(d, p, in) = To(e, p, in)
  BY <1>4 DEF To
<1>9. Opened(To(p, d, out)) = Join(Opened(To(p, e, out)), a)
  <2>1. To(p, d, out) = Join(L, d.bioOut)
    BY <1>1, <1>5, <1>6, LinkOut
  <2> QED
    BY <1>2, <1>4, <2>1
<1> QED
  BY <1>4, <1>7, <1>8, <1>9

(* Engine::read.                                                           *)
LEMMA AppLink ==
    ASSUME NEW s, NEW e, NEW p, NEW in, NEW out, Link(s, e, p, in, out),
           NEW a \in Seq(Positive), NEW d, d = [e EXCEPT !.app = a]
    PROVE  /\ Link(s, d, p, in, out) /\ d.app = a /\ d.bioIn = e.bioIn
           /\ To(d, p, in) = To(e, p, in) /\ To(p, d, out) = To(p, e, out)
<1>1. e \in Engines /\ p \in Engines /\ in \in Seq(Int) /\ out \in Seq(Int)
      /\ Linked(s, e.flights, p.flights, To(e, p, in), To(p, e, out))
  BY DEF Link
<1>2. d \in Engines /\ d.bioIn = e.bioIn /\ d.flights = e.flights /\ d.app = a
      /\ d.waiting = e.waiting /\ d.bioOut = e.bioOut
  BY <1>1 DEF Engines
<1>3. To(d, p, in) = To(e, p, in) /\ To(p, d, out) = To(p, e, out)
  BY <1>2 DEF To
<1>4. Link(s, d, p, in, out)
  BY <1>1, <1>2, <1>3 DEF Link
<1> QED
  BY <1>2, <1>3, <1>4

(* write_socket.                                                           *)
Sends(e, d, out, out2, n) ==
    /\ n \in 0 .. Len(e.waiting) + Len(e.bioOut)
    /\ d = WriteSocket(e, n)
    /\ out2 = Join(out, FirstOf(n, Join(e.waiting, e.bioOut)))

LEMMA WriteLink ==
    ASSUME NEW s, NEW e, NEW p, NEW in, NEW out, Link(s, e, p, in, out),
           NEW d, NEW out2, NEW n, Sends(e, d, out, out2, n)
    PROVE  /\ Link(s, d, p, in, out2)
           /\ SameBytes(e, d, p, in, in, out, out2)
           /\ d.app = e.app /\ d.bioIn = e.bioIn
<1>n. /\ n \in 0 .. Len(e.waiting) + Len(e.bioOut) /\ d = WriteSocket(e, n)
      /\ out2 = Join(out, FirstOf(n, Join(e.waiting, e.bioOut)))
  BY DEF Sends
<1>x. PICK x : x = FirstOf(n, Join(e.waiting, e.bioOut))
  OBVIOUS
<1>1. e \in Engines /\ p \in Engines /\ in \in Seq(Int) /\ out \in Seq(Int)
      /\ Linked(s, e.flights, p.flights, To(e, p, in), To(p, e, out))
  BY DEF Link
<1>2. /\ d \in Engines /\ d.flights = e.flights /\ d.bioIn = e.bioIn /\ d.app = e.app
      /\ x \in Seq(Int)
      /\ Join(x, Join(d.waiting, d.bioOut)) = Join(e.waiting, e.bioOut)
  <2>1. n \in 0 .. Len(e.waiting) + Len(e.bioOut)
    BY <1>n
  <2>2. x = FirstOf(n, e.waiting \o e.bioOut)
    BY <1>x DEF Join
  <2> QED
    BY <1>1, <1>n, <2>1, <2>2, WriteKeeps
<1>3. /\ e.waiting \in Seq(Int) /\ e.bioOut \in Seq(Int) /\ p.bioIn \in Seq(Int)
      /\ d.waiting \in Seq(Int) /\ d.bioOut \in Seq(Int)
  BY <1>1, <1>2 DEF Engines
<1>4. To(p, d, out \o x) = To(p, e, out)
  <2>1. Wire(p.bioIn, out \o x, d.waiting, d.bioOut) = Wire(p.bioIn, out, e.waiting, e.bioOut)
    BY <1>1, <1>2, <1>3, WireSend
  <2> QED
    BY <2>1 DEF To
<1>5. To(d, p, in) = To(e, p, in)
  BY <1>2 DEF To
<1>6. out \o x \in Seq(Int)
  BY <1>1, <1>2, Joined
<1>7. Link(s, d, p, in, out \o x)
  BY <1>1, <1>2, <1>4, <1>5, <1>6 DEF Link
<1>8. SameBytes(e, d, p, in, in, out, out \o x)
  BY <1>2, <1>4, <1>5 DEF SameBytes
<1>9. out2 = out \o x
  BY <1>n, <1>x DEF Join
<1> QED
  BY <1>2, <1>7, <1>8, <1>9

-----------------------------------------------------------------------------
(* The line of buffers between a program and its peer, and what a call may *)
(* do with the bytes in it.                                                *)
Line(a, b, c, d, e, f) == Join(Join(Join(Join(Join(a, b), c), d), e), f)

LEMMA LineRead ==
    ASSUME NEW a, NEW b, NEW c, NEW d, NEW e, NEW f, NEW c2, NEW d2,
           a \in Seq(Positive), b \in Seq(Positive), c \in Seq(Positive), d \in Seq(Positive),
           c2 \in Seq(Positive), d2 \in Seq(Positive), Join(c2, d2) = Join(c, d)
    PROVE  Line(a, b, c2, d2, e, f) = Line(a, b, c, d, e, f)
<1>1. Join(a, b) \in Seq(Positive)
  BY BytesJoin
<1>2. Join(Join(Join(a, b), c), d) = Join(Join(a, b), Join(c, d))
  BY <1>1, BytesJoin
<1>3. Join(Join(Join(a, b), c2), d2) = Join(Join(a, b), Join(c2, d2))
  BY <1>1, BytesJoin
<1> QED
  BY <1>2, <1>3 DEF Line

LEMMA LineWrite ==
    ASSUME NEW a, NEW b, NEW c, NEW d, NEW e, NEW f, NEW x, NEW f2,
           a \in Seq(Positive), b \in Seq(Positive), c \in Seq(Positive), d \in Seq(Positive),
           e \in Seq(Positive), f2 \in Seq(Positive), x \in Seq(Positive), Join(x, f2) = f
    PROVE  Line(a, b, c, Join(Join(d, e), x), <<>>, f2) = Line(a, b, c, d, e, f)
<1>1. PICK h : h = Join(Join(a, b), c)
  OBVIOUS
<1>2. h \in Seq(Positive)
  <2>1. Join(a, b) \in Seq(Positive)
    BY BytesJoin
  <2> QED
    BY <1>1, <2>1, BytesJoin
<1>3. Join(h, Join(Join(d, e), x)) = Join(Join(Join(h, d), e), x)
  <2>1. Join(d, e) \in Seq(Positive) /\ Join(h, d) \in Seq(Positive)
    BY <1>2, BytesJoin
  <2>2. Join(h, Join(Join(d, e), x)) = Join(Join(h, Join(d, e)), x)
    BY <1>2, <2>1, BytesJoin
  <2>3. Join(h, Join(d, e)) = Join(Join(h, d), e)
    BY <1>2, BytesJoin
  <2> QED
    BY <2>2, <2>3
<1>4. PICK k : k = Join(Join(h, d), e)
  OBVIOUS
<1>5. k \in Seq(Positive) /\ Join(k, x) \in Seq(Positive)
  <2>1. Join(h, d) \in Seq(Positive)
    BY <1>2, BytesJoin
  <2>2. k \in Seq(Positive)
    BY <1>4, <2>1, BytesJoin
  <2> QED
    BY <2>2, BytesJoin
<1>6. Join(Join(k, x), <<>>) = Join(k, x)
  BY <1>5, BytesJoin
<1>7. Join(Join(k, x), f2) = Join(k, Join(x, f2))
  BY <1>5, BytesJoin
<1> QED
  BY <1>1, <1>3, <1>4, <1>6, <1>7 DEF Line

LEMMA LineFill ==
    ASSUME NEW a, NEW b, NEW c, NEW d, NEW e, NEW f, NEW f2,
           a \in Seq(Positive), b \in Seq(Positive), c \in Seq(Positive), d \in Seq(Positive),
           e \in Seq(Positive), f2 \in Seq(Positive), Join(e, f2) = f
    PROVE  Line(a, b, c, d, e, f2) = Line(a, b, c, d, <<>>, f)
<1>1. PICK h : h = Join(Join(Join(a, b), c), d)
  OBVIOUS
<1>2. h \in Seq(Positive)
  <2>1. Join(a, b) \in Seq(Positive)
    BY BytesJoin
  <2>2. Join(Join(a, b), c) \in Seq(Positive)
    BY <2>1, BytesJoin
  <2> QED
    BY <1>1, <2>2, BytesJoin
<1>3. Join(Join(h, e), f2) = Join(h, Join(e, f2)) /\ Join(h, <<>>) = h
  BY <1>2, BytesJoin
<1> QED
  BY <1>1, <1>3 DEF Line

LEMMA LineTake ==
    ASSUME NEW a, NEW b, NEW c, NEW d, NEW e, NEW f, NEW x, NEW b2, NEW c2,
           a \in Seq(Positive), b \in Seq(Positive), c \in Seq(Positive), x \in Seq(Positive),
           b2 \in Seq(Positive), c2 \in Seq(Positive), Join(x, Join(b2, c2)) = Join(b, c)
    PROVE  Line(Join(a, x), b2, c2, d, e, f) = Line(a, b, c, d, e, f)
<1>1. Join(Join(a, b), c) = Join(a, Join(b, c))
  BY BytesJoin
<1>2. Join(Join(Join(a, x), b2), c2) = Join(a, Join(x, Join(b2, c2)))
  <2>1. Join(a, x) \in Seq(Positive) /\ Join(b2, c2) \in Seq(Positive)
    BY BytesJoin
  <2>2. Join(Join(Join(a, x), b2), c2) = Join(Join(a, x), Join(b2, c2))
    BY <2>1, BytesJoin
  <2>3. Join(Join(a, x), Join(b2, c2)) = Join(a, Join(x, Join(b2, c2)))
    BY <2>1, BytesJoin
  <2> QED
    BY <2>2, <2>3
<1> QED
  BY <1>1, <1>2 DEF Line

(* A cut of what a stream has, in these terms.                             *)
LEMMA CutBytes ==
    ASSUME NEW q, NEW n, q \in Seq(Positive), n \in 0 .. Len(q)
    PROVE  /\ FirstOf(n, q) \in Seq(Positive) /\ AllAfter(n, q) \in Seq(Positive)
           /\ Join(FirstOf(n, q), AllAfter(n, q)) = q
           /\ Len(FirstOf(n, q)) = n /\ Len(AllAfter(n, q)) = Len(q) - n
  BY Cut DEF Join

-----------------------------------------------------------------------------
(* The inductive invariant.  Of every side: what is between its program    *)
(* and that of its peer is what it has to send, the two engines are in     *)
(* turn and what is on the wire is in records, and the buffers are small.  *)
Flow(s) ==
    Source[s] = Line(taken[Peer(s)], bridgeOut[Peer(s)], engine[Peer(s)].app,
                     Opened(To(engine[Peer(s)], engine[s], net[s])), bridgeIn[s], unread[s])

Linkage(s) == Link(s, engine[s], engine[Peer(s)], net[Peer(s)], net[s])

Small(s) == /\ Len(engine[s].bioIn) <= Limit + ReadSize
            /\ Len(engine[s].app) <= Record /\ Len(bridgeOut[s]) <= Record

StreamsTyped ==
    /\ unread \in [Sides -> Seq(Positive)] /\ bridgeIn \in [Sides -> Seq(Positive)]
    /\ taken \in [Sides -> Seq(Positive)] /\ bridgeOut \in [Sides -> Seq(Positive)]
    /\ net \in [Sides -> Seq(Int)] /\ engine \in [Sides -> Engines]

StreamsInv ==
    StreamsTyped /\ \A s \in Sides : Linkage(s) /\ Flow(s) /\ Small(s)

LEMMA FlowIsOrder == InOrder <=> \A s \in Sides : Flow(s)
  BY DEF InOrder, Flow, Line, To, Wire, Join

LEMMA SmallIsBack == BackPressure <=> \A s \in Sides : Small(s)
  BY DEF BackPressure, Small

(* A step changes an engine and buffers of one side, s.                    *)
LEMMA StreamsStep ==
    ASSUME NEW s \in Sides, StreamsInv, StreamsTyped',
           NEW d, engine' = [engine EXCEPT ![s] = d],
           unread'[Peer(s)] = unread[Peer(s)], bridgeIn'[Peer(s)] = bridgeIn[Peer(s)],
           taken'[Peer(s)] = taken[Peer(s)], bridgeOut'[Peer(s)] = bridgeOut[Peer(s)],
           Link(s, d, engine[Peer(s)], net'[Peer(s)], net'[s]),
           Source[s] = Line(taken[Peer(s)], bridgeOut[Peer(s)], engine[Peer(s)].app,
                            Opened(To(engine[Peer(s)], d, net'[s])), bridgeIn'[s], unread'[s]),
           Source[Peer(s)] = Line(taken'[s], bridgeOut'[s], d.app,
                                  Opened(To(d, engine[Peer(s)], net'[Peer(s)])),
                                  bridgeIn[Peer(s)], unread[Peer(s)]),
           Len(d.bioIn) <= Limit + ReadSize, Len(d.app) <= Record, Len(bridgeOut'[s]) <= Record
    PROVE  StreamsInv'
<1> DEFINE t == Peer(s)
<1>1. t \in Sides /\ t # s /\ Peer(t) = s /\ \A u \in Sides : u = s \/ u = t
  BY PeerOf
<1> HIDE DEF t
<1>2. engine'[s] = d /\ engine'[t] = engine[t]
  BY <1>1 DEF StreamsInv, StreamsTyped
<1>3. Linkage(s)' /\ Linkage(t)'
  <2>1. Linkage(s)'
    BY <1>2 DEF Linkage, t
  <2>2. Link(t, engine'[t], engine'[s], net'[s], net'[t])
    BY <1>2, LinkPeer DEF t
  <2> QED
    BY <1>1, <2>1, <2>2 DEF Linkage
<1>4. Flow(s)' /\ Flow(t)'
  <2>1. Flow(s)'
    BY <1>2 DEF Flow, t
  <2>2. Flow(t)'
    BY <1>1, <1>2 DEF Flow, t
  <2> QED
    BY <2>1, <2>2
<1>5. Small(s)' /\ Small(t)'
  <2>1. Small(t)
    BY <1>1 DEF StreamsInv
  <2> QED
    BY <1>2, <2>1 DEF Small, t
<1> QED
  BY <1>1, <1>3, <1>4, <1>5 DEF StreamsInv

-----------------------------------------------------------------------------
(* Nothing has been sent yet.                                              *)
LEMMA Nothing ==
    /\ <<>> \in Seq(Int) /\ <<>> \in Seq(Positive) /\ Len(<<>>) = 0
    /\ Join(<<>>, <<>>) = <<>> /\ Wire(<<>>, <<>>, <<>>, <<>>) = <<>> /\ Opened(<<>>) = <<>>
<1>1. <<>> \in Seq(Int) /\ <<>> \in Seq(Positive) /\ Len(<<>>) = 0
  BY EmptySeq
<1>2. <<>> \o <<>> = <<>>
  BY <1>1, ConcatEmptySeq
<1> QED
  BY <1>1, <1>2, FilterEmpty DEF Join, Wire, Opened

LEMMA InitStreams == StreamsInit => StreamsInv
<1> SUFFICES ASSUME StreamsInit PROVE StreamsInv
  OBVIOUS
<1>c. Flights \in Nat \ {0} /\ Limit \in Nat \ {0} /\ ReadSize \in Nat \ {0} /\ Record \in Nat \ {0}
      /\ Source \in [Sides -> Seq(Positive)]
  BY StreamsAssumption DEF Positive
<1>1. NewEngine \in Engines
  BY <1>c, Nothing DEF NewEngine, Engines
<1>2. StreamsTyped
  BY <1>c, <1>1, Nothing DEF StreamsInit, StreamsTyped
<1>3. \A s \in Sides : Linkage(s)
  <2>1. Carries(<<>>, 0 = 0 + 1, 0)
    <3>1. <<>> \in Seq(Chunks)
      BY EmptySeq
    <3>2. Flight(0 = 0 + 1) = <<>>
      BY DEF Flight
    <3>3. <<>> = Flight(0 = 0 + 1) \o Packed(<<>>)
      BY <3>2, PackedEmpty, Nothing DEF Join
    <3> QED
      BY ONLY <3>1, <3>3 DEF Carries
  <2>2. \A s \in Sides : Shake(s, 0, 0)
    BY <1>c DEF Shake
  <2>3. \A s \in Sides : Linked(s, 0, 0, <<>>, <<>>)
    BY <2>1, <2>2 DEF Linked
  <2>4. To(NewEngine, NewEngine, <<>>) = <<>> /\ NewEngine.flights = 0
    BY Nothing DEF To, NewEngine
  <2>5. \A s \in Sides : Link(s, NewEngine, NewEngine, <<>>, <<>>)
    BY <1>1, <2>3, <2>4, Nothing DEF Link
  <2> QED
    BY <2>5, PeerOf DEF Linkage, StreamsInit
<1>4. \A s \in Sides : Flow(s)
  <2>1. To(NewEngine, NewEngine, <<>>) = <<>> /\ NewEngine.app = <<>>
    BY Nothing DEF To, NewEngine
  <2>2. \A x \in Seq(Positive) : x = Line(<<>>, <<>>, <<>>, Opened(<<>>), <<>>, x)
    BY Nothing, BytesJoin DEF Line
  <2> QED
    BY <1>c, <2>1, <2>2, PeerOf DEF Flow, StreamsInit
<1>5. \A s \in Sides : Small(s)
  <2>1. Len(NewEngine.bioIn) = 0 /\ Len(NewEngine.app) = 0
    BY Nothing DEF NewEngine
  <2> QED
    BY <1>c, <2>1, Nothing DEF Small, StreamsInit
<1> QED
  BY <1>2, <1>3, <1>4, <1>5 DEF StreamsInv

(* What the invariant says of a side and its peer.                         *)
LEMMA StreamsOf ==
    ASSUME NEW s \in Sides, StreamsInv
    PROVE  /\ StreamsTyped /\ Peer(s) \in Sides /\ Peer(s) # s /\ Peer(Peer(s)) = s
           /\ Link(s, engine[s], engine[Peer(s)], net[Peer(s)], net[s])
           /\ Source[s] = Line(taken[Peer(s)], bridgeOut[Peer(s)], engine[Peer(s)].app,
                     Opened(To(engine[Peer(s)], engine[s], net[s])), bridgeIn[s], unread[s])
           /\ Source[Peer(s)] = Line(taken[s], bridgeOut[s], engine[s].app,
                     Opened(To(engine[s], engine[Peer(s)], net[Peer(s)])),
                     bridgeIn[Peer(s)], unread[Peer(s)])
           /\ Small(s)
<1>1. Peer(s) \in Sides /\ Peer(s) # s /\ Peer(Peer(s)) = s
  BY PeerOf
<1>2. Linkage(s) /\ Flow(s) /\ Flow(Peer(s)) /\ Small(s) /\ StreamsTyped
  BY <1>1 DEF StreamsInv
<1>3. Source[Peer(s)] = Line(taken[s], bridgeOut[s], engine[s].app,
                     Opened(To(engine[s], engine[Peer(s)], net[Peer(s)])),
                     bridgeIn[Peer(s)], unread[Peer(s)])
  BY <1>1, <1>2 DEF Flow
<1> QED
  BY <1>1, <1>2, <1>3 DEF Linkage, Flow

LEMMA OpenedTo ==
    ASSUME NEW e, NEW p, NEW in, e \in Engines, p \in Engines, in \in Seq(Int)
    PROVE  Opened(To(e, p, in)) \in Seq(Positive)
<1>1. To(e, p, in) \in Seq(Int)
  BY LinkIn
<1> QED
  BY <1>1, OpenedConcat

-----------------------------------------------------------------------------
(* transfer_data: what is received goes behind what the engine has, a      *)
(* record may be read, and the socket takes a part of what is to be sent.  *)
LEMMA TransferLink ==
    ASSUME NEW s \in Sides, NEW e, NEW p, NEW in, NEW out, Link(s, e, p, in, out),
           NEW got \in 0 .. Len(in), NEW r, r = ReadApp(s, ReadSocket(e, FirstOf(got, in))),
           NEW d, NEW z, NEW n, Sends(r, d, out, z, n)
    PROVE  /\ Link(s, d, p, AllAfter(got, in), z)
           /\ SameBytes(e, d, p, in, AllAfter(got, in), out, z)
           /\ Len(d.bioIn) <= Len(e.bioIn) + got
           /\ d.app = e.app \/ Len(d.app) <= Record
<1>1. PICK c : c = ReadSocket(e, FirstOf(got, in))
  OBVIOUS
<1>2. PICK y : y = AllAfter(got, in)
  OBVIOUS
<1>3. /\ Link(s, c, p, y, out) /\ SameBytes(e, c, p, in, y, out, out)
      /\ c.app = e.app /\ Len(c.bioIn) = Len(e.bioIn) + got
  <2>1. got \in 0 .. Len(in)
    OBVIOUS
  <2> QED
    BY <1>1, <1>2, <2>1, ReceiveLink
<1>4. Link(s, c, p, y, out)
  BY <1>3
<1>5. Reads(s, c, r, p.flights, Before(c, p, out), Behind(p, y))
  BY <1>1, <1>4, ReadLink
<1>6. /\ Link(s, r, p, y, out) /\ SameBytes(c, r, p, y, y, out, out)
      /\ Len(r.bioIn) <= Len(c.bioIn) /\ (r.app = c.app \/ Len(r.app) <= Record)
  BY <1>4, <1>5, TurnLink
<1>7. Link(s, r, p, y, out)
  BY <1>6
<1>9. /\ Link(s, d, p, y, z) /\ SameBytes(r, d, p, y, y, out, z)
      /\ d.app = r.app /\ d.bioIn = r.bioIn
  BY <1>7, WriteLink
<1>10. SameBytes(e, d, p, in, y, out, z)
  BY <1>3, <1>6, <1>9 DEF SameBytes
<1>11. Len(d.bioIn) <= Len(e.bioIn) + got
  BY <1>3, <1>6, <1>9
<1>12. d.app = e.app \/ Len(d.app) <= Record
  BY <1>3, <1>6, <1>9
<1> QED
  BY <1>2, <1>9, <1>10, <1>11, <1>12

LEMMA ReceivedBound ==
    ASSUME NEW e, NEW q, e.bioIn \in Seq(Int), q \in Seq(Int), NEW got \in Received(e, q)
    PROVE  /\ got \in 0 .. Len(q)
           /\ got = 0 \/ (Len(e.bioIn) <= Limit /\ got <= ReadSize)
<1>1. ReadSize \in Nat /\ Len(q) \in Nat
  BY StreamsAssumption, LenProperties
<1> QED
  BY <1>1 DEF Received, TakesMore, Smaller

LEMMA SendableBound ==
    ASSUME NEW e, NEW q, e.waiting \in Seq(Int), e.bioOut \in Seq(Int), NEW n \in Sendable(e, q),
           q \in Seq(Int)
    PROVE  n \in 0 .. Len(e.waiting) + Len(e.bioOut)
<1>1. Len(q) \in Nat /\ Cap \in Nat /\ Len(e.waiting) \in Nat /\ Len(e.bioOut) \in Nat
  BY StreamsAssumption, LenProperties
<1>2. n \in 0 .. Len(e.waiting) + Len(e.bioOut)
  <2>1. \A a, b, c, m \in Nat : n \in (IF Smaller(a + b, c - m) = 0 THEN {0} ELSE 1 .. Smaller(a + b, c - m))
            => n \in 0 .. a + b
    BY DEF Smaller
  <2>2. n \in (IF Smaller(Len(e.waiting) + Len(e.bioOut), Cap - Len(q)) = 0 THEN {0}
               ELSE 1 .. Smaller(Len(e.waiting) + Len(e.bioOut), Cap - Len(q)))
    BY DEF Sendable
  <2> QED
    BY <1>1, <2>1, <2>2
<1> QED
  BY <1>2

LEMMA TransferStep ==
    ASSUME NEW s \in Sides, StreamsInv, TransferData(s) PROVE StreamsInv'
<1> DEFINE t == Peer(s)
           e == engine[s]
           p == engine[t]
           in == net[t]
           out == net[s]
<1>0. /\ StreamsTyped /\ t \in Sides /\ t # s
      /\ Link(s, e, p, in, out) /\ Small(s)
      /\ Source[s] = Line(taken[t], bridgeOut[t], p.app,
                     Opened(To(p, e, out)), bridgeIn[s], unread[s])
      /\ Source[t] = Line(taken[s], bridgeOut[s], e.app,
                     Opened(To(e, p, in)), bridgeIn[t], unread[t])
  BY StreamsOf
<1>a. Link(s, e, p, in, out)
  BY <1>0
<1>b. /\ e \in Engines /\ p \in Engines /\ in \in Seq(Int) /\ out \in Seq(Int)
      /\ e.bioIn \in Seq(Int) /\ e.app \in Seq(Positive)
  BY <1>a DEF Link, Engines
<1>1. PICK got \in Received(e, in) :
        LET read == ReadApp(s, ReadSocket(e, FirstOf(got, in)))
        IN  \E n \in Sendable(read, out) :
                /\ engine' = [engine EXCEPT ![s] = WriteSocket(read, n)]
                /\ net' = [net EXCEPT ![t] = AllAfter(got, @),
                                      ![s] = @ \o FirstOf(n, read.waiting \o read.bioOut)]
                /\ UNCHANGED <<unread, bridgeIn, bridgeOut, taken>>
  BY DEF TransferData
<1>2. PICK r : r = ReadApp(s, ReadSocket(e, FirstOf(got, in)))
  OBVIOUS
<1>3. PICK n \in Sendable(r, out) :
        /\ engine' = [engine EXCEPT ![s] = WriteSocket(r, n)]
        /\ net' = [net EXCEPT ![t] = AllAfter(got, @),
                              ![s] = @ \o FirstOf(n, r.waiting \o r.bioOut)]
        /\ UNCHANGED <<unread, bridgeIn, bridgeOut, taken>>
  BY <1>1, <1>2
<1>4. PICK d : d = WriteSocket(r, n)
  OBVIOUS
<1>5. PICK z : z = Join(out, FirstOf(n, Join(r.waiting, r.bioOut)))
  OBVIOUS
<1>6. got \in 0 .. Len(in) /\ (got = 0 \/ (Len(e.bioIn) <= Limit /\ got <= ReadSize))
  BY <1>b, ReceivedBound
<1>7. PICK y : y = AllAfter(got, in)
  OBVIOUS
<1>8. r \in Engines
  <2>1. got \in 0 .. Len(in)
    BY <1>6
  <2>2. PICK c : c = ReadSocket(e, FirstOf(got, in))
    OBVIOUS
  <2>3. Link(s, c, p, y, out)
    BY <1>a, <1>7, <2>1, <2>2, ReceiveLink
  <2>4. Reads(s, c, r, p.flights, Before(c, p, out), Behind(p, y))
    BY <1>2, <2>2, <2>3, ReadLink
  <2> QED
    BY <2>4 DEF Reads, InTurn
<1>9. n \in 0 .. Len(r.waiting) + Len(r.bioOut)
  <2>1. r.waiting \in Seq(Int) /\ r.bioOut \in Seq(Int)
    BY <1>8 DEF Engines
  <2> QED
    BY <1>b, <2>1, SendableBound
<1>10. /\ Link(s, d, p, y, z) /\ SameBytes(e, d, p, in, y, out, z)
       /\ Len(d.bioIn) <= Len(e.bioIn) + got
       /\ d.app = e.app \/ Len(d.app) <= Record
  <2>1. got \in 0 .. Len(in)
    BY <1>6
  <2>2. Sends(r, d, out, z, n)
    BY <1>4, <1>5, <1>9 DEF Sends
  <2> QED
    BY <1>a, <1>2, <1>7, <2>1, <2>2, TransferLink
<1>11. /\ d \in Engines /\ y \in Seq(Int) /\ z \in Seq(Int)
       /\ d.app \in Seq(Positive)
  <2>1. d \in Engines /\ y \in Seq(Int) /\ z \in Seq(Int)
    BY <1>10 DEF Link
  <2> QED
    BY <2>1 DEF Engines
<1>12. /\ engine' = [engine EXCEPT ![s] = d]
       /\ net'[t] = y /\ net'[s] = z
       /\ net' \in [Sides -> Seq(Int)] /\ engine' \in [Sides -> Engines]
       /\ UNCHANGED <<unread, bridgeIn, bridgeOut, taken>>
  <2>1. net \in [Sides -> Seq(Int)] /\ engine \in [Sides -> Engines]
    BY <1>0 DEF StreamsTyped
  <2>2. net' = [net EXCEPT ![t] = y, ![s] = z]
    BY <1>0, <1>3, <1>5, <1>7 DEF Join
  <2> QED
    BY <1>0, <1>3, <1>4, <1>11, <2>1, <2>2
<1>13. StreamsTyped'
  BY <1>0, <1>12 DEF StreamsTyped
<1>14. Source[s] = Line(taken[t], bridgeOut[t], p.app, Opened(To(p, d, z)), bridgeIn[s], unread[s])
  BY <1>0, <1>10 DEF SameBytes
<1>15. Source[t] = Line(taken[s], bridgeOut[s], d.app, Opened(To(d, p, y)), bridgeIn[t], unread[t])
  <2>1. Join(d.app, Opened(To(d, p, y))) = Join(e.app, Opened(To(e, p, in)))
    BY <1>10 DEF SameBytes
  <2>2. Opened(To(d, p, y)) \in Seq(Positive) /\ Opened(To(e, p, in)) \in Seq(Positive)
    BY <1>b, <1>11, OpenedTo
  <2>3. taken[s] \in Seq(Positive) /\ bridgeOut[s] \in Seq(Positive)
    BY <1>0 DEF StreamsTyped
  <2> QED
    BY <1>0, <1>b, <1>11, <2>1, <2>2, <2>3, LineRead
<1>16. Len(d.bioIn) <= Limit + ReadSize /\ Len(d.app) <= Record /\ Len(bridgeOut[s]) <= Record
  <2>1. Limit \in Nat /\ ReadSize \in Nat /\ Len(d.bioIn) \in Nat /\ Len(e.bioIn) \in Nat
    BY <1>b, <1>11, StreamsAssumption, LenProperties DEF Engines
  <2>2. Len(e.bioIn) <= Limit + ReadSize /\ Len(e.app) <= Record /\ Len(bridgeOut[s]) <= Record
    BY <1>0 DEF Small
  <2>3. Len(d.bioIn) <= Limit + ReadSize
    BY <1>6, <1>10, <2>1, <2>2
  <2> QED
    BY <1>10, <2>2, <2>3
<1>17. /\ Link(s, d, engine[Peer(s)], net'[Peer(s)], net'[s])
       /\ Source[s] = Line(taken[Peer(s)], bridgeOut[Peer(s)], engine[Peer(s)].app,
                            Opened(To(engine[Peer(s)], d, net'[s])), bridgeIn'[s], unread'[s])
       /\ Source[Peer(s)] = Line(taken'[s], bridgeOut'[s], d.app,
                                  Opened(To(d, engine[Peer(s)], net'[Peer(s)])),
                                  bridgeIn[Peer(s)], unread[Peer(s)])
       /\ Len(d.bioIn) <= Limit + ReadSize /\ Len(d.app) <= Record /\ Len(bridgeOut'[s]) <= Record
       /\ unread'[Peer(s)] = unread[Peer(s)] /\ bridgeIn'[Peer(s)] = bridgeIn[Peer(s)]
       /\ taken'[Peer(s)] = taken[Peer(s)] /\ bridgeOut'[Peer(s)] = bridgeOut[Peer(s)]
  BY <1>10, <1>12, <1>14, <1>15, <1>16
<1>18. engine' = [engine EXCEPT ![s] = d]
  BY <1>12
<1> HIDE DEF t, e, p, in, out
<1> QED
  BY <1>13, <1>17, <1>18, StreamsStep

-----------------------------------------------------------------------------
(* DataStreamBridge::move_data to the engine: the handshake goes on, and   *)
(* the buffer and what the stream gives are written, if it is done.        *)
LEMMA WrittenTwice ==
    ASSUME NEW e, e \in Engines, NEW a, NEW b
    PROVE  [e EXCEPT !.bioOut = @ \o Records(a) \o Records(b)] = Written(Written(e, a), b)
<1>1. PICK x : x = e.bioOut \o Records(a)
  OBVIOUS
<1>2. PICK y : y = x \o Records(b)
  OBVIOUS
<1>3. Written(e, a) = [e EXCEPT !.bioOut = x]
  BY <1>1 DEF Written
<1>4. PICK c : c = [e EXCEPT !.bioOut = x]
  OBVIOUS
<1>5. c.bioOut = x
  BY <1>4 DEF Engines
<1>6. Written(c, b) = [c EXCEPT !.bioOut = y]
  BY <1>2, <1>5 DEF Written
<1>7. [e EXCEPT !.bioOut = @ \o Records(a) \o Records(b)] = [e EXCEPT !.bioOut = y]
  BY <1>1, <1>2
<1>8. [c EXCEPT !.bioOut = y] = [e EXCEPT !.bioOut = y]
  BY <1>4 DEF Engines
<1> QED
  BY <1>3, <1>4, <1>6, <1>7, <1>8

LEMMA ReadyLink ==
    ASSUME NEW s \in Sides, NEW e, NEW p, NEW in, NEW out, Link(s, e, p, in, out),
           NEW d, d = Handshake(s, e)
    PROVE  /\ Link(s, d, p, in, out) /\ SameBytes(e, d, p, in, in, out, out)
           /\ d.app = e.app /\ Len(d.bioIn) <= Len(e.bioIn)
<1>1. Reads(s, e, d, p.flights, Before(e, p, out), Behind(p, in)) /\ d.app = e.app
  BY HandshakeLink
<1>2. Reads(s, e, d, p.flights, Before(e, p, out), Behind(p, in))
  BY <1>1
<1>3. Link(s, d, p, in, out) /\ SameBytes(e, d, p, in, in, out, out) /\ Len(d.bioIn) <= Len(e.bioIn)
  BY <1>2, TurnLink
<1> QED
  BY <1>1, <1>3

LEMMA FeedLink ==
    ASSUME NEW s \in Sides, NEW e, NEW p, NEW in, NEW out, Link(s, e, p, in, out),
           NEW h, h = Handshake(s, e), Established(h),
           NEW a \in Seq(Positive), NEW b \in Seq(Positive),
           NEW d, d = Written(Written(h, a), b)
    PROVE  /\ Link(s, d, p, in, out)
           /\ d.app = e.app /\ Len(d.bioIn) <= Len(e.bioIn)
           /\ Join(d.app, Opened(To(d, p, in))) = Join(e.app, Opened(To(e, p, in)))
           /\ Opened(To(p, d, out)) = Join(Join(Opened(To(p, e, out)), a), b)
<1>1. /\ Link(s, h, p, in, out) /\ SameBytes(e, h, p, in, in, out, out)
      /\ h.app = e.app /\ Len(h.bioIn) <= Len(e.bioIn)
  BY ReadyLink
<1>2. Link(s, h, p, in, out) /\ h \in Engines
  BY <1>1 DEF Link
<1>3. PICK c : c = Written(h, a)
  OBVIOUS
<1>4. d = Written(c, b)
  BY <1>3
<1>5. /\ Link(s, c, p, in, out) /\ Established(c)
      /\ c.app = h.app /\ c.bioIn = h.bioIn /\ To(c, p, in) = To(h, p, in)
      /\ Opened(To(p, c, out)) = Join(Opened(To(p, h, out)), a)
  BY <1>2, <1>3, RecordsLink
<1>6. Link(s, c, p, in, out) /\ Established(c)
  BY <1>5
<1>7. /\ Link(s, d, p, in, out)
      /\ d.app = c.app /\ d.bioIn = c.bioIn /\ To(d, p, in) = To(c, p, in)
      /\ Opened(To(p, d, out)) = Join(Opened(To(p, c, out)), b)
  BY <1>4, <1>6, RecordsLink
<1>8. /\ Join(h.app, Opened(To(h, p, in))) = Join(e.app, Opened(To(e, p, in)))
      /\ Opened(To(p, h, out)) = Opened(To(p, e, out))
  BY <1>1 DEF SameBytes
<1>9. d.app = e.app /\ Len(d.bioIn) <= Len(e.bioIn)
  BY <1>1, <1>5, <1>7
<1>10. Join(d.app, Opened(To(d, p, in))) = Join(e.app, Opened(To(e, p, in)))
  BY <1>5, <1>7, <1>8
<1>11. Opened(To(p, d, out)) = Join(Join(Opened(To(p, e, out)), a), b)
  BY <1>5, <1>7, <1>8
<1> QED
  BY <1>7, <1>9, <1>10, <1>11

LEMMA FeedStep ==
    ASSUME NEW s \in Sides, StreamsInv, Feed(s) PROVE StreamsInv'
<1> DEFINE t == Peer(s)
           e == engine[s]
           p == engine[t]
           in == net[t]
           out == net[s]
           a == bridgeIn[s]
           q == unread[s]
<1>0. /\ StreamsTyped /\ t \in Sides /\ t # s
      /\ Link(s, e, p, in, out) /\ Small(s)
      /\ Source[s] = Line(taken[t], bridgeOut[t], p.app, Opened(To(p, e, out)), a, q)
      /\ Source[t] = Line(taken[s], bridgeOut[s], e.app,
                     Opened(To(e, p, in)), bridgeIn[t], unread[t])
  BY StreamsOf
<1>a. Link(s, e, p, in, out)
  BY <1>0
<1>b. /\ e \in Engines /\ p \in Engines /\ in \in Seq(Int) /\ out \in Seq(Int)
      /\ e.bioIn \in Seq(Int) /\ e.app \in Seq(Positive) /\ p.app \in Seq(Positive)
  BY <1>a DEF Link, Engines
<1>c. /\ a \in Seq(Positive) /\ q \in Seq(Positive)
      /\ taken[s] \in Seq(Positive) /\ taken[t] \in Seq(Positive)
      /\ bridgeOut[s] \in Seq(Positive) /\ bridgeOut[t] \in Seq(Positive)
      /\ Opened(To(e, p, in)) \in Seq(Positive) /\ Opened(To(p, e, out)) \in Seq(Positive)
  <2>1. Opened(To(e, p, in)) \in Seq(Positive) /\ Opened(To(p, e, out)) \in Seq(Positive)
    BY <1>b, OpenedTo
  <2> QED
    BY <1>0, <2>1 DEF StreamsTyped
<1>1. PICK n \in 0 .. Len(q) : MoveIn(s, n)
  BY DEF Feed
<1>2. PICK h : h = Handshake(s, e)
  OBVIOUS
<1>3. UNCHANGED <<net, bridgeOut, taken>>
  BY <1>1 DEF MoveIn
<1>n. n \in 0 .. Len(q) /\ Len(q) \in Nat
  BY <1>c, LenProperties
(* What is left is that the engine, the bridge and the stream, d, a2 and   *)
(* q2, have the same bytes in the same order.                              *)
<1>s. ASSUME NEW d, NEW a2, NEW q2,
             engine' = [engine EXCEPT ![s] = d],
             bridgeIn' = [bridgeIn EXCEPT ![s] = a2], unread' = [unread EXCEPT ![s] = q2],
             a2 \in Seq(Positive), q2 \in Seq(Positive),
             Link(s, d, p, in, out), d.app = e.app, Len(d.bioIn) <= Len(e.bioIn),
             Join(d.app, Opened(To(d, p, in))) = Join(e.app, Opened(To(e, p, in))),
             Line(taken[t], bridgeOut[t], p.app, Opened(To(p, d, out)), a2, q2)
                 = Line(taken[t], bridgeOut[t], p.app, Opened(To(p, e, out)), a, q)
      PROVE  StreamsInv'
  <2>1. d \in Engines /\ d.app \in Seq(Positive) /\ d.bioIn \in Seq(Int)
    BY <1>s DEF Link, Engines
  <2>2. StreamsTyped'
    BY <1>0, <1>3, <1>s, <2>1 DEF StreamsTyped
  <2>3. Source[t] = Line(taken[s], bridgeOut[s], d.app, Opened(To(d, p, in)), bridgeIn[t], unread[t])
    <3>1. Opened(To(d, p, in)) \in Seq(Positive)
      BY <1>b, <2>1, OpenedTo
    <3>2. Line(taken[s], bridgeOut[s], d.app, Opened(To(d, p, in)), bridgeIn[t], unread[t])
            = Line(taken[s], bridgeOut[s], e.app, Opened(To(e, p, in)), bridgeIn[t], unread[t])
      BY <1>b, <1>c, <1>s, <2>1, <3>1, LineRead
    <3> QED
      BY <1>0, <3>2
  <2>4. Len(d.bioIn) <= Limit + ReadSize /\ Len(d.app) <= Record /\ Len(bridgeOut[s]) <= Record
    <3>1. Limit \in Nat /\ ReadSize \in Nat /\ Len(d.bioIn) \in Nat /\ Len(e.bioIn) \in Nat
      BY <1>b, <2>1, StreamsAssumption, LenProperties
    <3> QED
      BY <1>0, <1>s, <3>1 DEF Small
  <2>5. /\ Link(s, d, engine[Peer(s)], net'[Peer(s)], net'[s])
        /\ Source[s] = Line(taken[Peer(s)], bridgeOut[Peer(s)], engine[Peer(s)].app,
                            Opened(To(engine[Peer(s)], d, net'[s])), bridgeIn'[s], unread'[s])
        /\ Source[Peer(s)] = Line(taken'[s], bridgeOut'[s], d.app,
                                  Opened(To(d, engine[Peer(s)], net'[Peer(s)])),
                                  bridgeIn[Peer(s)], unread[Peer(s)])
        /\ Len(d.bioIn) <= Limit + ReadSize /\ Len(d.app) <= Record /\ Len(bridgeOut'[s]) <= Record
        /\ unread'[Peer(s)] = unread[Peer(s)] /\ bridgeIn'[Peer(s)] = bridgeIn[Peer(s)]
        /\ taken'[Peer(s)] = taken[Peer(s)] /\ bridgeOut'[Peer(s)] = bridgeOut[Peer(s)]
    <3>1. /\ bridgeIn'[s] = a2 /\ unread'[s] = q2
          /\ bridgeIn'[t] = bridgeIn[t] /\ unread'[t] = unread[t]
      BY <1>0, <1>s DEF StreamsTyped
    <3> QED
      BY <1>0, <1>3, <1>s, <2>3, <2>4, <3>1
  <2>6. engine' = [engine EXCEPT ![s] = d]
    BY <1>s
  <2> HIDE DEF t, e, p, in, out, a, q
  <2> QED
    BY <2>2, <2>5, <2>6, StreamsStep
<1>4. CASE Established(h)
  <2>1. PICK d : d = Written(Written(h, a), FirstOf(n, q))
    OBVIOUS
  <2>2. PICK x : x = FirstOf(n, q)
    OBVIOUS
  <2>3. PICK y : y = AllAfter(n, q)
    OBVIOUS
  <2>4. x \in Seq(Positive) /\ y \in Seq(Positive) /\ Join(x, y) = q
    BY <1>c, <1>n, <2>2, <2>3, CutBytes
  <2>5. /\ engine' = [engine EXCEPT ![s] = d]
        /\ bridgeIn' = [bridgeIn EXCEPT ![s] = <<>>] /\ unread' = [unread EXCEPT ![s] = y]
    <3>1. /\ engine' = [engine EXCEPT ![s] =
                       [h EXCEPT !.bioOut = @ \o Records(a) \o Records(FirstOf(n, q))]]
          /\ bridgeIn' = [bridgeIn EXCEPT ![s] = <<>>] /\ unread' = [unread EXCEPT ![s] = y]
      BY <1>1, <1>2, <1>4, <2>3 DEF MoveIn
    <3>2. Link(s, h, p, in, out)
      BY <1>a, <1>2, ReadyLink
    <3>3. h \in Engines
      BY <3>2 DEF Link
    <3>4. [h EXCEPT !.bioOut = @ \o Records(a) \o Records(FirstOf(n, q))] = d
      <4>1. [h EXCEPT !.bioOut = @ \o Records(a) \o Records(FirstOf(n, q))]
                = Written(Written(h, a), FirstOf(n, q))
        <5>1. PICK f : f = FirstOf(n, q)
          OBVIOUS
        <5>2. PICK a1 : a1 = a
          OBVIOUS
        <5>3. [h EXCEPT !.bioOut = @ \o Records(a1) \o Records(f)] = Written(Written(h, a1), f)
          BY ONLY <3>3, WrittenTwice
        <5> QED
          BY <5>1, <5>2, <5>3, Zenon
      <4> QED
        BY <2>1, <4>1, Zenon
    <3> QED
      BY <3>1, <3>4
  <2>6. /\ Link(s, d, p, in, out)
        /\ d.app = e.app /\ Len(d.bioIn) <= Len(e.bioIn)
        /\ Join(d.app, Opened(To(d, p, in))) = Join(e.app, Opened(To(e, p, in)))
        /\ Opened(To(p, d, out)) = Join(Join(Opened(To(p, e, out)), a), x)
    <3>1. d = Written(Written(h, a), x)
      BY <2>1, <2>2
    <3> QED
      BY <1>a, <1>c, <1>2, <1>4, <2>4, <3>1, FeedLink
  <2>7. Line(taken[t], bridgeOut[t], p.app, Opened(To(p, d, out)), <<>>, y)
            = Line(taken[t], bridgeOut[t], p.app, Opened(To(p, e, out)), a, q)
    <3>1. PICK k : k = Opened(To(p, e, out))
      OBVIOUS
    <3>2. Line(taken[t], bridgeOut[t], p.app, Join(Join(k, a), x), <<>>, y)
              = Line(taken[t], bridgeOut[t], p.app, k, a, q)
      <4>1. k \in Seq(Positive) /\ p.app \in Seq(Positive)
        BY <1>b, <1>c, <3>1
      <4> HIDE DEF p, e, t, a, q
      <4> QED
        BY <1>c, <2>4, <4>1, LineWrite
    <3> QED
      BY <2>6, <3>1, <3>2
  <2>8. <<>> \in Seq(Positive)
    BY EmptySeq
  <2> QED
    BY <1>s, <2>4, <2>5, <2>6, <2>7, <2>8
<1>5. CASE ~Established(h)
  <2>1. /\ Link(s, h, p, in, out) /\ SameBytes(e, h, p, in, in, out, out)
        /\ h.app = e.app /\ Len(h.bioIn) <= Len(e.bioIn)
    BY <1>a, <1>2, ReadyLink
  <2>2. /\ Join(h.app, Opened(To(h, p, in))) = Join(e.app, Opened(To(e, p, in)))
        /\ Opened(To(p, h, out)) = Opened(To(p, e, out))
    BY <2>1 DEF SameBytes
  <2>3. engine' = [engine EXCEPT ![s] = h]
    BY <1>1, <1>2, <1>5 DEF MoveIn
  <2>4. CASE a # <<>>
    <3>1. UNCHANGED <<bridgeIn, unread>>
      BY <1>1, <1>2, <1>5, <2>4 DEF MoveIn
    <3>2. bridgeIn' = [bridgeIn EXCEPT ![s] = a] /\ unread' = [unread EXCEPT ![s] = q]
      BY <1>0, <3>1 DEF StreamsTyped
    <3>3. Line(taken[t], bridgeOut[t], p.app, Opened(To(p, h, out)), a, q)
            = Line(taken[t], bridgeOut[t], p.app, Opened(To(p, e, out)), a, q)
      BY <2>2
    <3> QED
      BY <1>s, <1>c, <2>1, <2>2, <2>3, <3>2, <3>3
  <2>5. CASE a = <<>>
    <3>1. PICK m : m = Smaller(Chunk, n)
      OBVIOUS
    <3>2. m \in 0 .. Len(q)
      BY <1>n, <3>1, StreamsAssumption DEF Smaller
    <3>3. PICK x : x = FirstOf(m, q)
      OBVIOUS
    <3>4. PICK y : y = AllAfter(m, q)
      OBVIOUS
    <3>5. x \in Seq(Positive) /\ y \in Seq(Positive) /\ Join(x, y) = q
      BY <1>c, <3>2, <3>3, <3>4, CutBytes
    <3>6. bridgeIn' = [bridgeIn EXCEPT ![s] = x] /\ unread' = [unread EXCEPT ![s] = y]
      BY <1>1, <1>2, <1>5, <2>5, <3>1, <3>3, <3>4 DEF MoveIn
    <3>7. Line(taken[t], bridgeOut[t], p.app, Opened(To(p, h, out)), x, y)
            = Line(taken[t], bridgeOut[t], p.app, Opened(To(p, e, out)), a, q)
      BY <1>b, <1>c, <2>2, <2>5, <3>5, LineFill
    <3> QED
      BY <1>s, <2>1, <2>2, <2>3, <3>5, <3>6, <3>7
  <2> QED
    BY <2>4, <2>5
<1> QED
  BY <1>4, <1>5

-----------------------------------------------------------------------------
(* DataStreamBridge::move_data from the engine: what the stream takes, x,  *)
(* what is left in the bridge, b2, and in the engine, c2.                  *)
Takes(b, c, n, x, b2, c2) ==
    LET front == IF b = <<>> THEN c ELSE b IN
    /\ n \in 0 .. Len(front)
    /\ x = FirstOf(n, front)
    /\ b2 = IF n = Len(front) /\ b # <<>> /\ c # <<>> THEN c ELSE AllAfter(n, front)
    /\ c2 = IF b = <<>> \/ n = Len(front) THEN <<>> ELSE c

LEMMA TakenFront ==
    ASSUME NEW b, NEW c, NEW n, NEW x, NEW b2, NEW c2, Takes(b, c, n, x, b2, c2),
           b \in Seq(Positive), c \in Seq(Positive), Len(b) <= Record, Len(c) <= Record
    PROVE  /\ x \in Seq(Positive) /\ b2 \in Seq(Positive) /\ c2 \in Seq(Positive)
           /\ Join(x, Join(b2, c2)) = Join(b, c)
           /\ Len(b2) <= Record /\ Len(c2) <= Record
<1> DEFINE front == IF b = <<>> THEN c ELSE b
           y == AllAfter(n, front)
<1>0. /\ n \in 0 .. Len(front)
      /\ x = FirstOf(n, front)
      /\ b2 = IF n = Len(front) /\ b # <<>> /\ c # <<>> THEN c ELSE AllAfter(n, front)
      /\ c2 = IF b = <<>> \/ n = Len(front) THEN <<>> ELSE c
  BY DEF Takes
<1>1. /\ <<>> \in Seq(Positive) /\ Len(<<>>) = 0 /\ Record \in Nat
      /\ Len(b) \in Nat /\ Len(c) \in Nat
      /\ \A u \in Seq(Positive) : Len(u) = 0 => u = <<>>
  BY EmptySeq, LenProperties, StreamsAssumption
<1>2. front \in Seq(Positive) /\ n \in 0 .. Len(front)
  BY <1>0
<1>3. /\ x \in Seq(Positive) /\ y \in Seq(Positive) /\ Join(x, y) = front
      /\ Len(y) = Len(front) - n
  <2>1. x = FirstOf(n, front)
    BY <1>0
  <2> HIDE DEF front
  <2> QED
    BY <1>2, <2>1, CutBytes
<1>4. CASE b = <<>>
  <2>1. b2 = y /\ c2 = <<>> /\ front = c
    BY <1>0, <1>4
  <2> HIDE DEF front, y
  <2>2. Join(x, Join(y, <<>>)) = Join(b, c)
    BY <1>3, <1>4, <2>1, BytesJoin
  <2>3. Len(y) <= Record
    BY <1>1, <1>2, <1>3, <2>1
  <2> QED
    BY <1>1, <1>3, <2>1, <2>2, <2>3
<1>5. CASE b # <<>> /\ n = Len(b)
  <2>1. front = b /\ c2 = <<>> /\ b2 = (IF c # <<>> THEN c ELSE y)
    BY <1>0, <1>5
  <2> HIDE DEF front, y
  <2>2. Len(y) = 0 /\ y = <<>>
    BY <1>1, <1>3, <1>5, <2>1
  <2>3. x = b
    BY <1>3, <2>1, <2>2, BytesJoin
  <2>4. b2 = c
    BY <2>1, <2>2
  <2>5. Join(b, Join(c, <<>>)) = Join(b, c)
    BY BytesJoin
  <2> QED
    BY <1>1, <2>1, <2>3, <2>4, <2>5
<1>6. CASE b # <<>> /\ n # Len(b)
  <2>1. front = b /\ c2 = c /\ b2 = y
    BY <1>0, <1>6
  <2> HIDE DEF front, y
  <2>2. Join(x, Join(y, c)) = Join(b, c)
    BY <1>3, <2>1, BytesJoin
  <2>3. Len(y) <= Record
    BY <1>1, <1>2, <1>3, <2>1
  <2> QED
    BY <1>1, <1>3, <2>1, <2>2, <2>3
<1> QED
  BY <1>4, <1>5, <1>6

LEMMA MoveOutStep ==
    ASSUME NEW s \in Sides, StreamsInv, MoveOut(s) PROVE StreamsInv'
<1> DEFINE t == Peer(s)
           e == engine[s]
           p == engine[t]
           in == net[t]
           out == net[s]
           b == bridgeOut[s]
           c == e.app
           front == IF b = <<>> THEN c ELSE b
<1>0. /\ StreamsTyped /\ t \in Sides /\ t # s
      /\ Link(s, e, p, in, out) /\ Small(s)
      /\ Source[s] = Line(taken[t], bridgeOut[t], p.app,
                     Opened(To(p, e, out)), bridgeIn[s], unread[s])
      /\ Source[t] = Line(taken[s], b, c, Opened(To(e, p, in)), bridgeIn[t], unread[t])
  BY StreamsOf
<1>a. Link(s, e, p, in, out)
  BY <1>0
<1>b. /\ e \in Engines /\ p \in Engines /\ in \in Seq(Int) /\ out \in Seq(Int)
      /\ e.bioIn \in Seq(Int) /\ c \in Seq(Positive) /\ p.app \in Seq(Positive)
  BY <1>a DEF Link, Engines
<1>c. taken[s] \in Seq(Positive) /\ b \in Seq(Positive)
  BY <1>0 DEF StreamsTyped
<1>1. PICK n \in 0 .. Len(front) :
          /\ taken' = [taken EXCEPT ![s] = @ \o FirstOf(n, front)]
          /\ IF n = Len(front) /\ b # <<>> /\ c # <<>>
             THEN bridgeOut' = [bridgeOut EXCEPT ![s] = c]
             ELSE bridgeOut' = [bridgeOut EXCEPT ![s] = AllAfter(n, front)]
          /\ engine' = IF b = <<>> \/ n = Len(front)
                       THEN [engine EXCEPT ![s].app = <<>>] ELSE engine
          /\ UNCHANGED <<unread, bridgeIn, net>>
  BY DEF MoveOut
<1>2. PICK x : x = FirstOf(n, front)
  OBVIOUS
<1>3. PICK b2 : b2 = IF n = Len(front) /\ b # <<>> /\ c # <<>> THEN c ELSE AllAfter(n, front)
  OBVIOUS
<1>4. PICK c2 : c2 = IF b = <<>> \/ n = Len(front) THEN <<>> ELSE c
  OBVIOUS
<1>5. /\ x \in Seq(Positive) /\ b2 \in Seq(Positive) /\ c2 \in Seq(Positive)
      /\ Join(x, Join(b2, c2)) = Join(b, c)
      /\ Len(b2) <= Record /\ Len(c2) <= Record
  <2>1. Len(b) <= Record /\ Len(c) <= Record
    BY <1>0 DEF Small
  <2>2. Takes(b, c, n, x, b2, c2)
    BY <1>2, <1>3, <1>4 DEF Takes
  <2> QED
    BY <1>b, <1>c, <2>1, <2>2, TakenFront
<1>6. bridgeOut' = [bridgeOut EXCEPT ![s] = b2]
  BY <1>1, <1>3
<1>7. PICK d : d = [e EXCEPT !.app = c2]
  OBVIOUS
<1>8. engine' = [engine EXCEPT ![s] = d]
  <2>1. engine \in [Sides -> Engines]
    BY <1>0 DEF StreamsTyped
  <2>2. CASE b = <<>> \/ n = Len(front)
    BY <1>1, <1>4, <1>7, <2>2
  <2>3. CASE ~(b = <<>> \/ n = Len(front))
    <3>1. engine' = engine /\ c2 = c
      BY <1>1, <1>4, <2>3
    <3>2. d = e
      BY <1>b, <1>7, <3>1 DEF Engines
    <3> QED
      BY <2>1, <3>1, <3>2
  <2> QED
    BY <2>2, <2>3
<1>9. PICK a2 : a2 = Join(taken[s], x)
  OBVIOUS
<1>10. taken' = [taken EXCEPT ![s] = a2] /\ a2 \in Seq(Positive)
  <2>1. taken' = [taken EXCEPT ![s] = a2]
    BY <1>1, <1>2, <1>9 DEF Join
  <2>2. a2 \in Seq(Positive)
    BY <1>c, <1>5, <1>9, BytesJoin
  <2> QED
    BY <2>1, <2>2
<1>11. /\ Link(s, d, p, in, out) /\ d.app = c2 /\ d.bioIn = e.bioIn
       /\ To(d, p, in) = To(e, p, in) /\ To(p, d, out) = To(p, e, out)
  BY <1>a, <1>5, <1>7, AppLink
<1>u. UNCHANGED <<unread, bridgeIn, net>>
  BY <1>1
<1>12. StreamsTyped'
  <2>1. d \in Engines
    BY <1>11 DEF Link
  <2> QED
    BY <1>0, <1>u, <1>5, <1>6, <1>8, <1>10, <2>1 DEF StreamsTyped
<1>13. Source[t] = Line(a2, b2, d.app, Opened(To(d, p, in)), bridgeIn[t], unread[t])
  <2>1. Line(Join(taken[s], x), b2, c2, Opened(To(e, p, in)), bridgeIn[t], unread[t])
            = Line(taken[s], b, c, Opened(To(e, p, in)), bridgeIn[t], unread[t])
    <3>1. c \in Seq(Positive)
      BY <1>b
    <3> HIDE DEF e, p, t, in, out, b, c, front
    <3> QED
      BY <1>c, <1>5, <3>1, LineTake
  <2> QED
    BY <1>0, <1>9, <1>11, <2>1
<1>14. /\ bridgeOut'[s] = b2 /\ taken'[s] = a2
       /\ bridgeOut'[t] = bridgeOut[t] /\ taken'[t] = taken[t]
  BY <1>0, <1>6, <1>10 DEF StreamsTyped
<1>15. Len(d.bioIn) <= Limit + ReadSize /\ Len(d.app) <= Record
  BY <1>0, <1>5, <1>11 DEF Small
<1>16. Source[s] = Line(taken[t], bridgeOut[t], p.app, Opened(To(p, d, out)), bridgeIn[s], unread[s])
  BY <1>0, <1>11
<1>17. /\ Link(s, d, engine[Peer(s)], net'[Peer(s)], net'[s])
       /\ Source[s] = Line(taken[Peer(s)], bridgeOut[Peer(s)], engine[Peer(s)].app,
                            Opened(To(engine[Peer(s)], d, net'[s])), bridgeIn'[s], unread'[s])
       /\ Source[Peer(s)] = Line(taken'[s], bridgeOut'[s], d.app,
                                  Opened(To(d, engine[Peer(s)], net'[Peer(s)])),
                                  bridgeIn[Peer(s)], unread[Peer(s)])
       /\ Len(bridgeOut'[s]) <= Record
       /\ unread'[Peer(s)] = unread[Peer(s)] /\ bridgeIn'[Peer(s)] = bridgeIn[Peer(s)]
       /\ taken'[Peer(s)] = taken[Peer(s)] /\ bridgeOut'[Peer(s)] = bridgeOut[Peer(s)]
  BY <1>u, <1>5, <1>11, <1>13, <1>14, <1>16
<1> HIDE DEF t, e, p, in, out, b, c, front
<1> QED
  BY <1>8, <1>12, <1>15, <1>17, StreamsStep

-----------------------------------------------------------------------------
LEMMA StreamsInductive == StreamsInv /\ [StreamsNext]_streamVars => StreamsInv'
<1> SUFFICES ASSUME StreamsInv, [StreamsNext]_streamVars PROVE StreamsInv'
  OBVIOUS
<1>1. CASE UNCHANGED streamVars
  <2>1. /\ unread' = unread /\ bridgeIn' = bridgeIn /\ engine' = engine
        /\ net' = net /\ bridgeOut' = bridgeOut /\ taken' = taken
    BY <1>1 DEF streamVars
  <2> QED
    BY <2>1 DEF StreamsInv, StreamsTyped, Linkage, Flow, Small
<1>2. CASE StreamsNext
  <2>1. PICK s \in Sides : TransferData(s) \/ Feed(s) \/ MoveOut(s)
    BY <1>2 DEF StreamsNext
  <2> QED
    BY <2>1, TransferStep, FeedStep, MoveOutStep
<1> QED
  BY <1>1, <1>2

LEMMA StreamsAlways == StreamsSpec => []StreamsInv
<1>1. StreamsInit => StreamsInv
  BY InitStreams
<1>2. StreamsInv /\ [StreamsNext]_streamVars => StreamsInv'
  BY StreamsInductive
<1> QED
  BY <1>1, <1>2, PTL DEF StreamsSpec

(* What a program takes, what is on its way to it through seven buffers    *)
(* and what its peer has yet to give are always what the peer sends, in    *)
(* order and once: for all that is sent, all sizes of chunks, records and  *)
(* reads, all limits and every number of flights of the handshake          *)
(* (AsyncSSL.cpp:88-167, Data.cpp:111-122).                                *)
THEOREM InOrderHolds == StreamsSpec => []InOrder
<1>1. StreamsInv => InOrder
  BY FlowIsOrder DEF StreamsInv
<1> QED
  BY <1>1, StreamsAlways, PTL

(* However much the peer sends, an engine keeps at most one read over the  *)
(* limit, and it and the bridge a record each that the program has not     *)
(* taken (AsyncSSL.cpp:126,139).                                           *)
THEOREM BackPressureHolds == StreamsSpec => []BackPressure
<1>1. StreamsInv => BackPressure
  BY SmallIsBack DEF StreamsInv
<1> QED
  BY <1>1, StreamsAlways, PTL

-----------------------------------------------------------------------------
(* Data.  The bytes that a position and a size show of a block, and what   *)
(* writing over a block does to them.                                      *)
Octets == 0 .. 255
Refs == [impl : Impls, position : Nat, size : Nat]

(* The bytes of a part of a block.                                         *)
Shown(c, p, n) == SubSeq(c, p + 1, p + n)

Shows(s, c, p, n) ==
    s \in Seq(Octets) /\ Len(s) = n /\ \A i \in 1 .. n : s[i] = c[p + i]

LEMMA ShownBytes ==
    ASSUME NEW c, NEW p, NEW n, c \in Seq(Octets), p \in Nat, n \in Nat, p + n <= Len(c)
    PROVE  Shows(Shown(c, p, n), c, p, n)
<1>1. Len(c) \in Nat /\ \A i \in 1 .. Len(c) : c[i] \in Octets
  BY LenProperties
<1>2. PICK l : l = p + 1
  OBVIOUS
<1>3. PICK h : h = p + n
  OBVIOUS
<1>4. l \in Int /\ h \in Int /\ \A i \in l .. h : c[i] \in Octets
  BY <1>1, <1>2, <1>3
<1>5. /\ SubSeq(c, l, h) \in Seq(Octets)
      /\ Len(SubSeq(c, l, h)) = IF l <= h THEN h - l + 1 ELSE 0
      /\ \A i \in 1 .. h - l + 1 : SubSeq(c, l, h)[i] = c[l + i - 1]
  BY <1>4, SubSeqProperties
<1>6. (IF l <= h THEN h - l + 1 ELSE 0) = n /\ h - l + 1 = n
      /\ \A i \in 1 .. n : l + i - 1 = p + i
  BY <1>2, <1>3
<1>7. Shown(c, p, n) = SubSeq(c, l, h)
  BY <1>2, <1>3 DEF Shown
<1> QED
  BY <1>5, <1>6, <1>7 DEF Shows

(* A part of a part.                                                       *)
LEMMA ShownPart ==
    ASSUME NEW c \in Seq(Octets), NEW p \in Nat, NEW n \in Nat, p + n <= Len(c),
           NEW q \in 0 .. n, NEW m \in 0 .. n - q
    PROVE  Shown(c, p + q, m) = FirstOf(m, AllAfter(q, Shown(c, p, n)))
<1>1. Len(c) \in Nat /\ p + q \in Nat /\ m \in Nat /\ p + q + m <= Len(c) /\ n - q \in Nat
  BY LenProperties
<1>2. Shows(Shown(c, p + q, m), c, p + q, m)
  BY <1>1, ShownBytes
<1>3. PICK s : s = Shown(c, p, n)
  OBVIOUS
<1>4. s \in Seq(Octets) /\ Len(s) = n /\ \A i \in 1 .. n : s[i] = c[p + i]
  <2>1. Shows(s, c, p, n)
    BY <1>3, ShownBytes
  <2> QED
    BY <2>1 DEF Shows
<1>5. PICK t : t = AllAfter(q, s)
  OBVIOUS
<1>6. t = Shown(s, q, n - q)
  <2>1. q + (n - q) = n
    OBVIOUS
  <2> QED
    BY <1>4, <1>5, <2>1 DEF AllAfter, Shown
<1>7. /\ t \in Seq(Octets) /\ Len(t) = n - q /\ \A i \in 1 .. n - q : t[i] = s[q + i]
  <2>1. PICK k : k = n - q
    OBVIOUS
  <2>2. k \in Nat /\ q \in Nat /\ q + k <= Len(s)
    BY <1>1, <1>4, <2>1
  <2>3. Shows(Shown(s, q, k), s, q, k)
    BY <1>4, <2>2, ShownBytes
  <2> QED
    BY <1>6, <2>1, <2>3 DEF Shows
<1>8. PICK u : u = FirstOf(m, t)
  OBVIOUS
<1>9. u = Shown(t, 0, m)
  BY <1>8 DEF FirstOf, Shown
<1>10. /\ u \in Seq(Octets) /\ Len(u) = m /\ \A i \in 1 .. m : u[i] = t[0 + i]
  <2>1. 0 \in Nat /\ m \in Nat /\ 0 + m <= Len(t)
    BY <1>1, <1>7
  <2>2. Shows(u, t, 0, m)
    BY <1>7, <1>9, <2>1, ShownBytes
  <2> QED
    BY <2>2 DEF Shows
<1>11. \A i \in 1 .. m : u[i] = c[p + q + i]
  <2> SUFFICES ASSUME NEW i \in 1 .. m PROVE u[i] = c[p + q + i]
    OBVIOUS
  <2>1. i \in 1 .. n - q /\ q + i \in 1 .. n /\ 0 + i = i /\ p + (q + i) = p + q + i
    BY <1>1
  <2> QED
    BY <1>4, <1>7, <1>10, <2>1
<1>12. Shown(c, p + q, m) = u
  <2>1. PICK w : w = Shown(c, p + q, m)
    OBVIOUS
  <2>2. w \in Seq(Octets) /\ Len(w) = m /\ \A i \in 1 .. m : w[i] = c[p + q + i]
    BY <1>2, <2>1 DEF Shows
  <2>3. \A i \in 1 .. Len(w) : w[i] = u[i]
    BY <1>11, <2>2
  <2> QED
    BY <1>10, <2>1, <2>2, <2>3, SeqEqual
<1> QED
  BY <1>3, <1>5, <1>8, <1>12

LEMMA ShownAll ==
    ASSUME NEW c \in Seq(Octets)
    PROVE  \A n \in 0 .. Len(c) : Shown(c, 0, n) = FirstOf(n, c)
  BY DEF Shown, FirstOf

(* Writing over a part, or over what is before it.                         *)
OverIs(s, c, p, new) ==
    /\ s \in Seq(Octets) /\ Len(s) = Len(c)
    /\ \A i \in 1 .. Len(c) : s[i] = IF i - p \in 1 .. Len(new) THEN new[i - p] ELSE c[i]
    /\ new = <<>> => s = c

LEMMA OverBytes ==
    ASSUME NEW c, NEW p, NEW new, c \in Seq(Octets), new \in Seq(Octets), p \in Nat
    PROVE  OverIs(Over(c, p, new), c, p, new)
<1>1. /\ Len(c) \in Nat /\ DOMAIN c = 1 .. Len(c) /\ \A i \in 1 .. Len(c) : c[i] \in Octets
      /\ Len(new) \in Nat /\ DOMAIN new = 1 .. Len(new) /\ \A i \in 1 .. Len(new) : new[i] \in Octets
  BY LenProperties
<1>2. Over(c, p, new) = [i \in 1 .. Len(c) |-> IF i - p \in 1 .. Len(new) THEN new[i - p] ELSE c[i]]
  BY <1>1 DEF Over
<1>3. \A i \in 1 .. Len(c) : (IF i - p \in 1 .. Len(new) THEN new[i - p] ELSE c[i]) \in Octets
  BY <1>1
<1>4. /\ Over(c, p, new) \in Seq(Octets) /\ Len(Over(c, p, new)) = Len(c)
  BY <1>1, <1>2, <1>3, IsASeq, LenProperties
<1>5. \A i \in 1 .. Len(c) :
          Over(c, p, new)[i] = IF i - p \in 1 .. Len(new) THEN new[i - p] ELSE c[i]
  BY <1>2
<1>6. new = <<>> => \A i \in 1 .. Len(c) : Over(c, p, new)[i] = c[i]
  <2>1. new = <<>> => Len(new) = 0
    BY EmptySeq
  <2> QED
    BY <1>5, <2>1
<1>7. new = <<>> => Over(c, p, new) = c
  BY <1>4, <1>5, <1>6, SeqEqual
<1> QED
  BY <1>4, <1>5, <1>7 DEF OverIs

LEMMA OverShown ==
    ASSUME NEW c, NEW new, NEW p, NEW n,
           c \in Seq(Octets), new \in Seq(Octets), p \in Nat, n \in 0 .. Len(c)
    PROVE  Shown(Over(c, p, new), 0, n) = Over(Shown(c, 0, n), p, new)
<1>1. PICK d : d = Over(c, p, new)
  OBVIOUS
<1>2. PICK s : s = Shown(c, 0, n)
  OBVIOUS
<1>3. PICK t : t = Over(s, p, new)
  OBVIOUS
<1>4. PICK u : u = Shown(d, 0, n)
  OBVIOUS
<1>5. Len(c) \in Nat /\ n \in Nat /\ 0 \in Nat /\ 0 + n <= Len(c) /\ \A i \in 1 .. n : 0 + i = i /\ i \in 1 .. Len(c)
  BY LenProperties
<1>6. /\ d \in Seq(Octets) /\ Len(d) = Len(c)
      /\ \A i \in 1 .. Len(c) : d[i] = IF i - p \in 1 .. Len(new) THEN new[i - p] ELSE c[i]
  <2>1. OverIs(d, c, p, new)
    BY <1>1, OverBytes
  <2> QED
    BY <2>1 DEF OverIs
<1>7. s \in Seq(Octets) /\ Len(s) = n /\ \A i \in 1 .. n : s[i] = c[i]
  <2>1. Shows(s, c, 0, n)
    BY <1>2, <1>5, ShownBytes
  <2> QED
    BY <1>5, <2>1 DEF Shows
<1>8. /\ t \in Seq(Octets) /\ Len(t) = n
      /\ \A i \in 1 .. n : t[i] = IF i - p \in 1 .. Len(new) THEN new[i - p] ELSE s[i]
  <2>1. OverIs(t, s, p, new)
    BY <1>3, <1>7, OverBytes
  <2> QED
    BY <1>7, <2>1 DEF OverIs
<1>9. u \in Seq(Octets) /\ Len(u) = n /\ \A i \in 1 .. n : u[i] = d[i]
  <2>1. Shows(u, d, 0, n)
    BY <1>4, <1>5, <1>6, ShownBytes
  <2> QED
    BY <1>5, <2>1 DEF Shows
<1>10. \A i \in 1 .. Len(u) : u[i] = t[i]
  BY <1>5, <1>6, <1>7, <1>8, <1>9
<1>11. u = t
  BY <1>8, <1>9, <1>10, SeqEqual
<1> QED
  BY <1>1, <1>2, <1>3, <1>4, <1>11

-----------------------------------------------------------------------------
(* The blocks: what Data::impl, a position and a size refer to, and        *)
(* SharedPtr's count of a block, which is 0 when nobody refers to it.      *)
(* There is one block more than variables and pieces, so that there always *)
(* is a new one.                                                           *)
View(b, r) == Shown(b[r.impl], r.position, r.size)
Fits(b, r) == r.position + r.size <= Len(b[r.impl])
Views(b, p) == [k \in DOMAIN p |-> View(b, p[k])]

Shares(i) == {x \in Names : data[x].impl = i}
PiecesOf(i) == {k \in DOMAIN pieces : pieces[k].impl = i}

DataTyped ==
    /\ value \in [Names -> Seq(Octets)] /\ stream \in Seq(Octets)
    /\ block \in [Impls -> Seq(Octets)] /\ data \in [Names -> Refs]
    /\ pieces \in Seq(Refs) /\ Len(pieces) <= MaxPieces
    /\ size \in Int /\ torn \in BOOLEAN

LEMMA FirstOnes == \A m \in Nat : IsFiniteSet(1 .. m) /\ Cardinality(1 .. m) = m
<1> SUFFICES ASSUME NEW m \in Nat PROVE IsFiniteSet(1 .. m) /\ Cardinality(1 .. m) = m
  OBVIOUS
<1>1. 1 \in Int /\ m \in Int /\ (IF 1 > m THEN 0 ELSE m - 1 + 1) = m
  OBVIOUS
<1> QED
  BY <1>1, FS_Interval

LEMMA CountOf ==
    ASSUME DataTyped, NEW i
    PROVE  /\ IsFiniteSet(Shares(i)) /\ IsFiniteSet(PiecesOf(i))
           /\ Cardinality(Shares(i)) \in Nat /\ Cardinality(PiecesOf(i)) \in Nat
           /\ SC(i) = Cardinality(Shares(i)) + Cardinality(PiecesOf(i))
           /\ Cardinality(Shares(i)) = 0 <=> Shares(i) = {}
           /\ Cardinality(PiecesOf(i)) = 0 <=> PiecesOf(i) = {}
<1>1. Shares(i) \subseteq Names /\ IsFiniteSet(Names)
  BY DataAssumption DEF Shares
<1>2. PiecesOf(i) \subseteq 1 .. Len(pieces) /\ IsFiniteSet(1 .. Len(pieces))
  <2>1. Len(pieces) \in Nat /\ DOMAIN pieces = 1 .. Len(pieces)
    BY LenProperties DEF DataTyped
  <2> QED
    BY <2>1, FS_Interval DEF PiecesOf
<1>3. IsFiniteSet(Shares(i)) /\ IsFiniteSet(PiecesOf(i))
  BY <1>1, <1>2, FS_Subset
<1>4. Cardinality(Shares(i)) \in Nat /\ Cardinality(PiecesOf(i)) \in Nat
  BY <1>3, FS_CardinalityType
<1>5. /\ Cardinality(Shares(i)) = 0 <=> Shares(i) = {}
      /\ Cardinality(PiecesOf(i)) = 0 <=> PiecesOf(i) = {}
  BY <1>3, FS_EmptySet
<1>6. SC(i) = Cardinality(Shares(i)) + Cardinality(PiecesOf(i))
  BY DEF SC, Shares, PiecesOf
<1> QED
  BY <1>3, <1>4, <1>5, <1>6

Free(i) == /\ \A x \in Names : data[x].impl # i
           /\ \A k \in 1 .. Len(pieces) : pieces[k].impl # i

LEMMA FreeCount ==
    ASSUME DataTyped, NEW i
    PROVE  SC(i) = 0 <=> Free(i)
<1>1. SC(i) = 0 <=> Shares(i) = {} /\ PiecesOf(i) = {}
  BY CountOf
<1>2. DOMAIN pieces = 1 .. Len(pieces)
  BY LenProperties DEF DataTyped
<1> QED
  BY <1>1, <1>2 DEF Free, Shares, PiecesOf

(* A block that x alone has.                                               *)
LEMMA AloneCount ==
    ASSUME DataTyped, NEW x \in Names
    PROVE  /\ SC(data[x].impl) # 0
           /\ ~(SC(data[x].impl) > 1) =>
                 /\ \A y \in Names : data[y].impl = data[x].impl => y = x
                 /\ \A k \in 1 .. Len(pieces) : pieces[k].impl # data[x].impl
<1> DEFINE i == data[x].impl
           S == Shares(i)
           P == PiecesOf(i)
<1>1. /\ IsFiniteSet(S) /\ IsFiniteSet(P)
      /\ Cardinality(S) \in Nat /\ Cardinality(P) \in Nat
      /\ SC(i) = Cardinality(S) + Cardinality(P)
      /\ Cardinality(S) = 0 <=> S = {}
      /\ Cardinality(P) = 0 <=> P = {}
  BY CountOf
<1>2. x \in S
  BY DEF Shares
<1>3. S # {} /\ Cardinality(S) >= 1
  BY <1>1, <1>2
<1>4. ASSUME ~(SC(i) > 1) PROVE Cardinality(S) = 1 /\ P = {}
  BY <1>1, <1>3, <1>4
<1>5. Cardinality(S) = 1 => \A y \in S : y = x
  <2> SUFFICES ASSUME Cardinality(S) = 1, NEW y \in S PROVE y = x
    OBVIOUS
  <2>1. PICK z : S = {z}
    BY <1>1, FS_Singleton
  <2> QED
    BY <1>2, <2>1
<1>6. DOMAIN pieces = 1 .. Len(pieces)
  BY LenProperties DEF DataTyped
<1>7. \A y \in Names : data[y].impl = i => y \in S
  BY DEF Shares
<1>8. \A k \in 1 .. Len(pieces) : pieces[k].impl = i => k \in P
  BY <1>6 DEF PiecesOf
<1> HIDE DEF S, P, i
<1>9. SC(i) # 0
  BY <1>1, <1>3
<1>10. ~(SC(i) > 1) => /\ \A y \in Names : data[y].impl = i => y = x
                       /\ \A k \in 1 .. Len(pieces) : pieces[k].impl # i
  BY <1>4, <1>5, <1>7, <1>8
<1> QED
  BY <1>9, <1>10 DEF i

(* There is always a new Impl.                                             *)
LEMMA NewFree ==
    ASSUME DataTyped
    PROVE  New \in Impls /\ New # 0 /\ Free(New)
<1> DEFINE U == {data[x].impl : x \in Names}
           V == {pieces[k].impl : k \in 1 .. Len(pieces)}
           W == 1 .. Cardinality(Names) + MaxPieces + 1
<1>0. /\ IsFiniteSet(Names) /\ MaxPieces \in Nat /\ Len(pieces) \in Nat
      /\ Cardinality(Names) \in Nat /\ Len(pieces) <= MaxPieces
  BY DataAssumption, FS_CardinalityType, LenProperties DEF DataTyped
<1>1. IsFiniteSet(U) /\ Cardinality(U) \in Nat /\ Cardinality(U) <= Cardinality(Names)
  <2> DEFINE f == [x \in Names |-> data[x].impl]
  <2>1. f \in Surjection(Names, U)
    BY DEF Surjection
  <2> QED
    BY <1>0, <2>1, FS_Surjection, FS_CardinalityType
<1>2. IsFiniteSet(V) /\ Cardinality(V) \in Nat /\ Cardinality(V) <= MaxPieces
  <2> DEFINE f == [k \in 1 .. Len(pieces) |-> pieces[k].impl]
  <2>1. f \in Surjection(1 .. Len(pieces), V)
    BY DEF Surjection
  <2>2. IsFiniteSet(1 .. Len(pieces)) /\ Cardinality(1 .. Len(pieces)) = Len(pieces)
    BY <1>0, FirstOnes
  <2>3. IsFiniteSet(V) /\ Cardinality(V) <= Len(pieces)
    BY <2>1, <2>2, FS_Surjection
  <2>4. Cardinality(V) \in Nat
    BY <2>3, FS_CardinalityType
  <2> QED
    BY <1>0, <2>3, <2>4
<1>3. IsFiniteSet(W) /\ Cardinality(W) = Cardinality(Names) + MaxPieces + 1
  <2>1. Cardinality(Names) + MaxPieces + 1 \in Nat
    BY <1>0
  <2> QED
    BY <2>1, FirstOnes
<1>4. \E i \in W : i \notin U /\ i \notin V
  <2> SUFFICES ASSUME W \subseteq U \cup V PROVE FALSE
    OBVIOUS
  <2> HIDE DEF U, V, W
  <2>1. IsFiniteSet(U \cup V) /\ Cardinality(U \cup V) <= Cardinality(U) + Cardinality(V)
    <3>1. /\ IsFiniteSet(U \cup V)
          /\ Cardinality(U \cup V) = Cardinality(U) + Cardinality(V) - Cardinality(U \cap V)
      BY <1>1, <1>2, FS_Union
    <3>2. U \cap V \subseteq U
      OBVIOUS
    <3>3. Cardinality(U \cap V) \in Nat
      <4>1. IsFiniteSet(U \cap V)
        BY <1>1, <3>2, FS_Subset
      <4> QED
        BY <4>1, FS_CardinalityType
    <3> QED
      BY <1>1, <1>2, <3>1, <3>3
  <2>2. Cardinality(W) <= Cardinality(U \cup V)
    BY <2>1, FS_Subset
  <2>3. Cardinality(U \cup V) \in Nat
    BY <2>1, FS_CardinalityType
  <2> QED
    BY <1>0, <1>1, <1>2, <1>3, <2>1, <2>2, <2>3
<1>5. W \subseteq Impls \ {0} /\ Impls \subseteq Nat
  BY <1>0 DEF Impls
<1> DEFINE F == {i \in Impls \ {0} : SC(i) = 0}
<1>6. F # {}
  <2>1. PICK i \in W : i \notin U /\ i \notin V
    BY <1>4
  <2>2. Free(i)
    BY <2>1 DEF Free
  <2>3. SC(i) = 0
    BY <2>2, FreeCount
  <2> QED
    BY <1>5, <2>1, <2>3
<1>7. \E i \in F : \A j \in F : i =< j
  BY <1>5, <1>6, Least
<1>8. New \in F
  <2>1. New = CHOOSE i \in F : \A j \in F : i =< j
    BY DEF New, Min
  <2> HIDE DEF F
  <2> QED
    BY <1>7, <2>1
<1>9. New \in Impls /\ New # 0 /\ SC(New) = 0
  BY <1>8
<1>10. Free(New)
  BY <1>9, FreeCount
<1> QED
  BY <1>9, <1>10

-----------------------------------------------------------------------------
(* The inductive invariant of Data: positions and sizes stay inside the    *)
(* blocks, and until somebody tore something variables are the values they *)
(* show.  Then the operations on one variable.                             *)
(* Variables v, a stream st and its size are what d and p show of b.       *)
Same(v, st, sz, d, p, b) ==
    /\ \A x \in Names : v[x] = View(b, d[x])
    /\ st = FlattenSeq(Views(b, p))
    /\ sz = Len(st)

InBlocks(d, p, b) ==
    /\ d \in [Names -> Refs] /\ p \in Seq(Refs) /\ Len(p) <= MaxPieces
    /\ b \in [Impls -> Seq(Octets)]
    /\ \A x \in Names : Fits(b, d[x])
    /\ \A k \in 1 .. Len(p) : Fits(b, p[k])

DataInv ==
    /\ InBlocks(data, pieces, block)
    /\ value \in [Names -> Seq(Octets)] /\ stream \in Seq(Octets)
    /\ size \in Int /\ torn \in BOOLEAN
    /\ ~torn => Same(value, stream, size, data, pieces, block)

LEMMA DataInvTyped == DataInv => DataTyped
  BY DEF DataInv, DataTyped, InBlocks

LEMMA ViewOf ==
    ASSUME NEW b, NEW r, b \in [Impls -> Seq(Octets)], r \in Refs, Fits(b, r)
    PROVE  View(b, r) \in Seq(Octets) /\ Len(View(b, r)) = r.size
<1>1. b[r.impl] \in Seq(Octets) /\ r.position \in Nat /\ r.size \in Nat
  BY DEF Refs
<1>2. r.position + r.size <= Len(b[r.impl])
  BY DEF Fits
<1>3. Shows(Shown(b[r.impl], r.position, r.size), b[r.impl], r.position, r.size)
  BY <1>1, <1>2, ShownBytes
<1> QED
  BY <1>3 DEF View, Shows

LEMMA ImplementsValuesOf == DataInv => ImplementsValues
<1> SUFFICES ASSUME DataInv PROVE ImplementsValues
  OBVIOUS
<1>1. DOMAIN pieces = 1 .. Len(pieces) /\ \A k \in 1 .. Len(pieces) : pieces[k] \in Refs
  <2>1. pieces \in Seq(Refs)
    BY DEF DataInv, InBlocks
  <2> QED
    BY <2>1, LenProperties
<1>2. \A r : Bytes(r) = View(block, r)
  BY DEF Bytes, View, Shown
<1>3. InBounds
  <2>1. \A x \in Names : data[x].size >= 0 /\ data[x].position + data[x].size <= Len(block[data[x].impl])
    BY DEF DataInv, InBlocks, Fits, Refs
  <2>2. \A k \in DOMAIN pieces : pieces[k].size >= 0 /\ pieces[k].position + pieces[k].size <= Len(block[pieces[k].impl])
    BY <1>1 DEF DataInv, InBlocks, Fits, Refs
  <2> QED
    BY <2>1, <2>2 DEF InBounds
<1>4. SameValues
  <2> SUFFICES ASSUME ~torn
               PROVE  /\ \A x \in Names : value[x] = Bytes(data[x])
                      /\ stream = FlattenSeq([k \in DOMAIN pieces |-> Bytes(pieces[k])])
                      /\ size = Len(stream)
    BY DEF SameValues
  <2>1. Same(value, stream, size, data, pieces, block)
    BY DEF DataInv
  <2>2. [k \in DOMAIN pieces |-> Bytes(pieces[k])] = Views(block, pieces)
    BY <1>2 DEF Views
  <2> QED
    BY <1>2, <2>1, <2>2 DEF Same
<1> QED
  BY <1>3, <1>4 DEF ImplementsValues

(* Deleting the blocks that nobody has changes nothing that is seen.       *)
LEMMA AssignKeeps ==
    ASSUME NEW nd, NEW np, NEW nb, Assign(nd, np, nb), InBlocks(nd, np, nb),
           value' \in [Names -> Seq(Octets)], stream' \in Seq(Octets),
           size' \in Int, torn' \in BOOLEAN,
           ~torn' => Same(value', stream', size', nd, np, nb)
    PROVE  DataInv'
<1> DEFINE used == {nd[x].impl : x \in Names} \cup {np[k].impl : k \in DOMAIN np}
<1>1. /\ nd \in [Names -> Refs] /\ np \in Seq(Refs) /\ nb \in [Impls -> Seq(Octets)]
      /\ DOMAIN np = 1 .. Len(np) /\ \A k \in 1 .. Len(np) : np[k] \in Refs
  <2>1. nd \in [Names -> Refs] /\ np \in Seq(Refs) /\ nb \in [Impls -> Seq(Octets)]
    BY DEF InBlocks
  <2> QED
    BY <2>1, LenProperties
<1>2. /\ data' = nd /\ pieces' = np
      /\ block' = [i \in Impls |-> IF i \in used THEN nb[i] ELSE <<>>]
  BY DEF Assign
<1>3. block' \in [Impls -> Seq(Octets)]
  BY <1>1, <1>2, EmptySeq
<1>4. /\ \A x \in Names : block'[nd[x].impl] = nb[nd[x].impl]
      /\ \A k \in 1 .. Len(np) : block'[np[k].impl] = nb[np[k].impl]
  <2>1. \A x \in Names : nd[x].impl \in used /\ nd[x].impl \in Impls
    BY <1>1 DEF Refs
  <2>2. \A k \in 1 .. Len(np) : np[k].impl \in used /\ np[k].impl \in Impls
    BY <1>1 DEF Refs
  <2> QED
    BY <1>2, <2>1, <2>2
<1>5. InBlocks(nd, np, block')
  BY <1>3, <1>4 DEF InBlocks, Fits
<1>6. Same(value', stream', size', nd, np, nb) => Same(value', stream', size', nd, np, block')
  <2>1. \A x \in Names : View(block', nd[x]) = View(nb, nd[x])
    BY <1>4 DEF View
  <2>2. \A k \in DOMAIN np : View(block', np[k]) = View(nb, np[k])
    BY <1>1, <1>4 DEF View
  <2>3. Views(block', np) = Views(nb, np)
    BY <2>2 DEF Views
  <2> QED
    BY <2>1, <2>3 DEF Same
<1> QED
  BY <1>2, <1>5, <1>6 DEF DataInv

NoValues == [x \in Names |-> <<>>]

LEMMA NothingTyped == NoValues \in [Names -> Seq(Octets)] /\ <<>> \in Seq(Octets)
  BY EmptySeq DEF NoValues

LEMMA NoDataFits ==
    ASSUME NEW b, b \in [Impls -> Seq(Octets)]
    PROVE  NoData \in Refs /\ Fits(b, NoData) /\ View(b, NoData) = <<>>
<1>1. MaxPieces \in Nat /\ Cardinality(Names) \in Nat
  BY DataAssumption, FS_CardinalityType
<1>2. 0 \in Impls
  BY <1>1 DEF Impls
<1>3. NoData \in Refs
  BY <1>2 DEF NoData, Refs
<1>4. Len(b[0]) \in Nat
  BY <1>2, LenProperties
<1>5. Fits(b, NoData)
  BY <1>4 DEF Fits, NoData
<1>6. SubSeq(b[0], 0 + 1, 0 + 0) = <<>>
  BY SubSeqEmpty
<1> QED
  BY <1>3, <1>5, <1>6 DEF View, NoData, Shown

(* x is assigned, and nothing else changes.                                *)
LEMMA BecomesKeeps ==
    ASSUME DataInv, NEW x \in Names, NEW d, NEW bytes, Becomes(x, d, bytes),
           d \in Refs, Fits(block, d), ~torn => bytes = View(block, d)
    PROVE  DataInv'
<1>1. /\ size' = size /\ torn' = torn
      /\ Assign([data EXCEPT ![x] = d], pieces, block)
      /\ IF torn THEN value' = NoValues /\ stream' = <<>>
         ELSE value' = [value EXCEPT ![x] = bytes] /\ stream' = stream
  BY DEF Becomes, Expect, Becoming, NoValues
<1>2. PICK nd : nd = [data EXCEPT ![x] = d]
  OBVIOUS
<1>3. /\ data \in [Names -> Refs] /\ block \in [Impls -> Seq(Octets)]
      /\ value \in [Names -> Seq(Octets)] /\ stream \in Seq(Octets)
      /\ size \in Int /\ torn \in BOOLEAN
  BY DEF DataInv, InBlocks
<1>4. \A y \in Names : nd[y] = IF y = x THEN d ELSE data[y]
  BY <1>2, <1>3
<1>5. InBlocks(nd, pieces, block)
  BY <1>2, <1>3, <1>4 DEF DataInv, InBlocks
<1>6. View(block, d) \in Seq(Octets)
  BY <1>3, ViewOf
<1>7. value' \in [Names -> Seq(Octets)] /\ stream' \in Seq(Octets)
  BY <1>1, <1>3, <1>6, NothingTyped
<1>8. ~torn' => Same(value', stream', size', nd, pieces, block)
  BY <1>1, <1>3, <1>4 DEF DataInv, Same
<1> QED
  BY <1>1, <1>2, <1>3, <1>5, <1>7, <1>8, AssignKeeps

LEMMA CopyKeeps ==
    ASSUME DataInv, NEW x \in Names, NEW y \in Names, Copy(x, y)
    PROVE  DataInv'
<1>1. Becomes(x, data[y], value[y])
  BY DEF Copy
<1>2. data[y] \in Refs /\ Fits(block, data[y]) /\ (~torn => value[y] = View(block, data[y]))
  BY DEF DataInv, InBlocks, Same
<1> QED
  BY <1>1, <1>2, BecomesKeeps

LEMMA ClearKeeps ==
    ASSUME DataInv, NEW x \in Names, Clear(x)
    PROVE  DataInv'
<1>1. Becomes(x, NoData, <<>>)
  BY DEF Clear
<1>2. block \in [Impls -> Seq(Octets)]
  BY DEF DataInv, InBlocks
<1> QED
  BY <1>1, <1>2, NoDataFits, BecomesKeeps

(* A part of what a variable or a piece shows.                             *)
MayCut(b, r, pos, n) ==
    /\ b \in [Impls -> Seq(Octets)] /\ r \in Refs /\ Fits(b, r)
    /\ pos \in 0 .. r.size /\ n \in Nat

IsCut(b, r, pos, n, q) ==
    /\ q \in Refs /\ Fits(b, q)
    /\ q.size = Smaller(n, r.size - pos)
    /\ q.impl = r.impl /\ q.position = r.position + pos
    /\ View(b, q) = FirstOf(Smaller(n, r.size - pos), AllAfter(pos, View(b, r)))

LEMMA PartShows ==
    ASSUME NEW b, NEW r, NEW pos, NEW n, MayCut(b, r, pos, n)
    PROVE  IsCut(b, r, pos, n, Part(r, pos, n))
<1>0. /\ b \in [Impls -> Seq(Octets)] /\ r \in Refs /\ Fits(b, r)
      /\ pos \in 0 .. r.size /\ n \in Nat
  BY DEF MayCut
<1>1. /\ b[r.impl] \in Seq(Octets) /\ r.position \in Nat /\ r.size \in Nat
      /\ r.impl \in Impls /\ r.position + r.size <= Len(b[r.impl]) /\ Len(b[r.impl]) \in Nat
  BY <1>0, LenProperties DEF Refs, Fits
<1>2. PICK m : m = Smaller(n, r.size - pos)
  OBVIOUS
<1>3. m \in 0 .. r.size - pos /\ m \in Nat
  BY <1>0, <1>1, <1>2 DEF Smaller
<1>4. PICK q : q = Part(r, pos, n)
  OBVIOUS
<1>5. q = [r EXCEPT !.position = r.position + pos, !.size = m]
  BY <1>2, <1>4 DEF Part
<1>6. q \in Refs /\ q.impl = r.impl /\ q.position = r.position + pos /\ q.size = m
  <2>1. PICK a : a = r.position + pos
    OBVIOUS
  <2>2. a \in Nat
    BY <1>0, <1>1, <2>1
  <2>3. q = [r EXCEPT !.position = a, !.size = m]
    BY <1>5, <2>1
  <2> QED
    BY <1>0, <1>3, <2>1, <2>2, <2>3 DEF Refs
<1>7. Fits(b, q)
  BY <1>0, <1>1, <1>3, <1>6 DEF Fits
<1>8. Shown(b[r.impl], r.position + pos, m)
          = FirstOf(m, AllAfter(pos, Shown(b[r.impl], r.position, r.size)))
  <2>1. PICK c : c = b[r.impl]
    OBVIOUS
  <2>2. PICK p : p = r.position
    OBVIOUS
  <2>3. PICK k : k = r.size
    OBVIOUS
  <2>4. c \in Seq(Octets) /\ p \in Nat /\ k \in Nat /\ p + k <= Len(c) /\ pos \in 0 .. k /\ m \in 0 .. k - pos
    BY <1>0, <1>1, <1>3, <2>1, <2>2, <2>3
  <2>5. Shown(c, p + pos, m) = FirstOf(m, AllAfter(pos, Shown(c, p, k)))
    BY <2>4, ShownPart
  <2> QED
    BY <2>1, <2>2, <2>3, <2>5
<1>9. View(b, q) = FirstOf(m, AllAfter(pos, View(b, r)))
  BY <1>6, <1>8 DEF View
<1> QED
  BY <1>2, <1>4, <1>6, <1>7, <1>9 DEF IsCut

LEMMA SliceKeeps ==
    ASSUME DataInv, NEW x \in Names, NEW y \in Names, NEW pos, NEW n, Slice(x, y, pos, n), n \in Nat
    PROVE  DataInv'
<1>1. /\ pos \in 0 .. data[y].size
      /\ Becomes(x, Part(data[y], pos, n),
                 FirstOf(Smaller(n, Len(value[y]) - pos), AllAfter(pos, value[y])))
  BY DEF Slice, HasPosition
<1>2. /\ data[y] \in Refs /\ Fits(block, data[y]) /\ block \in [Impls -> Seq(Octets)]
      /\ ~torn => value[y] = View(block, data[y])
  BY DEF DataInv, InBlocks, Same
<1>3. PICK d : d = Part(data[y], pos, n)
  OBVIOUS
<1>4. /\ d \in Refs /\ Fits(block, d)
      /\ View(block, d) = FirstOf(Smaller(n, data[y].size - pos), AllAfter(pos, View(block, data[y])))
  <2>1. MayCut(block, data[y], pos, n)
    BY <1>1, <1>2 DEF MayCut
  <2>2. IsCut(block, data[y], pos, n, d)
    BY <1>3, <2>1, PartShows
  <2> QED
    BY <2>2 DEF IsCut
<1>5. PICK v : v = FirstOf(Smaller(n, Len(value[y]) - pos), AllAfter(pos, value[y]))
  OBVIOUS
<1>6. ~torn => v = View(block, d)
  <2> SUFFICES ASSUME ~torn PROVE v = View(block, d)
    OBVIOUS
  <2>1. value[y] = View(block, data[y]) /\ Len(View(block, data[y])) = data[y].size
    BY <1>2, ViewOf
  <2>2. Len(value[y]) = data[y].size
    BY <2>1
  <2> QED
    BY <1>4, <1>5, <2>1, <2>2
<1> QED
  BY <1>1, <1>3, <1>4, <1>5, <1>6, BecomesKeeps

LEMMA GetByteKeeps ==
    ASSUME DataInv, NEW x \in Names, GetByte(x)
    PROVE  DataInv'
<1> DEFINE r == data[x]
<1>1. /\ r.size # 0
      /\ Becomes(x, [r EXCEPT !.position = @ + 1, !.size = @ - 1], AllAfter(1, value[x]))
  BY DEF GetByte, Empty
<1>2. /\ r \in Refs /\ Fits(block, r) /\ block \in [Impls -> Seq(Octets)]
      /\ ~torn => value[x] = View(block, r)
  BY DEF DataInv, InBlocks, Same
<1>3. r.size \in Nat /\ 1 \in 0 .. r.size /\ r.size - 1 \in Nat
  BY <1>1, <1>2 DEF Refs
<1>4. PICK n : n = r.size - 1
  OBVIOUS
<1>5. PICK d : d = Part(r, 1, n)
  OBVIOUS
<1>6. /\ d \in Refs /\ Fits(block, d)
      /\ View(block, d) = FirstOf(Smaller(n, r.size - 1), AllAfter(1, View(block, r)))
  <2>1. MayCut(block, r, 1, n)
    BY <1>2, <1>3, <1>4 DEF MayCut
  <2>2. IsCut(block, r, 1, n, d)
    BY <1>5, <2>1, PartShows
  <2> QED
    BY <2>2 DEF IsCut
<1>7. Smaller(n, r.size - 1) = n
  BY <1>4 DEF Smaller
<1>8. d = [r EXCEPT !.position = @ + 1, !.size = @ - 1]
  BY <1>4, <1>5, <1>7 DEF Part
<1>9. ~torn => AllAfter(1, value[x]) = View(block, d)
  <2> SUFFICES ASSUME ~torn PROVE AllAfter(1, value[x]) = View(block, d)
    OBVIOUS
  <2>1. PICK v : v = View(block, r)
    OBVIOUS
  <2>2. v \in Seq(Octets) /\ Len(v) = r.size
    BY <1>2, <2>1, ViewOf
  <2>3. AllAfter(1, v) \in Seq(Octets) /\ Len(AllAfter(1, v)) = n
    BY <1>3, <1>4, <2>2, Cut
  <2>4. FirstOf(n, AllAfter(1, v)) = AllAfter(1, v)
    BY <2>3, SubSeqFull DEF FirstOf
  <2> QED
    BY <1>2, <1>6, <1>7, <2>1, <2>4
<1>10. Becomes(x, d, AllAfter(1, value[x]))
  BY <1>1, <1>8
<1> HIDE DEF r
<1> QED
  BY <1>6, <1>9, <1>10, BecomesKeeps

-----------------------------------------------------------------------------
(* What writes to a block: it is a new one, or one that nobody else has,   *)
(* or somebody tears something.                                            *)
(* Nothing but x is in the block i, which gets the bytes c, and x shows d. *)
LEMMA OthersKeep ==
    ASSUME DataInv, NEW x \in Names, NEW i, NEW c, NEW d, NEW nd, NEW nb,
           i \in Impls, c \in Seq(Octets), d \in Refs,
           nb = [block EXCEPT ![i] = c], nd = [data EXCEPT ![x] = d], Fits(nb, d),
           \A y \in Names : data[y].impl = i => y = x,
           \A k \in 1 .. Len(pieces) : pieces[k].impl # i
    PROVE  /\ InBlocks(nd, pieces, nb)
           /\ ~torn => Same([value EXCEPT ![x] = View(nb, d)], stream, size, nd, pieces, nb)
<1>1. /\ data \in [Names -> Refs] /\ block \in [Impls -> Seq(Octets)]
      /\ value \in [Names -> Seq(Octets)] /\ pieces \in Seq(Refs)
      /\ \A y \in Names : Fits(block, data[y])
      /\ \A k \in 1 .. Len(pieces) : Fits(block, pieces[k])
      /\ Len(pieces) <= MaxPieces
  BY DEF DataInv, InBlocks
<1>2. DOMAIN pieces = 1 .. Len(pieces) /\ \A k \in 1 .. Len(pieces) : pieces[k] \in Refs
  BY <1>1, LenProperties
<1>3. nb \in [Impls -> Seq(Octets)] /\ nd \in [Names -> Refs]
  BY <1>1
<1>4. \A y \in Names : y # x => nd[y] = data[y] /\ nb[data[y].impl] = block[data[y].impl]
  <2>1. \A y \in Names : data[y].impl \in Impls
    BY <1>1 DEF Refs
  <2> QED
    BY <1>1, <2>1
<1>5. nd[x] = d
  BY <1>1
<1>6. \A k \in 1 .. Len(pieces) : nb[pieces[k].impl] = block[pieces[k].impl]
  <2>1. \A k \in 1 .. Len(pieces) : pieces[k].impl \in Impls
    BY <1>2 DEF Refs
  <2> QED
    BY <1>1, <2>1
<1>7. \A y \in Names : Fits(nb, nd[y])
  BY <1>1, <1>4, <1>5 DEF Fits
<1>8. \A k \in 1 .. Len(pieces) : Fits(nb, pieces[k])
  BY <1>1, <1>6 DEF Fits
<1>9. InBlocks(nd, pieces, nb)
  BY <1>1, <1>3, <1>7, <1>8 DEF InBlocks
<1>10. ASSUME ~torn
       PROVE  Same([value EXCEPT ![x] = View(nb, d)], stream, size, nd, pieces, nb)
  <2>1. Same(value, stream, size, data, pieces, block)
    BY <1>10 DEF DataInv
  <2>2. PICK v : v = [value EXCEPT ![x] = View(nb, d)]
    OBVIOUS
  <2>3. \A y \in Names : v[y] = View(nb, nd[y])
    <3> SUFFICES ASSUME NEW y \in Names PROVE v[y] = View(nb, nd[y])
      OBVIOUS
    <3>1. CASE y = x
      BY <1>1, <1>5, <2>2, <3>1
    <3>2. CASE y # x
      <4>1. v[y] = value[y] /\ value[y] = View(block, data[y])
        BY <1>1, <2>1, <2>2, <3>2 DEF Same
      <4>2. View(nb, nd[y]) = View(block, data[y])
        BY <1>4, <3>2 DEF View
      <4> QED
        BY <4>1, <4>2
    <3> QED
      BY <3>1, <3>2
  <2>4. \A k \in DOMAIN pieces : View(nb, pieces[k]) = View(block, pieces[k])
    BY <1>2, <1>6 DEF View
  <2>5. Views(nb, pieces) = Views(block, pieces)
    BY <2>4 DEF Views
  <2> QED
    BY <2>1, <2>2, <2>3, <2>5 DEF Same
<1> QED
  BY <1>9, <1>10

LEMMA FillKeeps ==
    ASSUME DataInv, NEW x \in Names, NEW c, NEW n, Fill(x, c, n),
           c \in Seq(Octets), n \in 0 .. Len(c)
    PROVE  /\ DataInv'
           /\ data' = [data EXCEPT ![x] = [impl |-> New, position |-> 0, size |-> n]]
           /\ pieces' = pieces /\ Bytes(data[x])' = FirstOf(n, c)
<1> DEFINE d == [impl |-> New, position |-> 0, size |-> n]
<1>1. New \in Impls /\ New # 0 /\ Free(New)
  BY DataInvTyped, NewFree
<1>2. Len(c) \in Nat /\ n \in Nat /\ n <= Len(c)
  BY LenProperties
<1>3. Part([impl |-> New, position |-> 0, size |-> Len(c)], 0, n) = d
  <2>1. Smaller(n, Len(c) - 0) = n
    BY <1>2 DEF Smaller
  <2>2. PICK r : r = [impl |-> New, position |-> 0, size |-> Len(c)]
    OBVIOUS
  <2>3. r.position + 0 = 0 /\ r.size = Len(c)
    BY <2>2
  <2>4. Part(r, 0, n) = [r EXCEPT !.position = 0, !.size = n]
    BY <2>1, <2>3 DEF Part
  <2> QED
    BY <2>2, <2>4
<1>4. PICK nb : nb = [block EXCEPT ![New] = c]
  OBVIOUS
<1>5. PICK nd : nd = [data EXCEPT ![x] = d]
  OBVIOUS
<1>6. /\ size' = size /\ torn' = torn
      /\ Assign(nd, pieces, nb)
      /\ IF torn THEN value' = NoValues /\ stream' = <<>>
         ELSE value' = [value EXCEPT ![x] = FirstOf(n, c)] /\ stream' = stream
  BY <1>3, <1>4, <1>5 DEF Fill, Expect, Becoming, NoValues
<1>7. /\ data \in [Names -> Refs] /\ block \in [Impls -> Seq(Octets)]
      /\ value \in [Names -> Seq(Octets)] /\ stream \in Seq(Octets)
      /\ size \in Int /\ torn \in BOOLEAN
  BY DEF DataInv, InBlocks
<1>8. d \in Refs /\ nb[New] = c /\ Fits(nb, d)
  BY <1>1, <1>2, <1>4, <1>7 DEF Refs, Fits
<1>9. View(nb, d) = FirstOf(n, c)
  BY <1>2, <1>8, ShownAll DEF View
<1>10. FirstOf(n, c) \in Seq(Octets)
  BY Cut
<1>11. /\ InBlocks(nd, pieces, nb)
       /\ ~torn => Same([value EXCEPT ![x] = View(nb, d)], stream, size, nd, pieces, nb)
  <2>1. /\ \A y \in Names : data[y].impl = New => y = x
        /\ \A k \in 1 .. Len(pieces) : pieces[k].impl # New
    BY <1>1 DEF Free
  <2> HIDE DEF d
  <2> QED
    BY <1>1, <1>4, <1>5, <1>8, <2>1, OthersKeep
<1> HIDE DEF d
<1>12. value' \in [Names -> Seq(Octets)] /\ stream' \in Seq(Octets)
  BY <1>6, <1>7, <1>10, NothingTyped
<1>13. ~torn' => Same(value', stream', size', nd, pieces, nb)
  BY <1>6, <1>9, <1>11
<1>14. DataInv'
  BY <1>6, <1>7, <1>11, <1>12, <1>13, AssignKeeps
<1>15. data' = nd /\ pieces' = pieces /\ block'[New] = c
  <2>1. nd[x].impl = New
    BY <1>5, <1>7 DEF d
  <2> QED
    BY <1>1, <1>4, <1>6, <1>8, <2>1 DEF Assign
<1>16. Bytes(data[x])' = View(nb, d)
  <2>1. data'[x] = d /\ d.impl = New
    BY <1>5, <1>7, <1>15 DEF d
  <2>2. Bytes(data[x])' = SubSeq(block'[New], d.position + 1, d.position + d.size)
    BY <2>1 DEF Bytes
  <2> QED
    BY <1>8, <1>15, <2>1, <2>2 DEF View, Shown
<1> QED
  BY <1>5, <1>9, <1>14, <1>15, <1>16 DEF d

(* x is written over, from pos on.                                         *)
LEMMA WriteLockedKeeps ==
    ASSUME DataInv, NEW x \in Names, NEW pos, NEW new, WriteLocked(x, pos, new),
           pos \in Nat, new \in Seq(Octets)
    PROVE  DataInv' /\ data' = data /\ pieces' = pieces
<1> DEFINE r == data[x]
           i == r.impl
           c == Over(block[i], pos, new)
           nb == [block EXCEPT ![i] = c]
<1>1. /\ SC(i) # 0
      /\ ~(SC(i) > 1) => /\ \A y \in Names : data[y].impl = i => y = x
                         /\ \A k \in 1 .. Len(pieces) : pieces[k].impl # i
  BY DataInvTyped, AloneCount
<1>2. Locked(x) = [data |-> r, block |-> block]
  BY <1>1 DEF Locked, IsTheOne
<1>3. /\ data \in [Names -> Refs] /\ block \in [Impls -> Seq(Octets)]
      /\ value \in [Names -> Seq(Octets)] /\ stream \in Seq(Octets)
      /\ pieces \in Seq(Refs) /\ Len(pieces) <= MaxPieces
      /\ size \in Int /\ torn \in BOOLEAN
      /\ \A y \in Names : Fits(block, data[y])
      /\ \A k \in 1 .. Len(pieces) : Fits(block, pieces[k])
  BY DEF DataInv, InBlocks
<1>4. i \in Impls /\ r \in Refs /\ block[i] \in Seq(Octets)
  BY <1>3 DEF Refs
<1>5. OverIs(c, block[i], pos, new)
  BY <1>4, OverBytes
<1>6. c \in Seq(Octets) /\ Len(c) = Len(block[i]) /\ (new = <<>> => c = block[i])
  BY <1>5 DEF OverIs
<1>7. /\ size' = size
      /\ torn' = (torn \/ (new # <<>> /\ (SC(i) > 1 \/ r.position # 0)))
      /\ Assign(data, pieces, nb)
      /\ IF torn' THEN value' = NoValues /\ stream' = <<>>
         ELSE value' = [value EXCEPT ![x] = Over(value[x], pos, new)] /\ stream' = stream
  <2>1. [data EXCEPT ![x] = r] = data
    BY <1>3
  <2>2. Assign([data EXCEPT ![x] = r], pieces, nb)
    BY <1>2 DEF WriteLocked
  <2> QED
    BY <1>2, <2>1, <2>2 DEF WriteLocked, Expect, Becoming, NoValues
<1> HIDE DEF c
<1>8. nb \in [Impls -> Seq(Octets)] /\ \A j \in Impls : Len(nb[j]) = Len(block[j])
  BY <1>3, <1>4, <1>6
<1> HIDE DEF nb
<1>9. InBlocks(data, pieces, nb)
  <2>1. \A y \in Names : Fits(nb, data[y])
    BY <1>3, <1>8 DEF Fits, Refs
  <2>2. \A k \in 1 .. Len(pieces) : pieces[k] \in Refs
    BY <1>3, LenProperties
  <2>3. \A k \in 1 .. Len(pieces) : Fits(nb, pieces[k])
    BY <1>3, <1>8, <2>2 DEF Fits, Refs
  <2> QED
    BY <1>3, <1>8, <2>1, <2>3 DEF InBlocks
<1>10. torn' \in BOOLEAN
  BY <1>7
<1>11. OverIs(Over(value[x], pos, new), value[x], pos, new)
  BY <1>3, OverBytes
<1>12. value' \in [Names -> Seq(Octets)] /\ stream' \in Seq(Octets)
  BY <1>3, <1>7, <1>11, NothingTyped DEF OverIs
<1>13. ASSUME ~torn' PROVE Same(value', stream', size', data, pieces, nb)
  <2>1. /\ ~torn /\ (new = <<>> \/ (~(SC(i) > 1) /\ r.position = 0))
        /\ value' = [value EXCEPT ![x] = Over(value[x], pos, new)] /\ stream' = stream
    BY <1>7, <1>13
  <2>2. Same(value, stream, size, data, pieces, block)
    BY <2>1 DEF DataInv
  <2>3. CASE new = <<>>
    <3>1. nb = block
      BY <1>3, <1>4, <1>6, <2>3 DEF nb
    <3>2. value' = value
      BY <1>3, <1>11, <2>1, <2>3 DEF OverIs
    <3> QED
      BY <1>7, <2>1, <2>2, <3>1, <3>2
  <2>4. CASE new # <<>>
    <3>1. ~(SC(i) > 1) /\ r.position = 0
      BY <2>1, <2>4
    <3>2. data = [data EXCEPT ![x] = r]
      BY <1>3
    <3>3. Fits(nb, r)
      BY <1>9 DEF InBlocks
    <3>4. Same([value EXCEPT ![x] = View(nb, r)], stream, size, data, pieces, nb)
      <4>1. nb = [block EXCEPT ![i] = c]
        BY DEF nb
      <4>2. /\ \A y \in Names : data[y].impl = i => y = x
            /\ \A k \in 1 .. Len(pieces) : pieces[k].impl # i
        BY <1>1, <3>1
      <4> HIDE DEF r, i
      <4> QED
        BY <1>4, <1>6, <2>1, <3>2, <3>3, <4>1, <4>2, OthersKeep
    <3>5. View(nb, r) = Over(value[x], pos, new)
      <4>1. r.size \in 0 .. Len(block[i])
        <5>1. r.position + r.size <= Len(block[i]) /\ r.size \in Nat
          BY <1>3, <1>4 DEF Fits, Refs
        <5> QED
          BY <3>1, <5>1
      <4>2. PICK b : b = block[i]
        OBVIOUS
      <4>3. PICK n : n = r.size
        OBVIOUS
      <4>4. Shown(Over(b, pos, new), 0, n) = Over(Shown(b, 0, n), pos, new)
        BY <1>4, <4>1, <4>2, <4>3, OverShown
      <4>5. value[x] = Shown(b, 0, n)
        BY <2>2, <3>1, <4>2, <4>3 DEF Same, View
      <4>6. nb[i] = Over(b, pos, new)
        BY <1>3, <1>4, <4>2 DEF nb, c
      <4> QED
        BY <3>1, <4>3, <4>4, <4>5, <4>6 DEF View
    <3> QED
      BY <1>7, <2>1, <3>4, <3>5
  <2> QED
    BY <2>3, <2>4
<1>14. DataInv'
  BY <1>3, <1>7, <1>9, <1>10, <1>12, <1>13, AssignKeeps
<1> QED
  BY <1>7, <1>14 DEF Assign

LEMMA CopyIntoKeeps ==
    ASSUME DataInv, NEW x \in Names, NEW y \in Names, NEW pos, pos \in Nat, CopyInto(x, pos, y)
    PROVE  DataInv' /\ data' = data /\ pieces' = pieces
<1>1. PICK new : new = FirstOf(Smaller(data[x].size - pos, data[y].size), Bytes(data[y]))
  OBVIOUS
<1>2. pos \in 0 .. data[x].size /\ WriteLocked(x, pos, new)
  BY <1>1 DEF CopyInto, HasPosition
<1>3. /\ data[y] \in Refs /\ Fits(block, data[y]) /\ block \in [Impls -> Seq(Octets)]
      /\ data[x].size \in Nat /\ data[y].size \in Nat
  BY DEF DataInv, InBlocks, Refs
<1>4. PICK v : v = View(block, data[y])
  OBVIOUS
<1>5. v \in Seq(Octets) /\ Len(v) = data[y].size
  BY <1>3, <1>4, ViewOf
<1>6. Bytes(data[y]) = v
  BY <1>4 DEF Bytes, View, Shown
<1>7. PICK n : n = Smaller(data[x].size - pos, data[y].size)
  OBVIOUS
<1>8. n \in 0 .. Len(v)
  BY <1>2, <1>3, <1>5, <1>7 DEF Smaller
<1>9. new \in Seq(Octets)
  BY <1>1, <1>5, <1>6, <1>7, <1>8, Cut
<1> QED
  BY <1>2, <1>9, WriteLockedKeeps

-----------------------------------------------------------------------------
(* DataDeque.  The bytes of its pieces, one behind the other.              *)
(* A sequence that is two, one behind the other.                           *)
LEMMA JoinedCut ==
    ASSUME NEW x, NEW y, NEW s, x \in Seq(Octets), y \in Seq(Octets), s = x \o y
    PROVE  /\ s \in Seq(Octets) /\ Len(s) = Len(x) + Len(y)
           /\ FirstOf(Len(x), s) = x /\ AllAfter(Len(x), s) = y
<1>1. s \in Seq(Octets) /\ Len(s) = Len(x) + Len(y) /\ Len(x) \in Nat /\ Len(y) \in Nat
  BY ConcatProperties, LenProperties
<1>2. \A z \in Seq(Octets) : z \in Seq(Int)
  <2>1. Octets \subseteq Int
    BY DEF Octets
  <2> QED
    BY <2>1, SeqMonotonic
<1>3. x \in Seq(Int) /\ y \in Seq(Int) /\ s \in Seq(Int) /\ <<>> \in Seq(Int)
  BY <1>1, <1>2, EmptySeq
<1>4. s \o <<>> = x \o y
  BY <1>3, ConcatEmptySeq
<1>5. FirstOf(Len(x), s) = x /\ AllAfter(Len(x), s) \o <<>> = y
  <2>1. Len(x) <= Len(s)
    BY <1>1
  <2> QED
    BY <1>3, <1>4, <2>1, TwoCuts
<1>6. AllAfter(Len(x), s) \o <<>> = AllAfter(Len(x), s)
  <2>1. Len(x) \in 0 .. Len(s)
    BY <1>1
  <2>2. AllAfter(Len(x), s) \in Seq(Octets)
    BY <1>1, <2>1, Cut
  <2> QED
    BY <2>2, ConcatEmptySeq
<1> QED
  BY <1>1, <1>5, <1>6

LEMMA ViewsType ==
    ASSUME NEW b, NEW p, b \in [Impls -> Seq(Octets)], p \in Seq(Refs),
           \A k \in 1 .. Len(p) : Fits(b, p[k])
    PROVE  /\ Views(b, p) \in Seq(Seq(Octets)) /\ Len(Views(b, p)) = Len(p)
           /\ \A k \in 1 .. Len(p) : Views(b, p)[k] = View(b, p[k])
           /\ FlattenSeq(Views(b, p)) \in Seq(Octets)
<1>1. Len(p) \in Nat /\ DOMAIN p = 1 .. Len(p) /\ \A k \in 1 .. Len(p) : p[k] \in Refs
  BY LenProperties
<1>2. \A k \in 1 .. Len(p) : View(b, p[k]) \in Seq(Octets)
  BY <1>1, ViewOf
<1>3. Views(b, p) = [k \in 1 .. Len(p) |-> View(b, p[k])]
  BY <1>1 DEF Views
<1>4. Views(b, p) \in Seq(Seq(Octets)) /\ Len(Views(b, p)) = Len(p)
  BY <1>1, <1>2, <1>3, IsASeq, LenProperties
<1> QED
  BY <1>3, <1>4, FlattenType

LEMMA ViewsAppend ==
    ASSUME NEW b, NEW p, NEW r, b \in [Impls -> Seq(Octets)], p \in Seq(Refs),
           \A k \in 1 .. Len(p) : Fits(b, p[k]), r \in Refs, Fits(b, r)
    PROVE  /\ Append(p, r) \in Seq(Refs)
           /\ \A k \in 1 .. Len(Append(p, r)) : Fits(b, Append(p, r)[k])
           /\ FlattenSeq(Views(b, Append(p, r))) = FlattenSeq(Views(b, p)) \o View(b, r)
<1>1. PICK q : q = Append(p, r)
  OBVIOUS
<1>2. PICK v : v = View(b, r)
  OBVIOUS
<1>3. /\ q \in Seq(Refs) /\ Len(q) = Len(p) + 1 /\ q[Len(p) + 1] = r /\ Len(p) \in Nat
      /\ \A k \in 1 .. Len(p) : q[k] = p[k]
  BY <1>1, AppendProperties, LenProperties
<1>4. \A k \in 1 .. Len(q) : Fits(b, q[k])
  <2> SUFFICES ASSUME NEW k \in 1 .. Len(q) PROVE Fits(b, q[k])
    OBVIOUS
  <2>1. k \in 1 .. Len(p) \/ k = Len(p) + 1
    BY <1>3
  <2> QED
    BY <1>3, <2>1
<1>5. v \in Seq(Octets)
  BY <1>2, ViewOf
<1>6. /\ Views(b, p) \in Seq(Seq(Octets)) /\ Len(Views(b, p)) = Len(p)
      /\ \A k \in 1 .. Len(p) : Views(b, p)[k] = View(b, p[k])
  BY ViewsType
<1>7. /\ Views(b, q) \in Seq(Seq(Octets)) /\ Len(Views(b, q)) = Len(q)
      /\ \A k \in 1 .. Len(q) : Views(b, q)[k] = View(b, q[k])
  BY <1>3, <1>4, ViewsType
<1>8. PICK ss : ss = Views(b, p)
  OBVIOUS
<1>9. PICK tt : tt = Append(ss, v)
  OBVIOUS
<1>10. /\ tt \in Seq(Seq(Octets)) /\ Len(tt) = Len(p) + 1 /\ tt[Len(p) + 1] = v
       /\ \A k \in 1 .. Len(p) : tt[k] = ss[k]
  BY <1>5, <1>6, <1>8, <1>9, AppendProperties
<1>11. \A k \in 1 .. Len(Views(b, q)) : Views(b, q)[k] = tt[k]
  <2> SUFFICES ASSUME NEW k \in 1 .. Len(q) PROVE View(b, q[k]) = tt[k]
    BY <1>7
  <2>1. k \in 1 .. Len(p) \/ k = Len(p) + 1
    BY <1>3
  <2> QED
    BY <1>2, <1>3, <1>6, <1>8, <1>10, <2>1
<1>12. Views(b, q) = tt
  BY <1>3, <1>7, <1>10, <1>11, SeqEqual
<1>13. FlattenSeq(tt) = FlattenSeq(ss) \o v
  BY <1>5, <1>6, <1>8, <1>9, FlattenAppend
<1> QED
  BY <1>1, <1>2, <1>3, <1>4, <1>8, <1>12, <1>13

LEMMA FlattenFront ==
    ASSUME NEW S, NEW ss \in Seq(Seq(S)), ss # <<>>
    PROVE  FlattenSeq(ss) = Head(ss) \o FlattenSeq(Tail(ss))
<1>1. Head(ss) \in Seq(S) /\ Tail(ss) \in Seq(Seq(S))
  BY HeadTailProperties
<1>2. ss = <<Head(ss)>> \o Tail(ss)
  <2>1. Len(ss) \in Nat \ {0}
    BY EmptySeq
  <2>2. \A i \in 1 .. Len(ss) : ss[i] \in Seq(S)
    BY LenProperties
  <2> QED
    BY <1>1, <2>1, <2>2
<1>3. PICK h : h = Head(ss)
  OBVIOUS
<1>4. PICK t : t = Tail(ss)
  OBVIOUS
<1>5. <<h>> \in Seq(Seq(S)) /\ <<>> \in Seq(Seq(S)) /\ Append(<<>>, h) = <<h>>
  BY <1>1, <1>3, EmptySeq
<1>6. FlattenSeq(<<h>> \o t) = FlattenSeq(<<h>>) \o FlattenSeq(t)
  BY <1>1, <1>4, <1>5, FlattenConcat
<1>7. FlattenSeq(<<h>>) = h
  <2>1. FlattenSeq(Append(<<>>, h)) = FlattenSeq(<<>>) \o h
    BY <1>1, <1>3, <1>5, FlattenAppend
  <2>2. FlattenSeq(<<>>) = <<>>
    BY <1>5, FlattenDef
  <2>3. <<>> \o h = h
    BY <1>1, <1>3, ConcatEmptySeq
  <2> QED
    BY <1>5, <2>1, <2>2, <2>3
<1> QED
  BY <1>2, <1>3, <1>4, <1>6, <1>7

LEMMA ViewsHead ==
    ASSUME NEW b, NEW p, b \in [Impls -> Seq(Octets)], p \in Seq(Refs), p # <<>>,
           \A k \in 1 .. Len(p) : Fits(b, p[k])
    PROVE  /\ Head(p) \in Refs /\ Fits(b, Head(p)) /\ Tail(p) \in Seq(Refs)
           /\ \A k \in 1 .. Len(Tail(p)) : Fits(b, Tail(p)[k])
           /\ Len(Tail(p)) = Len(p) - 1
           /\ FlattenSeq(Views(b, p)) = View(b, Head(p)) \o FlattenSeq(Views(b, Tail(p)))
           /\ FlattenSeq(Views(b, Tail(p))) \in Seq(Octets)
<1>1. PICK t : t = Tail(p)
  OBVIOUS
<1>2. /\ Head(p) \in Refs /\ t \in Seq(Refs) /\ Len(t) = Len(p) - 1
      /\ \A k \in 1 .. Len(t) : t[k] = p[k + 1]
      /\ Len(p) \in Nat /\ Len(p) # 0
  BY <1>1, HeadTailProperties, EmptySeq, LenProperties
<1>3. Head(p) = p[1]
  BY <1>2
<1>4. Fits(b, Head(p))
  BY <1>2, <1>3
<1>5. \A k \in 1 .. Len(t) : k + 1 \in 1 .. Len(p)
  BY <1>2
<1>6. \A k \in 1 .. Len(t) : Fits(b, t[k])
  BY <1>2, <1>5
<1>7. PICK vv : vv = Views(b, p)
  OBVIOUS
<1>8. /\ vv \in Seq(Seq(Octets)) /\ Len(vv) = Len(p)
      /\ \A k \in 1 .. Len(p) : vv[k] = View(b, p[k])
  BY <1>7, ViewsType
<1>9. PICK ww : ww = Views(b, t)
  OBVIOUS
<1>10. /\ ww \in Seq(Seq(Octets)) /\ Len(ww) = Len(t)
       /\ \A k \in 1 .. Len(t) : ww[k] = View(b, t[k])
       /\ FlattenSeq(ww) \in Seq(Octets)
  BY <1>2, <1>6, <1>9, ViewsType
<1>11. vv # <<>>
  BY <1>2, <1>8, EmptySeq
<1>12. /\ Tail(vv) \in Seq(Seq(Octets)) /\ Len(Tail(vv)) = Len(vv) - 1
       /\ \A k \in 1 .. Len(Tail(vv)) : Tail(vv)[k] = vv[k + 1]
  BY <1>8, <1>11, HeadTailProperties
<1>13. Tail(vv) = ww
  <2>1. Len(Tail(vv)) = Len(ww)
    BY <1>2, <1>8, <1>10, <1>12
  <2>2. \A k \in 1 .. Len(Tail(vv)) : Tail(vv)[k] = ww[k]
    BY <1>2, <1>5, <1>8, <1>10, <1>12, <2>1
  <2> QED
    BY <1>10, <1>12, <2>1, <2>2, SeqEqual
<1>14. Head(vv) = View(b, Head(p))
  <2>1. Head(vv) = vv[1] /\ 1 \in 1 .. Len(p)
    BY <1>2, <1>8, <1>11
  <2> QED
    BY <1>3, <1>8, <2>1
<1>15. FlattenSeq(vv) = Head(vv) \o FlattenSeq(Tail(vv))
  BY <1>8, <1>11, FlattenFront
<1> QED
  BY <1>1, <1>2, <1>4, <1>6, <1>7, <1>9, <1>10, <1>13, <1>14, <1>15

(* DataDeque::write.                                                       *)
LEMMA PutKeeps ==
    ASSUME DataInv, NEW x \in Names, Write(x)
    PROVE  DataInv' /\ data' = data /\ pieces' = Append(pieces, data[x])
<1>1. /\ data \in [Names -> Refs] /\ block \in [Impls -> Seq(Octets)]
      /\ value \in [Names -> Seq(Octets)] /\ stream \in Seq(Octets)
      /\ pieces \in Seq(Refs) /\ size \in Int /\ torn \in BOOLEAN
      /\ \A y \in Names : Fits(block, data[y])
      /\ \A k \in 1 .. Len(pieces) : Fits(block, pieces[k])
      /\ MaxPieces \in Nat
  BY DataAssumption DEF DataInv, InBlocks
<1>2. PICK np : np = Append(pieces, data[x])
  OBVIOUS
<1>3. /\ Len(pieces) < MaxPieces /\ size' = size + data[x].size
      /\ Assign(data, np, block) /\ torn' = torn
      /\ IF torn THEN value' = NoValues /\ stream' = <<>>
         ELSE stream' = stream \o value[x] /\ value' = value
  BY <1>2 DEF Write, Expect, Putting, NoValues
<1>4. /\ np \in Seq(Refs) /\ \A k \in 1 .. Len(np) : Fits(block, np[k])
      /\ FlattenSeq(Views(block, np)) = FlattenSeq(Views(block, pieces)) \o View(block, data[x])
  BY <1>1, <1>2, ViewsAppend
<1>5. Len(np) = Len(pieces) + 1 /\ Len(pieces) \in Nat
  BY <1>1, <1>2, AppendProperties, LenProperties
<1>6. InBlocks(data, np, block)
  <2>1. Len(np) <= MaxPieces
    BY <1>1, <1>3, <1>5
  <2> QED
    BY <1>1, <1>4, <2>1 DEF InBlocks
<1>7. data[x].size \in Nat
  BY <1>1 DEF Refs
<1>8. size' \in Int /\ torn' \in BOOLEAN
  BY <1>1, <1>3, <1>7
<1>9. stream \o value[x] \in Seq(Octets) /\ Len(stream \o value[x]) = Len(stream) + Len(value[x])
  BY <1>1, ConcatProperties
<1>10. value' \in [Names -> Seq(Octets)] /\ stream' \in Seq(Octets)
  BY <1>1, <1>3, <1>9, NothingTyped
<1>11. ASSUME ~torn' PROVE Same(value', stream', size', data, np, block)
  <2>1. /\ stream' = stream \o value[x] /\ value' = value
        /\ \A y \in Names : value[y] = View(block, data[y])
        /\ stream = FlattenSeq(Views(block, pieces)) /\ size = Len(stream)
    BY <1>3, <1>11 DEF DataInv, Same
  <2>2. Len(value[x]) = data[x].size
    BY <1>1, <2>1, ViewOf
  <2>3. stream' = FlattenSeq(Views(block, np))
    BY <1>4, <2>1
  <2>4. size' = Len(stream')
    BY <1>3, <1>9, <2>1, <2>2
  <2> QED
    BY <2>1, <2>3, <2>4 DEF Same
<1>12. DataInv'
  BY <1>3, <1>6, <1>8, <1>10, <1>11, AssignKeeps
<1> QED
  BY <1>2, <1>3, <1>12 DEF Assign

(* What leaves the deque goes to x: the first n bytes of it.               *)
Gets(x, n, d, np) ==
    /\ n = d.size /\ size' = size - n /\ torn' = torn
    /\ Assign([data EXCEPT ![x] = d], np, block) /\ Expect(Getting(x, n))

LEMMA GetKeeps ==
    ASSUME DataInv, NEW x \in Names, NEW n, NEW d, NEW np,
           d \in Refs, Fits(block, d), np \in Seq(Refs), Len(np) <= MaxPieces,
           \A k \in 1 .. Len(np) : Fits(block, np[k]),
           FlattenSeq(Views(block, pieces)) = View(block, d) \o FlattenSeq(Views(block, np)),
           Gets(x, n, d, np)
    PROVE  DataInv' /\ data' = [data EXCEPT ![x] = d] /\ pieces' = np
<1>1. /\ data \in [Names -> Refs] /\ block \in [Impls -> Seq(Octets)]
      /\ value \in [Names -> Seq(Octets)] /\ stream \in Seq(Octets)
      /\ size \in Int /\ torn \in BOOLEAN
      /\ \A y \in Names : Fits(block, data[y])
  BY DEF DataInv, InBlocks
<1>2. PICK nd : nd = [data EXCEPT ![x] = d]
  OBVIOUS
<1>3. /\ n = d.size /\ size' = size - n /\ torn' = torn
      /\ Assign([data EXCEPT ![x] = d], np, block)
      /\ IF torn THEN value' = NoValues /\ stream' = <<>>
         ELSE value' = [value EXCEPT ![x] = FirstOf(n, stream)] /\ stream' = AllAfter(n, stream)
  BY DEF Gets, Expect, Getting, NoValues
<1>4. nd \in [Names -> Refs] /\ \A y \in Names : nd[y] = IF y = x THEN d ELSE data[y]
  BY <1>1, <1>2
<1>5. InBlocks(nd, np, block)
  BY <1>1, <1>4 DEF InBlocks
<1>6. View(block, d) \in Seq(Octets) /\ Len(View(block, d)) = n
  BY <1>1, <1>3, ViewOf
<1>7. FlattenSeq(Views(block, np)) \in Seq(Octets)
  BY <1>1, ViewsType
<1>8. n \in Int
  BY <1>3 DEF Refs
<1>9. ~torn => /\ FirstOf(n, stream) = View(block, d)
               /\ AllAfter(n, stream) = FlattenSeq(Views(block, np))
               /\ Len(stream) = n + Len(AllAfter(n, stream))
  <2> SUFFICES ASSUME ~torn
               PROVE /\ FirstOf(n, stream) = View(block, d)
                     /\ AllAfter(n, stream) = FlattenSeq(Views(block, np))
                     /\ Len(stream) = n + Len(AllAfter(n, stream))
    OBVIOUS
  <2>1. PICK v : v = View(block, d)
    OBVIOUS
  <2>2. PICK w : w = FlattenSeq(Views(block, np))
    OBVIOUS
  <2>3. stream = v \o w
    BY <2>1, <2>2 DEF DataInv, Same
  <2>4. FirstOf(Len(v), stream) = v /\ AllAfter(Len(v), stream) = w /\ Len(stream) = Len(v) + Len(w)
    BY <1>6, <1>7, <2>1, <2>2, <2>3, JoinedCut
  <2> QED
    BY <1>6, <2>1, <2>2, <2>4
<1>10. value' \in [Names -> Seq(Octets)] /\ stream' \in Seq(Octets)
  BY <1>1, <1>3, <1>6, <1>7, <1>9, NothingTyped
<1>11. ASSUME ~torn' PROVE Same(value', stream', size', nd, np, block)
  <2>1. /\ value' = [value EXCEPT ![x] = View(block, d)]
        /\ stream' = FlattenSeq(Views(block, np))
        /\ \A y \in Names : value[y] = View(block, data[y])
        /\ size = Len(stream) /\ Len(stream) = n + Len(stream')
    BY <1>3, <1>9, <1>11 DEF DataInv, Same
  <2>2. \A y \in Names : value'[y] = View(block, nd[y])
    BY <1>1, <1>4, <2>1
  <2>3. size' = Len(stream')
    <3>1. Len(stream') \in Nat
      BY <1>10, LenProperties
    <3> QED
      BY <1>3, <1>8, <2>1, <3>1
  <2> QED
    BY <2>1, <2>2, <2>3 DEF Same
<1>12. size' \in Int /\ torn' \in BOOLEAN
  BY <1>1, <1>3, <1>8
<1>13. Assign(nd, np, block)
  BY <1>2, <1>3
<1>14. DataInv'
  BY <1>5, <1>10, <1>11, <1>12, <1>13, AssignKeeps
<1> QED
  BY <1>2, <1>13, <1>14 DEF Assign

LEMMA ReadFrontKeeps ==
    ASSUME DataInv, NEW x \in Names, ReadFront(x)
    PROVE  DataInv' /\ data' = [data EXCEPT ![x] = Head(pieces)] /\ pieces' = Tail(pieces)
           /\ pieces # <<>>
<1>1. PICK d : d = Head(pieces)
  OBVIOUS
<1>2. PICK np : np = Tail(pieces)
  OBVIOUS
<1>3. /\ pieces # <<>> /\ size' = size - d.size /\ torn' = torn
      /\ Assign([data EXCEPT ![x] = d], np, block) /\ Expect(Getting(x, d.size))
  BY <1>1, <1>2 DEF ReadFront, SizeWithout
<1>4. /\ block \in [Impls -> Seq(Octets)] /\ pieces \in Seq(Refs) /\ Len(pieces) <= MaxPieces
      /\ \A k \in 1 .. Len(pieces) : Fits(block, pieces[k])
  BY DEF DataInv, InBlocks
<1>5. /\ d \in Refs /\ Fits(block, d) /\ np \in Seq(Refs)
      /\ \A k \in 1 .. Len(np) : Fits(block, np[k])
      /\ Len(np) = Len(pieces) - 1
      /\ FlattenSeq(Views(block, pieces)) = View(block, d) \o FlattenSeq(Views(block, np))
  BY <1>1, <1>2, <1>3, <1>4, ViewsHead
<1>6. Len(np) <= MaxPieces
  BY <1>4, <1>5, DataAssumption, LenProperties
<1>7. DataInv' /\ data' = [data EXCEPT ![x] = d] /\ pieces' = np
  <2>1. Gets(x, d.size, d, np)
    BY <1>3 DEF Gets
  <2> QED
    BY <1>3, <1>5, <1>6, <2>1, GetKeeps
<1> QED
  BY <1>1, <1>2, <1>3, <1>7

LEMMA ReadSomeKeeps ==
    ASSUME DataInv, NEW x \in Names, NEW max, max \in Nat, ReadSome(x, max)
    PROVE  /\ DataInv' /\ pieces # <<>>
           /\ data' = [data EXCEPT ![x] = Part(Head(pieces), 0, max)]
           /\ pieces' = [pieces EXCEPT ![1] = Part(Head(pieces), max, Head(pieces).size - max)]
           /\ Part(Head(pieces), 0, max).impl = Head(pieces).impl
           /\ Part(Head(pieces), max, Head(pieces).size - max).impl = Head(pieces).impl
<1>1. PICK f : f = Head(pieces)
  OBVIOUS
<1>2. PICK d : d = Part(f, 0, max)
  OBVIOUS
<1>3. PICK r : r = Part(f, max, f.size - max)
  OBVIOUS
<1>4. PICK np : np = [pieces EXCEPT ![1] = r]
  OBVIOUS
<1>5. /\ pieces # <<>> /\ f.size > max /\ size' = size - max /\ torn' = torn
      /\ Assign([data EXCEPT ![x] = d], np, block) /\ Expect(Getting(x, max))
  BY <1>1, <1>2, <1>3, <1>4 DEF ReadSome, SizeWithout
<1>6. /\ block \in [Impls -> Seq(Octets)] /\ pieces \in Seq(Refs) /\ Len(pieces) <= MaxPieces
      /\ \A k \in 1 .. Len(pieces) : Fits(block, pieces[k])
  BY DEF DataInv, InBlocks
<1>7. /\ f \in Refs /\ Fits(block, f)
      /\ FlattenSeq(Views(block, pieces)) = View(block, f) \o FlattenSeq(Views(block, Tail(pieces)))
      /\ FlattenSeq(Views(block, Tail(pieces))) \in Seq(Octets)
  BY <1>1, <1>5, <1>6, ViewsHead
<1>8. f.size \in Nat /\ 0 \in 0 .. f.size /\ max \in 0 .. f.size /\ f.size - max \in Nat
  BY <1>5, <1>7 DEF Refs
<1>9. /\ Smaller(max, f.size - 0) = max /\ Smaller(f.size - max, f.size - max) = f.size - max
  BY <1>5, <1>8 DEF Smaller
<1>10. /\ d \in Refs /\ Fits(block, d) /\ d.size = max /\ d.impl = f.impl
       /\ View(block, d) = FirstOf(max, AllAfter(0, View(block, f)))
  <2>1. MayCut(block, f, 0, max)
    BY <1>6, <1>7, <1>8 DEF MayCut
  <2>2. IsCut(block, f, 0, max, d)
    BY <1>2, <2>1, PartShows
  <2> QED
    BY <1>9, <2>2 DEF IsCut
<1>11. /\ r \in Refs /\ Fits(block, r) /\ r.size = f.size - max /\ r.impl = f.impl
       /\ View(block, r) = FirstOf(f.size - max, AllAfter(max, View(block, f)))
  <2>1. PICK m : m = f.size - max
    OBVIOUS
  <2>2. m \in Nat /\ r = Part(f, max, m) /\ Smaller(m, f.size - max) = m
    BY <1>3, <1>8, <1>9, <2>1
  <2>3. /\ r \in Refs /\ Fits(block, r) /\ r.size = m /\ r.impl = f.impl
        /\ View(block, r) = FirstOf(m, AllAfter(max, View(block, f)))
    <3>1. MayCut(block, f, max, m)
      BY <1>6, <1>7, <1>8, <2>2 DEF MayCut
    <3>2. IsCut(block, f, max, m, r)
      BY <2>2, <3>1, PartShows
    <3> QED
      BY <2>2, <3>2 DEF IsCut
  <2> QED
    BY <2>1, <2>3
<1>12. /\ Len(pieces) \in Nat /\ Len(pieces) # 0 /\ 1 \in 1 .. Len(pieces)
  BY <1>5, <1>6, EmptySeq, LenProperties
<1>13. /\ np \in Seq(Refs) /\ Len(np) = Len(pieces)
       /\ \A k \in 1 .. Len(pieces) : np[k] = IF k = 1 THEN r ELSE pieces[k]
  BY <1>4, <1>6, <1>11, <1>12, ExceptSeq
<1>14. \A k \in 1 .. Len(np) : Fits(block, np[k])
  BY <1>6, <1>11, <1>13
<1>15. np # <<>> /\ Head(np) = r
  <2>1. np # <<>>
    BY <1>12, <1>13, EmptySeq
  <2> QED
    BY <1>12, <1>13, <2>1
<1>16. Tail(np) = Tail(pieces)
  <2>1. /\ Tail(np) \in Seq(Refs) /\ Len(Tail(np)) = Len(np) - 1
        /\ \A k \in 1 .. Len(Tail(np)) : Tail(np)[k] = np[k + 1]
    BY <1>13, <1>15, HeadTailProperties
  <2>2. /\ Tail(pieces) \in Seq(Refs) /\ Len(Tail(pieces)) = Len(pieces) - 1
        /\ \A k \in 1 .. Len(Tail(pieces)) : Tail(pieces)[k] = pieces[k + 1]
    BY <1>5, <1>6, HeadTailProperties
  <2>3. \A k \in 1 .. Len(Tail(np)) : k + 1 \in 1 .. Len(pieces) /\ k + 1 # 1
    BY <1>12, <1>13, <2>1
  <2>4. \A k \in 1 .. Len(Tail(np)) : Tail(np)[k] = Tail(pieces)[k]
    BY <1>13, <2>1, <2>2, <2>3
  <2> QED
    BY <1>13, <2>1, <2>2, <2>4, SeqEqual
<1>17. PICK t : t = FlattenSeq(Views(block, Tail(pieces)))
  OBVIOUS
<1>18. FlattenSeq(Views(block, np)) = View(block, r) \o t
  BY <1>6, <1>13, <1>14, <1>15, <1>16, <1>17, ViewsHead
<1>19. PICK v : v = View(block, f)
  OBVIOUS
<1>20. v \in Seq(Octets) /\ Len(v) = f.size
  BY <1>6, <1>7, <1>19, ViewOf
<1>21. PICK a : a = FirstOf(max, v)
  OBVIOUS
<1>22. PICK c : c = AllAfter(max, v)
  OBVIOUS
<1>23. a \in Seq(Octets) /\ c \in Seq(Octets) /\ Len(c) = f.size - max /\ a \o c = v
  BY <1>8, <1>20, <1>21, <1>22, Cut
<1>24. View(block, d) = a
  <2>1. AllAfter(0, v) = v
    <3>1. 0 + 1 = 1
      OBVIOUS
    <3> QED
      BY <1>20, <3>1, SubSeqFull DEF AllAfter
  <2> QED
    BY <1>10, <1>19, <1>21, <2>1
<1>25. View(block, r) = c
  <2>1. FirstOf(Len(c), c) = c
    BY <1>23, SubSeqFull DEF FirstOf
  <2> QED
    BY <1>11, <1>19, <1>22, <1>23, <2>1
<1>26. FlattenSeq(Views(block, pieces)) = View(block, d) \o FlattenSeq(Views(block, np))
  <2>1. (a \o c) \o t = a \o (c \o t)
    <3>1. \A u, w, z \in Seq(Octets) : (u \o w) \o z = u \o (w \o z)
      BY ONLY ConcatAssociative
    <3>2. a \in Seq(Octets) /\ c \in Seq(Octets) /\ t \in Seq(Octets)
      BY <1>7, <1>17, <1>23
    <3> QED
      BY ONLY <3>1, <3>2
  <2> QED
    BY <1>7, <1>17, <1>18, <1>19, <1>23, <1>24, <1>25, <2>1
<1>27. Len(np) <= MaxPieces
  BY <1>6, <1>13
<1>28. DataInv' /\ data' = [data EXCEPT ![x] = d] /\ pieces' = np
  <2>1. Gets(x, max, d, np)
    BY <1>5, <1>10 DEF Gets
  <2> QED
    BY <1>10, <1>13, <1>14, <1>26, <1>27, <2>1, GetKeeps
<1> QED
  BY <1>1, <1>2, <1>3, <1>4, <1>5, <1>10, <1>11, <1>28

-----------------------------------------------------------------------------
(* AsyncFileReader.  At the beginning, and when onTimer takes the bytes    *)
(* out of buffer.                                                          *)
LEMMA FileNames == buffer \in Names /\ tmp \in Names /\ buffer # tmp
  BY FileAssumption

LEMMA DataBegins == DataInit => DataInv
<1> SUFFICES ASSUME DataInit PROVE DataInv
  OBVIOUS
<1>1. /\ value = NoValues /\ stream = <<>> /\ block = [i \in Impls |-> <<>>]
      /\ data = [x \in Names |-> NoData] /\ pieces = <<>> /\ size = 0 /\ torn = FALSE
  BY DEF DataInit, ValuesInit, NoValues
<1>2. block \in [Impls -> Seq(Octets)] /\ pieces \in Seq(Refs) /\ Len(pieces) = 0
  BY <1>1, EmptySeq
<1>3. NoData \in Refs /\ Fits(block, NoData) /\ View(block, NoData) = <<>>
  BY <1>2, NoDataFits
<1>4. MaxPieces \in Nat
  BY DataAssumption
<1>5. InBlocks(data, pieces, block)
  BY <1>1, <1>2, <1>3, <1>4 DEF InBlocks
<1>6. FlattenSeq(Views(block, pieces)) = <<>>
  <2>1. DOMAIN pieces = 1 .. 0
    BY <1>2, LenProperties
  <2>2. PICK vv : vv = Views(block, pieces)
    OBVIOUS
  <2>3. vv \in Seq(Seq(Octets)) /\ Len(vv) = 0
    <3>1. \A k \in 1 .. Len(pieces) : Fits(block, pieces[k])
      BY <1>2
    <3> QED
      BY <1>2, <2>2, <3>1, ViewsType
  <2>4. vv = <<>>
    BY <2>3, EmptySeq
  <2> QED
    BY <2>2, <2>3, <2>4, FlattenDef
<1>7. Same(value, stream, size, data, pieces, block)
  <2>1. \A x \in Names : value[x] = View(block, data[x])
    BY <1>1, <1>3 DEF NoValues
  <2> QED
    BY <1>1, <1>6, <2>1, EmptySeq DEF Same
<1>8. /\ value \in [Names -> Seq(Octets)] /\ stream \in Seq(Octets)
      /\ size \in Int /\ torn \in BOOLEAN
  <2>1. size \in Int /\ torn \in BOOLEAN
    <3>1. size = 0
      BY <1>1
    <3>2. torn = FALSE
      BY <1>1
    <3>3. size \in Int
      BY <3>1
    <3>4. torn \in BOOLEAN
      BY ONLY <3>2, Zenon
    <3> QED
      BY <3>3, <3>4
  <2>2. value = NoValues /\ stream = <<>>
    BY <1>1
  <2> QED
    BY <2>1, <2>2, NothingTyped
<1> QED
  BY <1>5, <1>7, <1>8 DEF DataInv

(* What was in buffer goes to tmp.                                         *)
Moved == [data EXCEPT ![tmp] = data[buffer], ![buffer] = NoData]

LEMMA MovingKeeps ==
    ASSUME DataInv, Assign(Moved, pieces, block), Expect(Moving(buffer, tmp)),
           size' = size, torn' = torn
    PROVE  DataInv'
<1>1. /\ data \in [Names -> Refs] /\ block \in [Impls -> Seq(Octets)]
      /\ value \in [Names -> Seq(Octets)] /\ stream \in Seq(Octets)
      /\ size \in Int /\ torn \in BOOLEAN
      /\ \A y \in Names : Fits(block, data[y])
  BY DEF DataInv, InBlocks
<1>2. PICK nd : nd = Moved
  OBVIOUS
<1>3. NoData \in Refs /\ Fits(block, NoData) /\ View(block, NoData) = <<>>
  BY <1>1, NoDataFits
<1>4. /\ nd \in [Names -> Refs]
      /\ nd[buffer] = NoData /\ nd[tmp] = data[buffer]
      /\ \A y \in Names \ {buffer, tmp} : nd[y] = data[y]
  BY <1>1, <1>2, <1>3, FileNames DEF Moved
<1>5. \A y \in Names : Fits(block, nd[y])
  BY <1>1, <1>3, <1>4, FileNames
<1>6. InBlocks(nd, pieces, block)
  BY <1>1, <1>4, <1>5 DEF DataInv, InBlocks
<1>7. IF torn THEN value' = NoValues /\ stream' = <<>>
      ELSE value' = [value EXCEPT ![buffer] = <<>>, ![tmp] = value[buffer]] /\ stream' = stream
  BY DEF Expect, Moving, NoValues
<1>8. value' \in [Names -> Seq(Octets)] /\ stream' \in Seq(Octets)
  BY <1>1, <1>7, NothingTyped, FileNames
<1>9. ASSUME ~torn' PROVE Same(value', stream', size', nd, pieces, block)
  <2>1. /\ value' = [value EXCEPT ![buffer] = <<>>, ![tmp] = value[buffer]] /\ stream' = stream
        /\ Same(value, stream, size, data, pieces, block)
    BY <1>7, <1>9 DEF DataInv
  <2>2. /\ value'[buffer] = <<>> /\ value'[tmp] = value[buffer]
        /\ \A y \in Names \ {buffer, tmp} : value'[y] = value[y]
    BY <1>1, <2>1, FileNames
  <2>3. \A y \in Names : value[y] = View(block, data[y])
    BY <2>1 DEF Same
  <2>4. \A y \in Names : value'[y] = View(block, nd[y])
    BY <1>3, <1>4, <2>2, <2>3, FileNames
  <2> QED
    BY <2>1, <2>4 DEF Same
<1> QED
  BY <1>1, <1>2, <1>6, <1>8, <1>9, AssignKeeps

(* Nobody else has the block of buffer, when buffer shows something.       *)
Others ==
    {0} \cup {data[y].impl : y \in Names \ {buffer}}
        \cup {pieces[k].impl : k \in 1 .. Len(pieces)}

Own == data[buffer].size = 0 \/ data[buffer].impl \notin Others

LEMMA ShowsNothing ==
    ASSUME data[buffer].size = 0, data[buffer].position \in Nat
    PROVE  Bytes(data[buffer]) = <<>>
<1>1. PICK p : p = data[buffer].position
  OBVIOUS
<1>2. p + 1 > p + 0 /\ p + 1 \in Int /\ p + 0 \in Int
  BY <1>1
<1> QED
  BY <1>1, <1>2, SubSeqEmpty DEF Bytes

(* Whatever else is assigned.                                              *)
Leaves(nd, np, nb) ==
    /\ Assign(nd, np, nb) /\ np \in Seq(Refs)
    /\ nd[buffer] = data[buffer]
    /\ \A y \in Names \ {buffer} : nd[y].impl \in Others
    /\ \A k \in 1 .. Len(np) : np[k].impl \in Others
    /\ data[buffer].size = 0 \/ nb[data[buffer].impl] = block[data[buffer].impl]

Untouched == Own' /\ Bytes(data[buffer])' = Bytes(data[buffer]) /\ data'[buffer] = data[buffer]

LEMMA BufferKeeps ==
    ASSUME DataInv, Own, NEW nd, NEW np, NEW nb, Leaves(nd, np, nb)
    PROVE  Untouched
<1>1. /\ Assign(nd, np, nb) /\ np \in Seq(Refs)
      /\ nd[buffer] = data[buffer]
      /\ \A y \in Names \ {buffer} : nd[y].impl \in Others
      /\ \A k \in 1 .. Len(np) : np[k].impl \in Others
      /\ data[buffer].size = 0 \/ nb[data[buffer].impl] = block[data[buffer].impl]
  BY DEF Leaves
<1>2. data' = nd /\ pieces' = np /\ data'[buffer] = data[buffer]
  BY <1>1 DEF Assign
<1>3. Others' \subseteq Others
  BY <1>1, <1>2 DEF Others
<1>4. Own'
  <2>1. data'[buffer].size = 0 \/ data'[buffer].impl \notin Others'
    BY <1>2, <1>3 DEF Own
  <2> QED
    BY <2>1 DEF Own
<1>5. data[buffer] \in Refs
  BY FileNames DEF DataInv, InBlocks
<1>6. CASE data[buffer].size = 0
  <2>1. data[buffer].position \in Nat
    BY <1>5 DEF Refs
  <2>2. Bytes(data[buffer]) = <<>>
    BY <1>6, <2>1, ShowsNothing
  <2>3. Bytes(data[buffer])' = <<>>
    <3>1. PICK r : r = data[buffer]
      OBVIOUS
    <3>2. r.position + 1 > r.position + 0 /\ r.position + 1 \in Int /\ r.position + 0 \in Int
      BY <2>1, <3>1
    <3>3. SubSeq(block'[r.impl], r.position + 1, r.position + 0) = <<>>
      BY <3>2, SubSeqEmpty
    <3>4. Bytes(data[buffer])' = SubSeq(block'[r.impl], r.position + 1, r.position + 0)
      BY <1>2, <1>6, <3>1 DEF Bytes
    <3> QED
      BY <3>3, <3>4
  <2> QED
    BY <1>2, <1>4, <1>6, <2>1, <2>2, <2>3 DEF Untouched
<1>7. CASE nb[data[buffer].impl] = block[data[buffer].impl]
  <2>1. data[buffer].impl \in Impls
    BY <1>5 DEF Refs
  <2>2. block'[data[buffer].impl] = nb[data[buffer].impl]
    BY <1>1, <2>1, FileNames DEF Assign
  <2>3. Bytes(data[buffer])' = SubSeq(block'[data[buffer].impl], data[buffer].position + 1,
                                      data[buffer].position + data[buffer].size)
    BY <1>2 DEF Bytes
  <2> QED
    BY <1>2, <1>4, <1>7, <2>2, <2>3 DEF Untouched, Bytes
<1> QED
  BY <1>1, <1>6, <1>7

-----------------------------------------------------------------------------
(* What the program does with its variables leaves what buffer shows as it *)
(* was: the block is buffer's alone.                                       *)
(* What an operation on a variable of the program keeps.                   *)
LEMMA InvParts ==
    ASSUME DataInv
    PROVE  /\ data \in [Names -> Refs] /\ block \in [Impls -> Seq(Octets)]
           /\ pieces \in Seq(Refs) /\ Len(pieces) \in Nat
           /\ data[buffer] \in Refs
           /\ \A y \in Names \ {buffer} : data[y].impl \in Others
           /\ \A k \in 1 .. Len(pieces) : pieces[k].impl \in Others
           /\ NoData.impl \in Others
<1>1. data \in [Names -> Refs] /\ block \in [Impls -> Seq(Octets)] /\ pieces \in Seq(Refs)
  BY DEF DataInv, InBlocks
<1> QED
  BY <1>1, FileNames, LenProperties DEF Others, NoData

LEMMA BecomesLeaves ==
    ASSUME DataInv, Own, NEW x \in Names \ {buffer}, NEW d, NEW bytes, Becomes(x, d, bytes),
           d.impl \in Others
    PROVE  Untouched
<1>1. PICK nd : nd = [data EXCEPT ![x] = d]
  OBVIOUS
<1>2. Assign(nd, pieces, block)
  BY <1>1 DEF Becomes
<1>3. nd[x] = d /\ \A y \in Names \ {x} : nd[y] = data[y]
  BY <1>1, InvParts
<1>4. Leaves(nd, pieces, block)
  BY <1>2, <1>3, InvParts, FileNames DEF Leaves
<1> QED
  BY <1>4, BufferKeeps

LEMMA ClearLeaves ==
    ASSUME DataInv, Own, NEW x \in Names \ {buffer}, Clear(x)
    PROVE  DataInv' /\ Untouched
<1>1. Becomes(x, NoData, <<>>)
  BY DEF Clear
<1> QED
  BY <1>1, InvParts, BecomesLeaves, ClearKeeps

LEMMA CopyLeaves ==
    ASSUME DataInv, Own, NEW x \in Names \ {buffer}, NEW y \in Names \ {buffer}, Copy(x, y)
    PROVE  DataInv' /\ Untouched
<1>1. Becomes(x, data[y], value[y])
  BY DEF Copy
<1> QED
  BY <1>1, InvParts, BecomesLeaves, CopyKeeps

LEMMA PartImpl ==
    ASSUME NEW r, NEW pos, NEW n, r \in Refs
    PROVE  Part(r, pos, n).impl = r.impl
<1>1. PICK a : a = r.position + pos
  OBVIOUS
<1>2. PICK m : m = Smaller(n, r.size - pos)
  OBVIOUS
<1>3. Part(r, pos, n) = [r EXCEPT !.position = a, !.size = m]
  BY <1>1, <1>2 DEF Part
<1> QED
  BY <1>3 DEF Refs

LEMMA SliceLeaves ==
    ASSUME DataInv, Own, NEW x \in Names \ {buffer}, NEW y \in Names \ {buffer},
           NEW pos, NEW n, Slice(x, y, pos, n), n \in Nat
    PROVE  DataInv' /\ Untouched
<1>1. PICK d : d = Part(data[y], pos, n)
  OBVIOUS
<1>2. d.impl = data[y].impl
  <2>1. data[y] \in Refs
    BY InvParts
  <2> QED
    BY <1>1, <2>1, PartImpl
<1>3. PICK bytes : Becomes(x, d, bytes)
  BY <1>1 DEF Slice
<1>4. d.impl \in Others
  BY <1>2, InvParts
<1> QED
  BY <1>3, <1>4, BecomesLeaves, SliceKeeps

LEMMA GetByteLeaves ==
    ASSUME DataInv, Own, NEW x \in Names \ {buffer}, GetByte(x)
    PROVE  DataInv' /\ Untouched
<1>1. PICK d : d = [data[x] EXCEPT !.position = @ + 1, !.size = @ - 1]
  OBVIOUS
<1>2. d.impl = data[x].impl
  <2>1. data[x] \in Refs
    BY InvParts
  <2> QED
    BY <1>1, <2>1 DEF Refs
<1>3. Becomes(x, d, AllAfter(1, value[x]))
  BY <1>1 DEF GetByte
<1>4. d.impl \in Others
  BY <1>2, InvParts
<1> QED
  BY <1>3, <1>4, BecomesLeaves, GetByteKeeps

LEMMA WriteLockedLeaves ==
    ASSUME DataInv, Own, NEW x \in Names \ {buffer}, NEW pos, NEW new, WriteLocked(x, pos, new)
    PROVE  Untouched
<1>1. SC(data[x].impl) # 0
  BY DataInvTyped, AloneCount
<1>2. Locked(x) = [data |-> data[x], block |-> block]
  BY <1>1 DEF Locked, IsTheOne
<1>3. PICK i : i = data[x].impl
  OBVIOUS
<1>4. PICK nb : nb = [block EXCEPT ![i] = Over(@, pos, new)]
  OBVIOUS
<1>5. Assign([data EXCEPT ![x] = data[x]], pieces, nb)
  BY <1>2, <1>3, <1>4 DEF WriteLocked
<1>6. [data EXCEPT ![x] = data[x]] = data
  BY InvParts
<1>7. i \in Others
  BY <1>3, InvParts
<1>8. data[buffer].size = 0 \/ nb[data[buffer].impl] = block[data[buffer].impl]
  BY <1>4, <1>7, InvParts DEF Own, Refs
<1>9. Leaves(data, pieces, nb)
  BY <1>5, <1>6, <1>8, InvParts DEF Leaves
<1> QED
  BY <1>9, BufferKeeps

LEMMA FillLockedLeaves ==
    ASSUME DataInv, Own, NEW x \in Names \ {buffer},
           \E b \in {junk} : WriteLocked(x, 0, [k \in 1 .. data[x].size |-> b])
    PROVE  DataInv' /\ Untouched
<1>1. PICK new : new = [k \in 1 .. data[x].size |-> junk] /\ WriteLocked(x, 0, new)
  OBVIOUS
<1>2. new \in Seq(Octets)
  <2>1. data[x].size \in Nat /\ junk \in Octets
    BY InvParts DEF Refs, junk, Octets
  <2> QED
    BY <1>1, <2>1, IsASeq
<1> QED
  BY <1>1, <1>2, WriteLockedLeaves, WriteLockedKeeps

LEMMA CopyIntoLeaves ==
    ASSUME DataInv, Own, NEW x \in Names \ {buffer}, NEW y \in Names, NEW pos, pos \in Nat,
           CopyInto(x, pos, y)
    PROVE  DataInv' /\ Untouched
<1>1. PICK new : WriteLocked(x, pos, new)
  BY DEF CopyInto
<1> QED
  BY <1>1, WriteLockedLeaves, CopyIntoKeeps

LEMMA PutLeaves ==
    ASSUME DataInv, Own, NEW x \in Names \ {buffer}, Write(x)
    PROVE  DataInv' /\ Untouched
<1>1. PICK np : np = Append(pieces, data[x])
  OBVIOUS
<1>2. Assign(data, np, block)
  BY <1>1 DEF Write
<1>3. data[x] \in Refs /\ data[x].impl \in Others
  BY InvParts
<1>4. /\ np \in Seq(Refs) /\ Len(np) = Len(pieces) + 1
      /\ \A k \in 1 .. Len(pieces) : np[k] = pieces[k]
      /\ np[Len(pieces) + 1] = data[x]
  BY <1>1, <1>3, InvParts, AppendProperties
<1>5. \A k \in 1 .. Len(np) : k \in 1 .. Len(pieces) \/ k = Len(pieces) + 1
  BY <1>4, InvParts
<1>6. \A k \in 1 .. Len(np) : np[k].impl \in Others
  BY <1>3, <1>4, <1>5, InvParts
<1>7. Leaves(data, np, block)
  BY <1>2, <1>4, <1>6, InvParts DEF Leaves
<1> QED
  BY <1>7, BufferKeeps, PutKeeps

LEMMA ReadFrontLeaves ==
    ASSUME DataInv, Own, NEW x \in Names \ {buffer}, ReadFront(x)
    PROVE  DataInv' /\ Untouched
<1>1. PICK nd : nd = [data EXCEPT ![x] = Head(pieces)]
  OBVIOUS
<1>2. PICK np : np = Tail(pieces)
  OBVIOUS
<1>3. pieces # <<>> /\ Assign(nd, np, block)
  BY <1>1, <1>2 DEF ReadFront
<1>4. nd[x] = Head(pieces) /\ \A y \in Names \ {x} : nd[y] = data[y]
  BY <1>1, InvParts
<1>5. /\ np \in Seq(Refs) /\ Len(np) = Len(pieces) - 1
      /\ \A k \in 1 .. Len(np) : np[k] = pieces[k + 1]
      /\ Len(pieces) # 0
  BY <1>2, <1>3, InvParts, HeadTailProperties, EmptySeq
<1>6. \A k \in 1 .. Len(np) : k + 1 \in 1 .. Len(pieces)
  BY <1>5, InvParts
<1>7. \A k \in 1 .. Len(np) : np[k].impl \in Others
  BY <1>5, <1>6, InvParts
<1>8. Head(pieces).impl \in Others
  <2>1. Head(pieces) = pieces[1] /\ 1 \in 1 .. Len(pieces)
    BY <1>3, <1>5, InvParts
  <2> QED
    BY <2>1, InvParts
<1>9. Leaves(nd, np, block)
  BY <1>3, <1>4, <1>5, <1>7, <1>8, InvParts, FileNames DEF Leaves
<1> QED
  BY <1>9, BufferKeeps, ReadFrontKeeps

LEMMA ReadSomeLeaves ==
    ASSUME DataInv, Own, NEW x \in Names \ {buffer}, NEW max, max \in Nat, ReadSome(x, max)
    PROVE  DataInv' /\ Untouched
<1>1. PICK f : f = Head(pieces)
  OBVIOUS
<1>2. PICK d : d = Part(f, 0, max)
  OBVIOUS
<1>3. PICK r : r = Part(f, max, f.size - max)
  OBVIOUS
<1>4. PICK nd : nd = [data EXCEPT ![x] = d]
  OBVIOUS
<1>5. PICK np : np = [pieces EXCEPT ![1] = r]
  OBVIOUS
<1>6. pieces # <<>> /\ Assign(nd, np, block)
  BY <1>1, <1>2, <1>3, <1>4, <1>5 DEF ReadSome
<1>7. DataInv' /\ pieces' \in Seq(Refs) /\ pieces' = np
  <2>1. DataInv'
    BY ReadSomeKeeps
  <2>2. pieces' \in Seq(Refs)
    BY <2>1 DEF DataInv, InBlocks
  <2> QED
    BY <1>6, <2>1, <2>2 DEF Assign
<1>8. Len(pieces) # 0 /\ 1 \in 1 .. Len(pieces) /\ f = pieces[1] /\ f \in Refs
  <2>1. Len(pieces) # 0
    BY <1>6, InvParts, EmptySeq
  <2>2. 1 \in 1 .. Len(pieces)
    BY <2>1, InvParts
  <2>3. f = pieces[1] /\ pieces[1] \in Refs
    BY <1>1, <1>6, <2>2, InvParts
  <2> QED
    BY <2>1, <2>2, <2>3
<1>9. d.impl = f.impl /\ r.impl = f.impl /\ f.impl \in Others
  BY <1>2, <1>3, <1>8, PartImpl, InvParts
<1>10. DOMAIN np = 1 .. Len(pieces) /\ Len(np) = Len(pieces)
  BY <1>5, <1>7, InvParts, LenProperties
<1>11. \A k \in 1 .. Len(np) : np[k] = r \/ np[k] = pieces[k]
  BY <1>5, <1>10, InvParts
<1>12. \A k \in 1 .. Len(np) : np[k].impl \in Others
  BY <1>9, <1>10, <1>11, InvParts
<1>13. nd[x] = d /\ \A y \in Names \ {x} : nd[y] = data[y]
  BY <1>4, InvParts
<1>14. Leaves(nd, np, block)
  BY <1>6, <1>7, <1>9, <1>12, <1>13, InvParts, FileNames DEF Leaves
<1> QED
  BY <1>7, <1>14, BufferKeeps

-----------------------------------------------------------------------------
(* The bytes of the file.                                                  *)
LEMMA Junctions ==
    ASSUME NEW c \in Seq(Octets), NEW p \in Nat, NEW n \in Nat, p + n <= Len(c)
    PROVE  FirstOf(p + n, c) = FirstOf(p, c) \o Shown(c, p, n)
<1>1. Len(c) \in Nat /\ p \in 0 .. Len(c) /\ p + n \in 0 .. Len(c) /\ p \in 0 .. p + n
  BY LenProperties
<1>2. PICK m : m = p + n
  OBVIOUS
<1>3. PICK d : d = FirstOf(m, c)
  OBVIOUS
<1>4. d \in Seq(Octets) /\ Len(d) = m
  BY <1>1, <1>2, <1>3, Cut
<1>5. /\ m \in Nat /\ m - p = n /\ p \in 0 .. Len(d) /\ n \in 0 .. Len(d) - p /\ p + (m - p) = m
      /\ 0 + m <= Len(c) /\ 0 \in Nat /\ 0 \in 0 .. m /\ p \in 0 .. m - 0 /\ n \in 0 .. m - p /\ 0 + p = p
  BY <1>1, <1>2, <1>4
<1>6. FirstOf(p, d) \o AllAfter(p, d) = d
  BY <1>4, <1>5, Cut
<1>7. d = Shown(c, 0, m)
  BY <1>3, <1>5 DEF FirstOf, Shown
<1>8. FirstOf(n, AllAfter(p, d)) = Shown(c, p, n)
  <2>1. Shown(c, 0 + p, n) = FirstOf(n, AllAfter(p, Shown(c, 0, m)))
    BY <1>5, ShownPart
  <2> QED
    BY <1>5, <1>7, <2>1
<1>9. FirstOf(n, AllAfter(p, d)) = AllAfter(p, d)
  <2>1. AllAfter(p, d) \in Seq(Octets) /\ Len(AllAfter(p, d)) = n
    BY <1>4, <1>5, Cut
  <2> QED
    BY <2>1, SubSeqFull DEF FirstOf
<1>10. FirstOf(p, d) = FirstOf(p, c)
  <2>1. PICK a : a = FirstOf(p, d)
    OBVIOUS
  <2>2. PICK b : b = FirstOf(p, c)
    OBVIOUS
  <2>3. a = Shown(d, 0, p) /\ b = Shown(c, 0, p)
    BY <2>1, <2>2 DEF FirstOf, Shown
  <2>4. Shows(d, c, 0, m)
    BY <1>5, <1>7, ShownBytes
  <2>5. Shows(a, d, 0, p) /\ Shows(b, c, 0, p)
    BY <1>1, <1>4, <1>5, <2>3, ShownBytes
  <2>6. /\ \A i \in 1 .. m : d[i] = c[0 + i]
        /\ a \in Seq(Octets) /\ Len(a) = p /\ \A i \in 1 .. p : a[i] = d[0 + i]
        /\ b \in Seq(Octets) /\ Len(b) = p /\ \A i \in 1 .. p : b[i] = c[0 + i]
    BY <2>4, <2>5 DEF Shows
  <2>7. \A i \in 1 .. p : 0 + i = i /\ i \in 1 .. m
    BY <1>1, <1>5
  <2>8. \A i \in 1 .. Len(a) : a[i] = b[i]
    BY <2>6, <2>7
  <2>9. a = b
    BY <2>6, <2>8, SeqEqual
  <2> QED
    BY <2>1, <2>2, <2>9
<1> QED
  BY <1>2, <1>3, <1>6, <1>8, <1>9, <1>10

-----------------------------------------------------------------------------
(* The bytes of the file are delivered, in buffer, or to be read.          *)
FileInv ==
    /\ DataInv /\ Own
    /\ offset \in 0 .. Len(File) /\ (eof => offset = Len(File)) /\ (armed => ~gone)
    /\ \E n \in 0 .. Len(File) : delivered = FirstOf(n, File)
    /\ ~gone => delivered \o Bytes(data[buffer]) = FirstOf(offset, File)
    /\ callback = "onEndOfFile" => delivered = File

LEMMA FileTyped == File \in Seq(Octets) /\ Len(File) \in Nat /\ FirstOf(Len(File), File) = File
<1>1. File \in Seq(Octets)
  BY FileAssumption DEF Octets
<1> QED
  BY <1>1, LenProperties, SubSeqFull DEF FirstOf

LEMMA DeliveredTyped ==
    ASSUME FileInv
    PROVE  delivered \in Seq(Octets) /\ delivered \o <<>> = delivered
<1>1. delivered \in Seq(Octets)
  BY FileTyped, Cut DEF FileInv
<1> QED
  BY <1>1, ConcatEmptySeq

(* When buffer shows nothing, all that was read is delivered.              *)
LEMMA AllDelivered ==
    ASSUME FileInv, Empty(buffer)
    PROVE  Bytes(data[buffer]) = <<>> /\ (~gone => delivered = FirstOf(offset, File))
<1>1. data[buffer].size = 0 /\ data[buffer].position \in Nat
  BY InvParts DEF FileInv, Empty, Refs
<1>2. Bytes(data[buffer]) = <<>>
  BY <1>1, ShowsNothing
<1> QED
  BY <1>2, DeliveredTyped DEF FileInv

LEMMA FileBegins == Init => FileInv
<1> SUFFICES ASSUME Init PROVE FileInv
  OBVIOUS
<1>1. DataInv
  BY DataBegins DEF Init
<1>2. data[buffer] = NoData
  BY FileNames DEF Init, DataInit
<1>3. data[buffer].size = 0 /\ data[buffer].position \in Nat
  BY <1>2 DEF NoData
<1>4. Bytes(data[buffer]) = <<>>
  BY <1>3, ShowsNothing
<1>5. FirstOf(0, File) = <<>>
  <2>1. FirstOf(0, File) \in Seq(Octets) /\ Len(FirstOf(0, File)) = 0
    BY FileTyped, Cut
  <2> QED
    BY <2>1, EmptySeq
<1>6. <<>> \o <<>> = <<>>
  BY EmptySeq, ConcatEmptySeq
<1>7. delivered = <<>> /\ offset = 0 /\ ~eof /\ ~armed /\ callback = "none"
  BY DEF Init
<1>8. 0 \in 0 .. Len(File)
  BY FileTyped
<1> QED
  BY <1>1, <1>3, <1>4, <1>5, <1>6, <1>7, <1>8 DEF FileInv, Own

(* What leaves the reader and its buffer alone.                            *)
LEMMA FileStays ==
    ASSUME FileInv, DataInv', Untouched, UNCHANGED <<offset, eof, armed, gone, delivered>>,
           callback' = callback \/ callback' = "none"
    PROVE  FileInv'
<1>1. Own' /\ Bytes(data[buffer])' = Bytes(data[buffer])
  BY DEF Untouched
<1>2. (callback = "onEndOfFile")' => callback = "onEndOfFile"
  OBVIOUS
<1>3. (delivered \o Bytes(data[buffer]))' = delivered \o Bytes(data[buffer])
  BY <1>1
<1> QED
  BY <1>1, <1>2, <1>3 DEF FileInv

LEMMA ReadKeeps ==
    ASSUME FileInv, NEW asked \in Nat, NEW n \in Nat, Read(asked, n)
    PROVE  FileInv'
<1>1. PICK left : left = IF eof THEN 0 ELSE Smaller(asked, Len(File) - offset)
  OBVIOUS
<1>2. PICK c : c = [k \in 1 .. asked |-> IF k <= n THEN File[offset + k] ELSE junk]
  OBVIOUS
<1>3. /\ ~gone /\ Empty(buffer) /\ n \in 0 .. left
      /\ eof' = (eof \/ (n = left /\ asked > Len(File) - offset))
      /\ offset' = offset + n /\ Fill(buffer, c, n) /\ armed' = TRUE
      /\ UNCHANGED <<callback, gone, delivered>>
  BY <1>1, <1>2 DEF Read, MayRead
<1>4. /\ offset \in 0 .. Len(File) /\ (eof => offset = Len(File)) /\ Len(File) \in Nat
      /\ DataInv
  BY FileTyped DEF FileInv
<1>5. n <= asked /\ offset + n <= Len(File) /\ offset \in Nat
  BY <1>1, <1>3, <1>4 DEF Smaller
<1>6. offset' \in 0 .. Len(File) /\ (eof' => offset' = Len(File))
  <2>1. eof' => offset' = Len(File)
    <3>1. CASE eof
      <4>1. left = 0 /\ offset = Len(File)
        BY <1>1, <1>4, <3>1
      <4>2. n = 0
        BY <1>3, <4>1
      <4> QED
        BY <1>3, <1>4, <4>1, <4>2
    <3>2. CASE n = left /\ asked > Len(File) - offset /\ ~eof
      <4>1. left = Len(File) - offset
        BY <1>1, <1>4, <3>2 DEF Smaller
      <4> QED
        BY <1>3, <1>4, <3>2, <4>1
    <3> QED
      BY <1>3, <3>1, <3>2
  <2> QED
    BY <1>3, <1>4, <1>5, <2>1
<1>7. c \in Seq(Octets) /\ Len(c) = asked /\ \A k \in 1 .. n : c[k] = File[offset + k]
  <2>1. \A k \in 1 .. asked : (IF k <= n THEN File[offset + k] ELSE junk) \in Octets
    <3>1. \A k \in 1 .. n : offset + k \in 1 .. Len(File)
      BY <1>4, <1>5
    <3>2. \A k \in 1 .. Len(File) : File[k] \in Octets
      BY FileTyped, LenProperties
    <3>3. junk \in Octets
      BY DEF junk, Octets
    <3> QED
      BY <3>1, <3>2, <3>3
  <2>2. c \in Seq(Octets) /\ Len(c) = asked
    BY <1>2, <2>1, IsASeq
  <2>3. \A k \in 1 .. n : k \in 1 .. asked /\ k <= n
    BY <1>5
  <2>4. \A k \in 1 .. asked : c[k] = IF k <= n THEN File[offset + k] ELSE junk
    BY <1>2
  <2> QED
    BY <2>2, <2>3, <2>4
<1>8. n \in 0 .. Len(c)
  BY <1>5, <1>7
<1>9. /\ DataInv' /\ pieces' = pieces
      /\ data' = [data EXCEPT ![buffer] = [impl |-> New, position |-> 0, size |-> n]]
      /\ Bytes(data[buffer])' = FirstOf(n, c)
  BY <1>3, <1>4, <1>7, <1>8, FileNames, FillKeeps
<1>10. Own'
  <2>1. New # 0 /\ Free(New)
    BY <1>4, DataInvTyped, NewFree
  <2>2. PICK new : new = New
    OBVIOUS
  <2>3. data'[buffer].impl = new /\ \A y \in Names \ {buffer} : data'[y] = data[y]
    BY <1>4, <1>9, <2>2, InvParts, FileNames
  <2>4. new \notin {0} \cup {data'[y].impl : y \in Names \ {buffer}}
                      \cup {pieces'[k].impl : k \in 1 .. Len(pieces')}
    BY <1>9, <2>1, <2>2, <2>3 DEF Free
  <2> QED
    BY <2>3, <2>4 DEF Own, Others
<1>11. FirstOf(n, c) = Shown(File, offset, n)
  <2>1. PICK a : a = FirstOf(n, c)
    OBVIOUS
  <2>2. PICK b : b = Shown(File, offset, n)
    OBVIOUS
  <2>3. a = Shown(c, 0, n) /\ 0 + n <= Len(c) /\ 0 \in Nat
    BY <1>8, <1>7, <2>1 DEF FirstOf, Shown
  <2>4. Shows(a, c, 0, n) /\ Shows(b, File, offset, n)
    BY <1>5, <1>7, <2>2, <2>3, FileTyped, ShownBytes
  <2>5. \A k \in 1 .. n : 0 + k = k
    OBVIOUS
  <2>6. /\ a \in Seq(Octets) /\ Len(a) = n /\ \A k \in 1 .. n : a[k] = c[0 + k]
        /\ b \in Seq(Octets) /\ Len(b) = n /\ \A k \in 1 .. n : b[k] = File[offset + k]
    BY <2>4 DEF Shows
  <2>7. \A k \in 1 .. Len(a) : a[k] = b[k]
    BY <1>7, <2>5, <2>6
  <2>8. a = b
    BY <2>6, <2>7, SeqEqual
  <2> QED
    BY <2>1, <2>2, <2>8
<1>12. delivered' \o Bytes(data[buffer])' = FirstOf(offset', File)
  <2>1. FirstOf(offset + n, File) = FirstOf(offset, File) \o Shown(File, offset, n)
    BY <1>5, FileTyped, Junctions
  <2>2. delivered = FirstOf(offset, File)
    BY <1>3, AllDelivered
  <2> QED
    BY <1>3, <1>9, <1>11, <2>1, <2>2
<1>13. (armed => ~gone)'
  BY <1>3
<1>14. (\E m \in 0 .. Len(File) : delivered = FirstOf(m, File))'
  BY <1>3 DEF FileInv
<1>15. (callback = "onEndOfFile" => delivered = File)'
  BY <1>3 DEF FileInv
<1>16. (~gone => delivered \o Bytes(data[buffer]) = FirstOf(offset, File))'
  BY <1>12
<1> QED
  BY <1>6, <1>9, <1>10, <1>13, <1>14, <1>15, <1>16 DEF FileInv

LEMMA OnChunkKeeps ==
    ASSUME FileInv, OnChunk
    PROVE  FileInv'
<1>1. /\ armed /\ callback' = "onChunk" /\ armed' = FALSE
      /\ delivered' = delivered \o Bytes(data[buffer])
      /\ size' = size /\ torn' = torn
      /\ Assign(Moved, pieces, block) /\ Expect(Moving(buffer, tmp))
      /\ UNCHANGED <<offset, eof, gone>>
  BY DEF OnChunk, Fires, Moved
<1>2. DataInv /\ ~gone /\ delivered' = FirstOf(offset, File) /\ offset \in 0 .. Len(File)
  BY <1>1 DEF FileInv
<1>3. DataInv'
  BY <1>1, <1>2, MovingKeeps
<1>4. data'[buffer] = NoData
  BY <1>1, <1>2, InvParts, FileNames DEF Assign, Moved
<1>5. data'[buffer].size = 0 /\ Bytes(data[buffer])' = <<>>
  <2>1. NoData.size = 0 /\ NoData.position = 0 /\ NoData.impl = 0
    BY DEF NoData
  <2>2. SubSeq(block'[0], 0 + 1, 0 + 0) = <<>>
    BY SubSeqEmpty
  <2> QED
    BY <1>4, <2>1, <2>2 DEF Bytes
<1>6. Own'
  BY <1>5 DEF Own
<1>7. delivered' \o Bytes(data[buffer])' = FirstOf(offset', File)
  <2>1. delivered' \in Seq(Octets)
    BY <1>2, FileTyped, Cut
  <2> QED
    BY <1>1, <1>2, <1>5, <2>1, ConcatEmptySeq
<1>8. (callback = "onEndOfFile" => delivered = File)'
  BY <1>1
<1>9. /\ (\E m \in 0 .. Len(File) : delivered = FirstOf(m, File))'
      /\ (offset \in 0 .. Len(File))' /\ (eof => offset = Len(File))' /\ (armed => ~gone)'
  BY <1>1, <1>2 DEF FileInv
<1>10. (~gone => delivered \o Bytes(data[buffer]) = FirstOf(offset, File))'
  BY <1>7
<1> QED
  BY <1>3, <1>6, <1>8, <1>9, <1>10 DEF FileInv

(* Nothing that DataInv and Own speak of changes.                          *)
LEMMA DataStays ==
    ASSUME DataInv, Own, UNCHANGED dataVars
    PROVE  DataInv' /\ Untouched
<1>1. UNCHANGED <<value, stream, block, data, pieces, size, torn>>
  BY DEF dataVars
<1>2. DataInv'
  BY <1>1 DEF DataInv, InBlocks, Same, Views, View, Fits
<1>3. Others' = Others
  BY <1>1 DEF Others
<1>4. Own'
  BY <1>1, <1>3 DEF Own
<1>5. Bytes(data[buffer])' = Bytes(data[buffer])
  BY <1>1 DEF Bytes
<1> QED
  BY <1>1, <1>2, <1>4, <1>5 DEF Untouched

LEMMA OnEndOfFileKeeps ==
    ASSUME FileInv, OnEndOfFile
    PROVE  FileInv'
<1>1. /\ armed /\ Empty(buffer) /\ eof /\ armed' = FALSE /\ callback' = "onEndOfFile"
      /\ UNCHANGED dataVars /\ UNCHANGED <<offset, eof, gone, delivered>>
  BY DEF OnEndOfFile, Fires, AtTheEnd
<1>2. DataInv' /\ Untouched
  BY <1>1, DataStays DEF FileInv
<1>3. Own' /\ Bytes(data[buffer])' = Bytes(data[buffer])
  BY <1>2 DEF Untouched
<1>4. delivered = File
  BY <1>1, AllDelivered, FileTyped DEF FileInv
<1>5. (delivered \o Bytes(data[buffer]))' = delivered \o Bytes(data[buffer])
  BY <1>1, <1>3
<1> QED
  BY <1>1, <1>2, <1>3, <1>4, <1>5 DEF FileInv

LEMMA OnErrorKeeps ==
    ASSUME FileInv, OnError
    PROVE  FileInv'
<1>1. /\ armed' = FALSE /\ callback' = "onError"
      /\ UNCHANGED dataVars /\ UNCHANGED <<offset, eof, gone, delivered>>
  BY DEF OnError
<1>2. DataInv' /\ Untouched
  BY <1>1, DataStays DEF FileInv
<1>3. Own' /\ Bytes(data[buffer])' = Bytes(data[buffer])
  BY <1>2 DEF Untouched
<1>4. (delivered \o Bytes(data[buffer]))' = delivered \o Bytes(data[buffer])
  BY <1>1, <1>3
<1> QED
  BY <1>1, <1>2, <1>3, <1>4 DEF FileInv

LEMMA ReturnKeeps ==
    ASSUME FileInv, Return
    PROVE  FileInv'
<1>1. /\ callback' = "none" /\ Clear(tmp) /\ UNCHANGED <<offset, eof, armed, gone, delivered>>
  BY DEF Return
<1>2. tmp \in Names \ {buffer} /\ DataInv /\ Own
  BY FileNames DEF FileInv
<1>3. DataInv' /\ Untouched
  BY <1>1, <1>2, ClearLeaves
<1> QED
  BY <1>1, <1>3, FileStays

LEMMA DestroyKeeps ==
    ASSUME FileInv, Destroy
    PROVE  FileInv'
<1>1. /\ gone' = TRUE /\ armed' = FALSE /\ Clear(buffer)
      /\ UNCHANGED <<offset, eof, callback, delivered>>
  BY DEF Destroy
<1>2. DataInv'
  BY <1>1, ClearKeeps, FileNames DEF FileInv
<1>3. data'[buffer] = NoData
  BY <1>1, FileNames, InvParts DEF FileInv, Clear, Becomes, Assign
<1>4. Own'
  BY <1>3 DEF Own, NoData
<1> QED
  BY <1>1, <1>2, <1>4 DEF FileInv

LEMMA UsesKeeps ==
    ASSUME DataInv, Own, NEW x \in Mine, Uses(x)
    PROVE  DataInv' /\ Untouched
<1>1. Mine \subseteq Names \ {buffer}
  BY DEF Mine
<1>2. 0 .. MaxSize \subseteq Nat /\ 0 \in Nat
  OBVIOUS
<1>3. x \in Names \ {buffer}
  BY <1>1
<1>4. CASE Clear(x)
  BY <1>3, <1>4, ClearLeaves
<1>5. CASE \E y \in Mine \ {x} : Copy(x, y)
  BY <1>1, <1>3, <1>5, CopyLeaves
<1>6. CASE \E y \in Mine, pos \in 0 .. MaxSize, si \in 0 .. MaxSize : Slice(x, y, pos, si)
  BY <1>1, <1>2, <1>3, <1>6, SliceLeaves
<1>7. CASE GetByte(x)
  BY <1>3, <1>7, GetByteLeaves
<1>8. CASE \E b \in {junk} : WriteLocked(x, 0, [k \in 1 .. data[x].size |-> b])
  BY <1>3, <1>8, FillLockedLeaves
<1>9. CASE \E y \in Mine \ {x}, pos \in 0 .. MaxSize : CopyInto(x, pos, y)
  BY <1>1, <1>2, <1>3, <1>9, CopyIntoLeaves
<1>10. CASE Write(x)
  BY <1>3, <1>10, PutLeaves
<1>11. CASE ReadNothing(x)
  BY <1>3, <1>11, ClearLeaves DEF ReadNothing
<1>12. CASE ReadFront(x)
  BY <1>3, <1>12, ReadFrontLeaves
<1>13. CASE \E max \in 0 .. MaxSize : ReadSome(x, max)
  BY <1>2, <1>3, <1>13, ReadSomeLeaves
<1> QED
  BY <1>4, <1>5, <1>6, <1>7, <1>8, <1>9, <1>10, <1>11, <1>12, <1>13 DEF Uses

LEMMA ProgramKeeps ==
    ASSUME FileInv, Program
    PROVE  FileInv'
<1>1. PICK x \in Mine : Uses(x)
  BY DEF Program
<1>2. DataInv' /\ Untouched
  BY <1>1, UsesKeeps DEF FileInv
<1>3. UNCHANGED <<offset, eof, armed, gone, delivered>> /\ callback' = callback
  BY DEF Program, fileVars
<1> QED
  BY <1>2, <1>3, FileStays

LEMMA FileSteps == FileInv /\ [Next]_vars => FileInv'
<1> SUFFICES ASSUME FileInv, [Next]_vars PROVE FileInv'
  OBVIOUS
<1>1. CASE \E asked \in 0 .. MaxSize, n \in 0 .. MaxSize : Read(asked, n)
  <2>1. PICK asked \in 0 .. MaxSize, n \in 0 .. MaxSize : Read(asked, n)
    BY <1>1
  <2>2. asked \in Nat /\ n \in Nat
    OBVIOUS
  <2> QED
    BY <2>1, <2>2, ReadKeeps
<1>2. CASE OnChunk
  BY <1>2, OnChunkKeeps
<1>3. CASE OnEndOfFile
  BY <1>3, OnEndOfFileKeeps
<1>4. CASE OnError
  BY <1>4, OnErrorKeeps
<1>5. CASE Return
  BY <1>5, ReturnKeeps
<1>6. CASE Destroy
  BY <1>6, DestroyKeeps
<1>7. CASE Program
  BY <1>7, ProgramKeeps
<1>8. CASE UNCHANGED vars
  <2>1. UNCHANGED dataVars /\ UNCHANGED <<offset, eof, armed, gone, delivered>> /\ callback' = callback
    BY <1>8 DEF vars, fileVars
  <2>2. DataInv' /\ Untouched
    BY <2>1, DataStays DEF FileInv
  <2> QED
    BY <2>1, <2>2, FileStays
<1> QED
  BY <1>1, <1>2, <1>3, <1>4, <1>5, <1>6, <1>7, <1>8 DEF Next

LEMMA FileInvHolds == Spec => []FileInv
  BY FileBegins, FileSteps, PTL DEF Spec

(* Programs that share blocks, cut, copy, queue and write their variables  *)
(* see bytes of their own and a stream, until somebody writes where others *)
(* read, and nobody ever reads outside a block: for all files, names,      *)
(* sizes of reads and pieces, and every order of calls (Data.h, Data.cpp). *)
THEOREM ImplementsValuesHolds == Spec => []ImplementsValues
<1>1. FileInv => ImplementsValues
  BY ImplementsValuesOf DEF FileInv
<1> QED
  BY <1>1, FileInvHolds, PTL

(* A delegate that is given chunks of any file, with any sizes asked for,  *)
(* errors in between and reads from its callbacks, gets the bytes once and *)
(* in order, whatever it does to its variables meanwhile, and all of them  *)
(* before it is told of the end (AsyncFile.h:91-131).                       *)
THEOREM FileOrderHolds == Spec => []FileOrder
<1>1. FileInv => FileOrder
  <2> SUFFICES ASSUME FileInv PROVE FileOrder
    OBVIOUS
  <2>1. PICK n \in 0 .. Len(File) : delivered = FirstOf(n, File)
    BY DEF FileInv
  <2>2. Len(delivered) = n /\ n <= Len(File)
    BY <2>1, FileTyped, Cut
  <2>3. IsPrefix(delivered, File)
    <3>1. SubSeq(delivered, 1, n) = delivered
      BY <2>2, DeliveredTyped, SubSeqFull
    <3>2. SubSeq(File, 1, n) = delivered
      BY <2>1 DEF FirstOf
    <3> QED
      BY <2>2, <3>1, <3>2 DEF IsPrefix
  <2> QED
    BY <2>3 DEF FileInv, FileOrder
<1> QED
  BY <1>1, FileInvHolds, PTL
=============================================================================
