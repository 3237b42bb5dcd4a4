------------------------- MODULE HTTPRequestProofs -------------------------
(***************************************************************************)
(* What the server's side of an HTTP connection does with the bytes it is  *)
(* sent, for every number of them, every cutting and every limit.          *)
(*                                                                         *)
(* The parser is looked at one byte at a time: what holds of it before a   *)
(* byte holds after it, and so after the first n bytes of what onCanRead   *)
(* has, by induction over n.                                               *)
(***************************************************************************)
EXTENDS HTTPRequest, DequeTheorems

ParserType ==
    [lineNum : Nat, curLine : Seq(Bytes), buf : Seq(Bytes), ready : BOOLEAN, count : Nat,
     lines : Seq([text : Seq(Bytes), first : BOOLEAN]), fed : Seq(Bytes)]

(* It has parsed every byte it counted, those from the limit on excepted.  *)
Bounded(p) == p \in ParserType /\ Len(p.fed) <= p.count /\ Len(p.fed) < limit

LEMMA NewParserBounded == Bounded(NewParser)
<1>1. <<>> \in Seq(Bytes) /\ <<>> \in Seq([text : Seq(Bytes), first : BOOLEAN])
  BY EmptySeq
<1>2. Len(<<>>) = 0
  BY EmptySeq
<1> QED
  BY <1>1, <1>2, HTTPAssumption DEF Bounded, ParserType, NewParser

(* The parts of an iteration keep the type.                                *)
LEMMA EndOfLineType ==
    ASSUME NEW p \in ParserType
    PROVE  EndOfLine(p) \in ParserType /\ EndOfLine(p).fed = p.fed /\ EndOfLine(p).count = p.count
<1>1. p.curLine \o p.buf \in Seq(Bytes) /\ <<>> \in Seq(Bytes)
  BY ConcatProperties, EmptySeq DEF ParserType
<1>2. p.lineNum + 1 \in Nat
  BY DEF ParserType
<1>3. CASE AtBlankLine(p)
  BY <1>2, <1>3 DEF EndOfLine, ParserType
<1>4. CASE ~AtBlankLine(p)
  BY <1>1, <1>2, <1>4 DEF EndOfLine, Completed, ParserType
<1> QED
  BY <1>3, <1>4

LEMMA InLineType ==
    ASSUME NEW p \in ParserType, NEW b \in Bytes
    PROVE  InLine(p, b) \in ParserType /\ InLine(p, b).fed = p.fed /\ InLine(p, b).count = p.count
<1> DEFINE line == [text |-> p.curLine, first |-> p.lineNum = 1]
           q == IF StartsLine(p, b) THEN WithLine(p) ELSE p
<1>1. line \in [text : Seq(Bytes), first : BOOLEAN]
  BY DEF ParserType
<1>2. Append(p.lines, line) \in Seq([text : Seq(Bytes), first : BOOLEAN]) /\ <<>> \in Seq(Bytes)
  BY <1>1, AppendProperties, EmptySeq DEF ParserType
<1>3. q \in ParserType /\ q.fed = p.fed /\ q.count = p.count
  BY <1>2 DEF WithLine, ParserType
<1>4. InLine(p, b) = [q EXCEPT !.buf = Append(q.buf, b)]
  BY DEF InLine
<1> HIDE DEF q
<1>5. Append(q.buf, b) \in Seq(Bytes)
  BY <1>3, AppendProperties DEF ParserType
<1> QED
  BY <1>3, <1>4, <1>5 DEF ParserType

(* What an iteration does to the fields that every byte changes.           *)
LEMMA ConsumeBounded ==
    ASSUME NEW p, Bounded(p), NEW b \in Bytes
    PROVE  Bounded(Consume(p, b))
<1> DEFINE q == [p EXCEPT !.count = p.count + 1]
           r == [q EXCEPT !.fed = Append(q.fed, b)]
<1>1. q \in ParserType /\ q.fed = p.fed /\ q.count = p.count + 1
  <2>1. p \in ParserType /\ p.count + 1 \in Nat
    BY DEF Bounded, ParserType
  <2> QED
    BY <2>1 DEF ParserType
<1>2. Consume(p, b) = IF Full(q) THEN q
                      ELSE CASE b = "cr" -> r [] b = "lf" -> EndOfLine(r) [] OTHER -> InLine(r, b)
  BY DEF Consume
<1> HIDE DEF q
<1>3. /\ Append(q.fed, b) \in Seq(Bytes) /\ Len(Append(q.fed, b)) = Len(p.fed) + 1
  BY <1>1, AppendProperties DEF ParserType
<1>4. r \in ParserType /\ r.fed = Append(q.fed, b) /\ r.count = p.count + 1
  BY <1>1, <1>3 DEF ParserType
<1>5. Len(p.fed) \in Nat /\ p.count \in Nat
  BY LenProperties DEF Bounded, ParserType
<1> HIDE DEF r
<1>6. CASE Full(q)
  BY <1>1, <1>2, <1>5, <1>6 DEF Bounded
<1>7. CASE ~Full(q)
  <2>1. Len(r.fed) = Len(p.fed) + 1 /\ Len(r.fed) <= r.count /\ Len(r.fed) < limit
    BY <1>1, <1>3, <1>4, <1>5, <1>7, HTTPAssumption DEF Full, Bounded
  <2>2. Bounded(r)
    BY <1>4, <2>1 DEF Bounded
  <2>3. Bounded(EndOfLine(r)) /\ Bounded(InLine(r, b))
    BY <1>4, <2>1, EndOfLineType, InLineType DEF Bounded
  <2> QED
    BY <1>2, <1>7, <2>2, <2>3
<1> QED
  BY <1>6, <1>7

-----------------------------------------------------------------------------
(* Parsers is defined by recursion: f is it for the first n bytes of data. *)
IsParsing(f, data, n) ==
    f = [i \in 0 .. n |-> IF i = 0 THEN parser ELSE Consume(f[i - 1], data[i])]

(* It exists, which the definition alone does not say.                     *)
LEMMA ParsingExists ==
    ASSUME NEW data
    PROVE  \A n \in Nat : \E f : IsParsing(f, data, n)
<1> DEFINE S == {n \in Nat : \E f : IsParsing(f, data, n)}
<1>1. 0 \in S
  <2> DEFINE f == [i \in 0 .. 0 |-> parser]
  <2>1. \A i \in 0 .. 0 : f[i] = IF i = 0 THEN parser ELSE Consume(f[i - 1], data[i])
    OBVIOUS
  <2>2. IsParsing(f, data, 0)
    BY <2>1 DEF IsParsing
  <2> QED
    BY <2>2
<1>2. ASSUME NEW n \in Nat, n \in S PROVE n + 1 \in S
  <2>1. PICK f : IsParsing(f, data, n)
    BY <1>2
  <2> DEFINE last == Consume(f[n], data[n + 1])
             g == [i \in 0 .. n + 1 |-> IF i = n + 1 THEN last ELSE f[i]]
  <2>2. \A i \in 0 .. n : f[i] = IF i = 0 THEN parser ELSE Consume(f[i - 1], data[i])
    BY <2>1 DEF IsParsing
  <2>3. \A i \in 0 .. n + 1 : g[i] = IF i = 0 THEN parser ELSE Consume(g[i - 1], data[i])
    BY <2>2
  <2>4. IsParsing(g, data, n + 1)
    BY <2>3 DEF IsParsing
  <2> QED
    BY <2>4
<1> HIDE DEF S
<1>3. \A n \in Nat : n \in S
  BY <1>1, <1>2, Induction
<1> QED
  BY <1>3 DEF S

(* So each byte is consumed by the parser the bytes before it made.        *)
LEMMA ParsersStep ==
    ASSUME NEW data \in Seq(Bytes)
    PROVE  /\ Parsers(data)[0] = parser
           /\ \A n \in 1 .. Len(data) :
                  Parsers(data)[n] = Consume(Parsers(data)[n - 1], data[n])
<1> DEFINE f == CHOOSE g : IsParsing(g, data, Len(data))
<1>1. Len(data) \in Nat
  BY LenProperties
<1>2. IsParsing(f, data, Len(data))
  BY <1>1, ParsingExists
<1>3. Parsers(data) = f
  BY DEF Parsers, IsParsing
<1> HIDE DEF f
<1>4. \A i \in 0 .. Len(data) : f[i] = IF i = 0 THEN parser ELSE Consume(f[i - 1], data[i])
  BY <1>2 DEF IsParsing
<1> QED
  BY <1>1, <1>3, <1>4

(* write takes at least one byte, if there is one, and stops at the first  *)
(* at which it has to.                                                     *)
LEMMA ConsumedProperties ==
    ASSUME NEW data \in Seq(Bytes)
    PROVE  /\ Consumed(data) \in 0 .. Len(data)
           /\ \A n \in 1 .. Len(data) : n < Consumed(data) => ~Parsers(data)[n].ready
<1> DEFINE stops == {n \in 1 .. Len(data) : Parsers(data)[n].ready \/ Full(Parsers(data)[n])}
<1>1. Len(data) \in Nat
  BY LenProperties
<1>2. Consumed(data) = IF stops = {} THEN Len(data) ELSE Min(stops)
  BY DEF Consumed
<1>3. stops \subseteq Nat /\ stops \subseteq 1 .. Len(data)
  BY <1>1
<1>4. \A n \in 1 .. Len(data) : n \notin stops => ~Parsers(data)[n].ready
  OBVIOUS
<1> DEFINE c == Consumed(data)
<1> HIDE DEF stops, c
<1>5. CASE stops = {}
  <2>1. c = Len(data)
    BY <1>2, <1>5 DEF c
  <2> QED
    BY <1>1, <1>4, <1>5, <2>1 DEF c
<1>6. CASE stops # {}
  <2>1. \E x \in stops : \A y \in stops : x =< y
    BY <1>3, <1>6, Least
  <2>2. Min(stops) \in stops /\ \A y \in stops : Min(stops) =< y
    BY <2>1 DEF Min
  <2>3. c \in stops /\ \A y \in stops : c =< y
    BY <1>2, <1>6, <2>2 DEF c
  <2>4. c \in 0 .. Len(data)
    BY <1>1, <1>3, <2>3
  <2>5. \A n \in 1 .. Len(data) : n < c => n \notin stops
    BY <1>1, <1>3, <2>3
  <2> QED
    BY <1>4, <2>4, <2>5 DEF c
<1> QED
  BY <1>5, <1>6

LEMMA ParsersBounded ==
    ASSUME Bounded(parser), NEW data \in Seq(Bytes)
    PROVE  \A n \in 0 .. Len(data) : Bounded(Parsers(data)[n])
<1> DEFINE S == {n \in Nat : n <= Len(data) => Bounded(Parsers(data)[n])}
<1>1. Len(data) \in Nat /\ \A i \in 1 .. Len(data) : data[i] \in Bytes
  BY LenProperties
<1>2. 0 \in S
  BY ParsersStep
<1>3. ASSUME NEW n \in Nat, n \in S PROVE n + 1 \in S
  <2> SUFFICES ASSUME n + 1 <= Len(data) PROVE Bounded(Parsers(data)[n + 1])
    OBVIOUS
  <2>1. Bounded(Parsers(data)[n])
    BY <1>1, <1>3
  <2>2. Parsers(data)[n + 1] = Consume(Parsers(data)[(n + 1) - 1], data[n + 1])
    BY <1>1, ParsersStep
  <2>3. (n + 1) - 1 = n /\ data[n + 1] \in Bytes
    BY <1>1
  <2> QED
    BY <2>1, <2>2, <2>3, ConsumeBounded
<1> HIDE DEF S
<1>4. \A n \in Nat : n \in S
  BY <1>2, <1>3, Induction
<1> QED
  BY <1>1, <1>4 DEF S

-----------------------------------------------------------------------------
(* The bytes: every one that came is taken, left over or still there.      *)
Typed ==
    /\ socket \in Seq(Bytes) /\ sent \in Seq(Bytes) /\ taken \in Seq(Bytes)
    /\ body \in Seq(Bytes) /\ edge \in BOOLEAN /\ overtaken \in BOOLEAN
    /\ state \in {"PARSING_HEADERS", "READING_BODY"}
    /\ pc \in {"loop", "onHeaders", "onCanRead"}
    /\ Bounded(parser)
    /\ parser.ready <=> pc = "onHeaders"

NoneLost == ~overtaken => taken \o body \o socket = sent

HTTPInv == Typed /\ NoneLost

(* What onCanRead has, and what it leaves in the socket.                   *)
LEMMA InputProperties ==
    ASSUME Typed
    PROVE  /\ Readable \in Seq(Bytes) /\ Len(Readable) \in 0 .. Len(socket)
           /\ AllAfter(Len(Readable), socket) \in Seq(Bytes)
           /\ Readable \o AllAfter(Len(Readable), socket) = socket
           /\ Input \in Seq(Bytes)
<1> DEFINE n == Smaller(ReadSize, Len(socket))
<1>1. socket \in Seq(Bytes) /\ Len(socket) \in Nat
  BY LenProperties DEF Typed
<1>2. n \in 0 .. Len(socket)
  BY <1>1, HTTPAssumption DEF Smaller
<1>3. Readable = FirstOf(n, socket)
  BY DEF Readable, First
<1> HIDE DEF n
<1>4. /\ FirstOf(n, socket) \in Seq(Bytes) /\ Len(FirstOf(n, socket)) = n
      /\ AllAfter(n, socket) \in Seq(Bytes)
      /\ FirstOf(n, socket) \o AllAfter(n, socket) = socket
  BY <1>1, <1>2, Cut
<1>5. body \in Seq(Bytes)
  BY DEF Typed
<1> QED
  BY <1>2, <1>3, <1>4, <1>5 DEF Input

(* The parser takes the first bytes of its input and leaves the others.    *)
LEMMA TakenAndLeft ==
    ASSUME NEW data \in Seq(Bytes), NEW n \in 0 .. Len(data)
    PROVE  /\ First(n, data) \in Seq(Bytes) /\ AllAfter(n, data) \in Seq(Bytes)
           /\ First(n, data) \o AllAfter(n, data) = data
<1>1. Len(data) \in Nat
  BY LenProperties
<1>2. Smaller(n, Len(data)) = n
  BY <1>1 DEF Smaller
<1> QED
  BY <1>2, Cut DEF First

LEMMA InitHTTPInv == Init => HTTPInv
<1> SUFFICES ASSUME Init PROVE HTTPInv
  OBVIOUS
<1>1. <<>> \in Seq(Bytes) /\ <<>> \o <<>> = <<>>
  BY EmptySeq, ConcatEmptySeq
<1>2. ~parser.ready
  BY DEF Init, NewParser
<1> QED
  BY <1>1, <1>2, NewParserBounded DEF Init, HTTPInv, Typed, NoneLost

(* onCanRead moves the bytes it takes, and none of the others.             *)
LEMMA ParseStep ==
    ASSUME HTTPInv, ParseHeaders
    PROVE  HTTPInv'
<1> DEFINE data == Input
           n == Consumed(data)
           rest == IF ReadsSocket THEN AllAfter(Len(Readable), socket) ELSE socket
<1>1. /\ socket' = rest /\ body' = AllAfter(n, data) /\ parser' = Parsers(data)[n]
      /\ taken' = taken \o First(n, data) /\ edge' = FALSE /\ UNCHANGED <<sent, overtaken>>
  BY DEF ParseHeaders
<1>2. \/ parser'.ready /\ state' = "READING_BODY" /\ pc' = "onHeaders"
      \/ ~parser'.ready /\ state' = state /\ pc' = "loop"
  BY DEF ParseHeaders
<1>3. Typed
  BY DEF HTTPInv
<1>4. data \in Seq(Bytes) /\ rest \in Seq(Bytes)
  BY <1>3, InputProperties DEF Typed
<1>5. data \o rest = body \o socket
  <2>1. CASE ReadsSocket
    <3>1. <<>> \o socket = socket
      BY <1>3, ConcatEmptySeq DEF Typed
    <3> QED
      BY <2>1, <3>1, <1>3, InputProperties DEF ReadsSocket, Input
  <2>2. CASE ~ReadsSocket
    BY <2>2 DEF Input
  <2> QED
    BY <2>1, <2>2
<1> HIDE DEF data, rest
<1>6. n \in 0 .. Len(data)
  BY <1>4, ConsumedProperties
<1>7. Bounded(parser')
  <2>1. Bounded(parser)
    BY <1>3 DEF Typed
  <2>2. \A k \in 0 .. Len(data) : Bounded(Parsers(data)[k])
    BY <1>4, <2>1, ParsersBounded
  <2>3. Bounded(Parsers(data)[n])
    BY <1>6, <2>2
  <2> QED
    BY <1>1, <2>3
<1> HIDE DEF n
<1>8. /\ First(n, data) \in Seq(Bytes) /\ AllAfter(n, data) \in Seq(Bytes)
      /\ First(n, data) \o AllAfter(n, data) = data
  BY <1>4, <1>6, TakenAndLeft
<1>9. taken \in Seq(Bytes) /\ body \in Seq(Bytes) /\ socket \in Seq(Bytes)
  BY <1>3 DEF Typed
<1>10. (taken \o First(n, data)) \o AllAfter(n, data) \o rest = taken \o body \o socket
  <2> DEFINE f == First(n, data)
             a == AllAfter(n, data)
  <2>1. f \in Seq(Bytes) /\ a \in Seq(Bytes) /\ f \o a = data
    BY <1>8
  <2> HIDE DEF f, a
  <2>0. \A x, y, z \in Seq(Bytes) : (x \o y) \o z = x \o (y \o z)
    BY Associative
  <2>2. ((taken \o f) \o a) \o rest = (taken \o (f \o a)) \o rest
    BY <1>9, <2>0, <2>1
  <2>3. (taken \o data) \o rest = taken \o (data \o rest)
    BY <1>4, <1>9, <2>0
  <2>4. taken \o (body \o socket) = (taken \o body) \o socket
    BY <1>9, <2>0
  <2> QED
    BY <1>5, <2>1, <2>2, <2>3, <2>4 DEF f, a
<1>11. taken' \in Seq(Bytes)
  BY <1>1, <1>8, <1>9, ConcatProperties
<1>12. NoneLost'
  BY <1>1, <1>10 DEF HTTPInv, NoneLost
<1>13. Typed'
  BY <1>1, <1>2, <1>3, <1>4, <1>7, <1>8, <1>11 DEF Typed
<1> QED
  BY <1>12, <1>13 DEF HTTPInv

LEMMA ReadStep ==
    ASSUME HTTPInv, Read
    PROVE  HTTPInv'
<1> DEFINE rest == AllAfter(Len(Readable), socket)
<1>1. /\ taken' = taken \o Readable /\ socket' = rest
      /\ overtaken' = (overtaken \/ body # <<>>)
      /\ UNCHANGED <<edge, sent, state, body, parser, pc>>
  BY DEF Read
<1>2. Typed
  BY DEF HTTPInv
<1>3. Readable \in Seq(Bytes) /\ rest \in Seq(Bytes) /\ Readable \o rest = socket
  BY <1>2, InputProperties
<1>4. taken \in Seq(Bytes) /\ body \in Seq(Bytes) /\ socket \in Seq(Bytes)
  BY <1>2 DEF Typed
<1> HIDE DEF rest
<1>5. taken' \in Seq(Bytes)
  BY <1>1, <1>3, <1>4, ConcatProperties
<1>6. ASSUME ~overtaken' PROVE taken' \o body' \o socket' = sent'
  <2>1. ~overtaken /\ body = <<>>
    BY <1>1, <1>6
  <2>2. taken \o <<>> = taken /\ (taken \o Readable) \o <<>> = taken \o Readable
    BY <1>1, <1>4, <1>5, ConcatEmptySeq
  <2>3. (taken \o Readable) \o rest = taken \o (Readable \o rest)
    <3>1. \A x, y, z \in Seq(Bytes) : (x \o y) \o z = x \o (y \o z)
      BY Associative
    <3> QED
      BY <1>3, <1>4, <3>1
  <2> QED
    BY <1>1, <1>3, <2>1, <2>2, <2>3 DEF HTTPInv, NoneLost
<1>7. Typed'
  BY <1>1, <1>2, <1>3, <1>5 DEF Typed
<1> QED
  BY <1>6, <1>7 DEF HTTPInv, NoneLost

LEMMA SendStep ==
    ASSUME HTTPInv, NEW b \in Bytes, Send(b)
    PROVE  HTTPInv'
<1>1. /\ sent' = Append(sent, b) /\ socket' = Append(socket, b) /\ edge' = TRUE
      /\ UNCHANGED <<state, body, parser, pc, taken, overtaken>>
  BY DEF Send
<1>2. Typed /\ taken \o body \in Seq(Bytes)
  BY ConcatProperties DEF HTTPInv, Typed
<1>3. sent' \in Seq(Bytes) /\ socket' \in Seq(Bytes)
  BY <1>1, <1>2, AppendProperties DEF Typed
<1>4. (taken \o body) \o Append(socket, b) = Append(taken \o body \o socket, b)
  BY <1>2, ConcatAppend DEF Typed
<1> QED
  BY <1>1, <1>2, <1>3, <1>4 DEF HTTPInv, NoneLost, Typed

LEMMA HTTPStep == HTTPInv /\ [Next]_vars => HTTPInv'
<1> SUFFICES ASSUME HTTPInv, [Next]_vars PROVE HTTPInv'
  OBVIOUS
<1>1. CASE ReturnHeaders
  <2>1. ~NewParser.ready
    BY DEF NewParser
  <2> QED
    BY <1>1, <2>1, NewParserBounded DEF ReturnHeaders, HTTPInv, Typed, NoneLost, netVars
<1>2. CASE CanRead
  BY <1>2 DEF CanRead, HTTPInv, Typed, NoneLost
<1>3. CASE ReturnCanRead
  BY <1>3 DEF ReturnCanRead, HTTPInv, Typed, NoneLost, netVars
<1>4. CASE Reset
  BY <1>4 DEF Reset, HTTPInv, Typed, NoneLost, netVars
<1>5. CASE UNCHANGED vars
  BY <1>5 DEF vars, HTTPInv, Typed, NoneLost, netVars
<1> QED
  BY <1>1, <1>2, <1>3, <1>4, <1>5, ParseStep, ReadStep, SendStep DEF Next, LoopStep

LEMMA HTTPInvariance == Spec => []HTTPInv
  BY InitHTTPInv, HTTPStep, PTL DEF Spec

(* What the peer sent is taken once and in its order, however it was cut   *)
(* and whatever a parser leaves over, with a delegate that never reads     *)
(* while there is something left over (HTTPRequest.cpp:146-157).           *)
THEOREM InOrderHolds == Spec => []InOrder
<1>1. HTTPInv => InOrder
  <2> SUFFICES ASSUME HTTPInv PROVE InOrder
    OBVIOUS
  <2>1. TypeOK
    BY DEF HTTPInv, Typed, TypeOK, Bounded, ParserType
  <2> QED
    BY <2>1 DEF HTTPInv, NoneLost, InOrder
<1> QED
  BY <1>1, HTTPInvariance, PTL

-----------------------------------------------------------------------------
(* The text of a parser, as a whole and byte by byte.                      *)
LEMMA WithoutAppend ==
    ASSUME NEW s \in Seq(Bytes), NEW x \in Bytes, NEW c
    PROVE  /\ Without(s, c) \in Seq(Bytes)
           /\ Without(Append(s, x), c) = IF x = c THEN Without(s, c)
                                         ELSE Append(Without(s, c), x)
<1>1. Filter(Append(s, x), Bytes \ {c})
          = IF x \in Bytes \ {c} THEN Append(Filter(s, Bytes \ {c}), x)
                                 ELSE Filter(s, Bytes \ {c})
  BY FilterAppend
<1>2. Filter(s, Bytes \ {c}) \in Seq(Bytes)
  BY FilterType
<1> QED
  BY <1>1, <1>2 DEF Without

(* A new line starts with b after the text.                                *)
Begins(text, b) == text = <<>> \/ (text[Len(text)] = "lf" /\ b = "char")

Positions(n) == [i \in 1 .. n |-> i]

LEMMA PositionsGrow ==
    ASSUME NEW n \in Nat
    PROVE  Positions(n) \in Seq(1 .. n) /\ Positions(n + 1) = Append(Positions(n), n + 1)
<1>1. Positions(n) \in [1 .. n -> 1 .. n] /\ Positions(n) \in [1 .. n -> Nat]
  BY DEF Positions
<1>2. Positions(n) \in Seq(1 .. n) /\ Positions(n) \in Seq(Nat) /\ Len(Positions(n)) = n
  BY <1>1
<1>3. Positions(n + 1) \in [1 .. n + 1 -> Nat] /\ n + 1 \in Nat
  BY DEF Positions
<1>4. Positions(n + 1) \in Seq(Nat) /\ Len(Positions(n + 1)) = n + 1
  BY <1>3
<1>5. /\ Append(Positions(n), n + 1) \in Seq(Nat) /\ Len(Append(Positions(n), n + 1)) = n + 1
      /\ \A i \in 1 .. n : Append(Positions(n), n + 1)[i] = Positions(n)[i]
      /\ Append(Positions(n), n + 1)[n + 1] = n + 1
  BY <1>2, <1>3, AppendProperties
<1>6. \A i \in 1 .. n + 1 : Positions(n + 1)[i] = Append(Positions(n), n + 1)[i]
  BY <1>5 DEF Positions
<1> QED
  BY <1>2, <1>4, <1>5, <1>6, SeqEqual

LEMMA StartsGrow ==
    ASSUME NEW t \in Seq(Bytes), NEW b \in Bytes
    PROVE  /\ StartsInOrder(t) \in Seq(1 .. Len(t))
           /\ StartsInOrder(Append(t, b)) = IF Begins(t, b)
                                            THEN Append(StartsInOrder(t), Len(t) + 1)
                                            ELSE StartsInOrder(t)
<1> DEFINE n == Len(t)
           u == Append(t, b)
<1>1. /\ n \in Nat /\ Len(u) = n + 1 /\ u[n + 1] = b /\ (n = 0 <=> t = <<>>)
      /\ \A i \in 1 .. n : u[i] = t[i]
  BY LenProperties, AppendProperties, EmptySeq
<1>2. StartsInOrder(t) = Filter(Positions(n), Starts(t))
  BY DEF StartsInOrder, Positions
<1>3. StartsInOrder(u) = Filter(Positions(n + 1), Starts(u))
  BY <1>1 DEF StartsInOrder, Positions
<1>4. n + 1 \in Starts(u) <=> Begins(t, b)
  BY <1>1 DEF Starts, Begins
<1>5. \A i \in 1 .. n : i \in Starts(u) <=> i \in Starts(t)
  BY <1>1 DEF Starts
<1> HIDE DEF n, u
<1>6. /\ Positions(n) \in Seq(1 .. n) /\ Positions(n) \in Seq(Nat)
      /\ Positions(n + 1) = Append(Positions(n), n + 1)
  BY <1>1, PositionsGrow, SeqMonotonic, 1 .. n \subseteq Nat
<1>7. Filter(Positions(n), Starts(u)) = Filter(Positions(n), Starts(t))
  <2>1. \A i \in 1 .. Len(Positions(n)) : Positions(n)[i] \in 1 .. n
    BY <1>6, ElementOfSeq
  <2> QED
    BY <1>5, <1>6, <2>1, FilterSame
<1>8. Filter(Append(Positions(n), n + 1), Starts(u))
          = IF n + 1 \in Starts(u) THEN Append(Filter(Positions(n), Starts(u)), n + 1)
                                   ELSE Filter(Positions(n), Starts(u))
  <2>1. n + 1 \in Nat
    BY <1>1
  <2>2. \A s \in Seq(Nat) : \A x \in Nat : \A T :
            Filter(Append(s, x), T) = IF x \in T THEN Append(Filter(s, T), x) ELSE Filter(s, T)
    BY FilterAppend
  <2> QED
    BY <1>6, <2>1, <2>2
<1>9. StartsInOrder(t) \in Seq(1 .. n)
  BY <1>2, <1>6, FilterType
<1> QED
  BY <1>2, <1>3, <1>4, <1>6, <1>7, <1>8, <1>9 DEF n, u

(* The k-th line, of the part of the text that it is.                      *)
LineOf(part, k) ==
    [text  |-> Without(part, "lf"),
     first |-> k = 1 /\ Len(part) = Len(Without(part, "lf")) + 1]

Lines == [text : Seq(Bytes), first : BOOLEAN]

LastLine(t) == SubSeq(t, StartsInOrder(t)[Len(StartsInOrder(t))], Len(t))

LEMMA LineType == \A part \in Seq(Bytes) : \A k : LineOf(part, k) \in Lines
  BY FilterType DEF LineOf, Lines, Without

LEMMA LinesType ==
    ASSUME NEW t \in Seq(Bytes), StartsInOrder(t) # <<>>
    PROVE  LET starts == StartsInOrder(t) IN
           /\ AllButLastLine(t) \in Seq(Lines)
           /\ Len(AllButLastLine(t)) = Len(starts) - 1
           /\ \A k \in 1 .. Len(starts) - 1 :
                  /\ starts[k] \in 1 .. Len(t) /\ starts[k + 1] - 1 \in 0 .. Len(t)
                  /\ AllButLastLine(t)[k] = LineOf(SubSeq(t, starts[k], starts[k + 1] - 1), k)
<1> DEFINE starts == StartsInOrder(t)
           m == Len(starts) - 1
<1>1. starts \in Seq(1 .. Len(t)) /\ Len(t) \in Nat
  <2>1. CASE t = <<>>
    <3>1. Positions(0) \in Seq(1 .. 0) /\ Len(t) = 0
      BY <2>1, PositionsGrow, EmptySeq
    <3>2. StartsInOrder(t) = Filter(Positions(0), Starts(t))
      BY <3>1 DEF StartsInOrder, Positions
    <3> QED
      BY <3>1, <3>2, FilterType
  <2>2. CASE t # <<>>
    <3>1. t[1] \in Bytes
      BY <2>2, EmptySeq, ElementOfSeq
    <3> QED
      BY <3>1, StartsGrow, LenProperties
  <2> QED
    BY <2>1, <2>2
<1>2. m \in Nat
  BY <1>1, EmptySeq
<1>3. \A k \in 1 .. m + 1 : starts[k] \in 1 .. Len(t)
  BY <1>1, <1>2, ElementOfSeq
<1>4. AllButLastLine(t) = [k \in 1 .. m |-> LineOf(SubSeq(t, starts[k], starts[k + 1] - 1), k)]
  BY DEF AllButLastLine, LineOf
<1> HIDE DEF starts, m
<1>5. \A k \in 1 .. m : starts[k] \in 1 .. Len(t) /\ starts[k + 1] - 1 \in 0 .. Len(t)
  <2> SUFFICES ASSUME NEW k \in 1 .. m
               PROVE  starts[k] \in 1 .. Len(t) /\ starts[k + 1] - 1 \in 0 .. Len(t)
    OBVIOUS
  <2>1. k \in 1 .. m + 1 /\ k + 1 \in 1 .. m + 1
    BY <1>2
  <2>2. starts[k] \in 1 .. Len(t) /\ starts[k + 1] \in 1 .. Len(t)
    BY <1>3, <2>1
  <2> QED
    BY <1>1, <2>2
<1>6. \A k \in 1 .. m : LineOf(SubSeq(t, starts[k], starts[k + 1] - 1), k) \in Lines
  <2> SUFFICES ASSUME NEW k \in 1 .. m
               PROVE  LineOf(SubSeq(t, starts[k], starts[k + 1] - 1), k) \in Lines
    OBVIOUS
  <2>1. starts[k] \in Nat \ {0} /\ starts[k + 1] - 1 \in 0 .. Len(t)
    BY <1>5
  <2>2. \A a \in Nat \ {0}, z \in 0 .. Len(t) : SubSeq(t, a, z) \in Seq(Bytes)
    <3>1. \A i \in 1 .. Len(t) : t[i] \in Bytes
      BY ElementOfSeq
    <3> QED
      BY <1>1, <3>1, SubSeqProperties
  <2> QED
    BY <2>1, <2>2, LineType
<1>7. AllButLastLine(t) \in [1 .. m -> Lines]
  BY <1>4, <1>6
<1>8. AllButLastLine(t) \in Seq(Lines) /\ Len(AllButLastLine(t)) = m
  BY <1>2, <1>7
<1>9. \A k \in 1 .. m : AllButLastLine(t)[k] = LineOf(SubSeq(t, starts[k], starts[k + 1] - 1), k)
  BY <1>4
<1> QED
  BY <1>5, <1>8, <1>9 DEF starts, m

(* A text that grows says the same lines, or one more when one begins.     *)
LEMMA LinesGrow ==
    ASSUME NEW t \in Seq(Bytes), NEW b \in Bytes, StartsInOrder(t) # <<>>
    PROVE  AllButLastLine(Append(t, b))
               = IF Begins(t, b)
                 THEN Append(AllButLastLine(t), LineOf(LastLine(t), Len(StartsInOrder(t))))
                 ELSE AllButLastLine(t)
<1> DEFINE u == Append(t, b)
           n == Len(t)
           st == StartsInOrder(t)
           su == StartsInOrder(u)
           m == Len(st) - 1
           lt == AllButLastLine(t)
           lu == AllButLastLine(u)
<1>1. u \in Seq(Bytes) /\ Len(u) = n + 1 /\ n \in Nat
  BY AppendProperties, LenProperties
<1>2. st \in Seq(1 .. n) /\ m \in Nat /\ su = IF Begins(t, b) THEN Append(st, n + 1) ELSE st
  BY StartsGrow, EmptySeq
<1>3. st \in Seq(Nat) /\ \A k \in 1 .. m + 1 : st[k] \in 1 .. n
  BY <1>1, <1>2, ElementOfSeq, SeqMonotonic, 1 .. n \subseteq Nat
<1>4. /\ lt \in Seq(Lines) /\ Len(lt) = m
      /\ \A k \in 1 .. m : lt[k] = LineOf(SubSeq(t, st[k], st[k + 1] - 1), k)
  BY LinesType
<1>5. /\ Append(st, n + 1) \in Seq(Nat) /\ Append(st, n + 1) # <<>> /\ Len(Append(st, n + 1)) = m + 2
      /\ \A k \in 1 .. m + 1 : Append(st, n + 1)[k] = st[k]
      /\ Append(st, n + 1)[m + 2] = n + 1
  <2>1. Len(st) = m + 1 /\ n + 1 \in Nat
    BY <1>1, <1>2
  <2>2. \A s \in Seq(Nat) : \A x \in Nat :
            /\ Append(s, x) \in Seq(Nat) /\ Append(s, x) # <<>> /\ Len(Append(s, x)) = Len(s) + 1
            /\ \A k \in 1 .. Len(s) : Append(s, x)[k] = s[k]
            /\ Append(s, x)[Len(s) + 1] = x
    BY AppendProperties
  <2> HIDE DEF m, n
  <2>3. (m + 1) + 1 = m + 2
    BY <1>2
  <2> QED
    BY <1>3, <2>1, <2>2, <2>3
<1>6. su # <<>>
  BY <1>2, <1>5
<1>7. /\ lu \in Seq(Lines) /\ Len(lu) = Len(su) - 1
      /\ \A k \in 1 .. Len(su) - 1 : lu[k] = LineOf(SubSeq(u, su[k], su[k + 1] - 1), k)
  BY <1>1, <1>6, LinesType
<1>8. \A k \in 1 .. m : SubSeq(u, st[k], st[k + 1] - 1) = SubSeq(t, st[k], st[k + 1] - 1)
  <2> SUFFICES ASSUME NEW k \in 1 .. m
               PROVE  SubSeq(u, st[k], st[k + 1] - 1) = SubSeq(t, st[k], st[k + 1] - 1)
    OBVIOUS
  <2>1. st[k] \in Nat \ {0} /\ st[k + 1] - 1 \in 0 .. n
    <3>1. k \in 1 .. m + 1 /\ k + 1 \in 1 .. m + 1
      BY <1>2
    <3>2. st[k] \in 1 .. n /\ st[k + 1] \in 1 .. n
      BY <1>3, <3>1
    <3> QED
      BY <1>1, <3>2
  <2>2. \A a \in Nat \ {0} : \A z \in 0 .. n : SubSeq(u, a, z) = SubSeq(t, a, z)
    BY PartOfAppend
  <2> QED
    BY <2>1, <2>2
<1>9. LastLine(t) = SubSeq(t, st[m + 1], n)
  <2>1. Len(st) = m + 1
    BY <1>2
  <2> QED
    BY <2>1 DEF LastLine
<1>10. SubSeq(u, st[m + 1], n) = SubSeq(t, st[m + 1], n) /\ LastLine(t) \in Seq(Bytes)
  <2>1. st[m + 1] \in Nat \ {0} /\ n \in 0 .. n
    BY <1>1, <1>2, <1>3
  <2>2. \A a \in Nat \ {0} : \A z \in 0 .. n :
            SubSeq(u, a, z) = SubSeq(t, a, z) /\ SubSeq(t, a, z) \in Seq(Bytes)
    BY PartOfAppend
  <2> QED
    BY <1>9, <2>1, <2>2
<1> HIDE DEF u, n, st, su, m, lt, lu
<1>11. CASE ~Begins(t, b)
  <2>1. Len(lu) = Len(lt) /\ \A k \in 1 .. Len(lu) : lu[k] = lt[k]
    <3>1. su = st /\ Len(su) - 1 = m
      BY <1>2, <1>11 DEF m
    <3> QED
      BY <1>4, <1>7, <1>8, <3>1
  <2>2. lu = lt
    BY <1>4, <1>7, <2>1, SeqEqual
  <2> QED
    BY <1>11, <2>2 DEF lu, lt, u
<1>12. CASE Begins(t, b)
  <2> DEFINE line == LineOf(LastLine(t), m + 1)
             lv == Append(lt, line)
  <2>1. line \in Lines
    BY <1>10, LineType
  <2> HIDE DEF line
  <2>2. /\ lv \in Seq(Lines) /\ Len(lv) = m + 1 /\ lv[m + 1] = line
        /\ \A k \in 1 .. m : lv[k] = lt[k]
    BY <1>4, <2>1, AppendProperties
  <2>3. su = Append(st, n + 1) /\ Len(su) - 1 = m + 1
    BY <1>2, <1>5, <1>12
  <2>4. \A k \in 1 .. m : lu[k] = lt[k]
    <3> SUFFICES ASSUME NEW k \in 1 .. m PROVE lu[k] = lt[k]
      OBVIOUS
    <3>1. k \in 1 .. m + 1 /\ k + 1 \in 1 .. m + 1
      BY <1>2
    <3>2. su[k] = st[k] /\ su[k + 1] = st[k + 1]
      BY <1>5, <2>3, <3>1
    <3> QED
      BY <1>4, <1>7, <1>8, <2>3, <3>1, <3>2
  <2>5. lu[m + 1] = line
    <3>1. m + 1 \in 1 .. m + 1 /\ (m + 1) + 1 = m + 2 /\ (n + 1) - 1 = n
      BY <1>1, <1>2
    <3>2. su[m + 1] = st[m + 1] /\ su[m + 2] = n + 1
      BY <1>5, <2>3, <3>1
    <3>3. lu[m + 1] = LineOf(SubSeq(u, st[m + 1], n), m + 1)
      BY <1>7, <2>3, <3>1, <3>2
    <3> QED
      BY <1>9, <1>10, <3>3 DEF line
  <2> HIDE DEF lv
  <2>6. \A k \in 1 .. m + 1 : lu[k] = lv[k]
    <3> SUFFICES ASSUME NEW k \in 1 .. m + 1 PROVE lu[k] = lv[k]
      OBVIOUS
    <3>1. k \in 1 .. m \/ k = m + 1
      BY <1>2
    <3> QED
      BY <2>2, <2>4, <2>5, <3>1
  <2>7. lu = lv
    BY <1>7, <2>2, <2>3, <2>6, SeqEqual
  <2>8. Len(st) = m + 1
    BY <1>2 DEF m
  <2> QED
    BY <1>12, <2>7, <2>8 DEF lu, lv, lt, line, st, u
<1> QED
  BY <1>11, <1>12

LEMMA LastLineGrows ==
    ASSUME NEW t \in Seq(Bytes), NEW b \in Bytes, t # <<>> => StartsInOrder(t) # <<>>
    PROVE  /\ LastLine(Append(t, b)) = IF Begins(t, b) THEN <<b>> ELSE Append(LastLine(t), b)
           /\ t # <<>> => LastLine(t) \in Seq(Bytes)
<1> DEFINE u == Append(t, b)
           n == Len(t)
           st == StartsInOrder(t)
           su == StartsInOrder(u)
<1>1. u \in Seq(Bytes) /\ Len(u) = n + 1 /\ u[n + 1] = b /\ n \in Nat
  BY AppendProperties, LenProperties
<1>2. st \in Seq(1 .. n) /\ su = IF Begins(t, b) THEN Append(st, n + 1) ELSE st
  BY StartsGrow
<1>3. LastLine(u) = SubSeq(u, su[Len(su)], n + 1) /\ LastLine(t) = SubSeq(t, st[Len(st)], n)
  BY <1>1 DEF LastLine
<1>4. st \in Seq(Nat) /\ Len(st) \in Nat
  BY <1>1, <1>2, SeqMonotonic, LenProperties, 1 .. n \subseteq Nat
<1>5. ASSUME t # <<>> PROVE st[Len(st)] \in 1 .. n + 1 /\ LastLine(t) \in Seq(Bytes)
  <2>1. Len(st) \in 1 .. Len(st)
    BY <1>2, <1>5, EmptySeq
  <2>2. st[Len(st)] \in 1 .. n
    BY <1>2, <2>1, ElementOfSeq
  <2>3. \A a \in 1 .. n + 1 : SubSeq(t, a, n) \in Seq(Bytes)
    BY TailOfAppend
  <2> QED
    BY <1>1, <1>3, <2>2, <2>3
<1>6. CASE Begins(t, b)
  <2>1. su[Len(su)] = n + 1
    <3>1. \A s \in Seq(Nat) : \A x \in Nat :
              Len(Append(s, x)) = Len(s) + 1 /\ Append(s, x)[Len(s) + 1] = x
      BY AppendProperties
    <3>2. n + 1 \in Nat
      BY <1>1
    <3> HIDE DEF n, st
    <3> QED
      BY <1>2, <1>4, <1>6, <3>1, <3>2
  <2>2. SubSeq(u, n + 1, n + 1) = Append(SubSeq(t, n + 1, n), b)
    <3>1. n + 1 \in 1 .. n + 1
      BY <1>1
    <3> QED
      BY <3>1, TailOfAppend
  <2>3. SubSeq(t, n + 1, n) = <<>>
    BY <1>1, SubSeqEmpty
  <2>4. Append(<<>>, b) = <<b>>
    OBVIOUS
  <2> QED
    BY <1>3, <1>5, <1>6, <2>1, <2>2, <2>3, <2>4
<1>7. CASE ~Begins(t, b)
  <2>1. t # <<>>
    BY <1>7 DEF Begins
  <2>2. \A a \in 1 .. n + 1 : SubSeq(u, a, n + 1) = Append(SubSeq(t, a, n), b)
    BY TailOfAppend
  <2> QED
    BY <1>2, <1>3, <1>5, <1>7, <2>1, <2>2
<1> QED
  BY <1>6, <1>7

LEMMA WithoutEmpty == \A c : Without(<<>>, c) = <<>>
  BY FilterEmpty DEF Without

-----------------------------------------------------------------------------
(* What a parser knows of the text t it has parsed: the lines but the      *)
(* last, the last, and enough of how many ends of lines there were to say  *)
(* which line was the first.                                               *)
Says(t, p) ==
    /\ t = <<>> =>
         /\ StartsInOrder(t) = <<>> /\ p.curLine = <<>> /\ p.buf = <<>>
         /\ p.lineNum = 0 /\ p.lines = <<>>
    /\ t # <<>> =>
         /\ StartsInOrder(t) # <<>> /\ StartsInOrder(t)[1] = 1
         /\ p.lines = AllButLastLine(t)
         /\ Without(LastLine(t), "lf") = p.curLine \o p.buf
         /\ p.buf = <<>> <=> t[Len(t)] = "lf"
         /\ p.buf = <<>> => p.lineNum > 0
         /\ Len(StartsInOrder(t)) = 1 => Len(t) = Len(Without(t, "lf")) + p.lineNum
         /\ Len(StartsInOrder(t)) > 1 => p.lineNum >= 1 /\ (p.buf = <<>> => p.lineNum >= 2)

(* The first byte of a text.                                               *)
LEMMA FirstByte ==
    ASSUME NEW b \in Bytes, StartsInOrder(<<>>) = <<>>
    PROVE  LET u == Append(<<>>, b) IN
           /\ u = <<b>> /\ Len(u) = 1 /\ u[Len(u)] = b
           /\ StartsInOrder(u) # <<>> /\ StartsInOrder(u)[1] = 1 /\ Len(StartsInOrder(u)) = 1
           /\ AllButLastLine(u) = <<>> /\ LastLine(u) = u
           /\ Without(u, "lf") = IF b = "lf" THEN <<>> ELSE <<b>>
<1> DEFINE u == Append(<<>>, b)
<1>1. <<>> \in Seq(Bytes) /\ Len(<<>>) = 0 /\ u = <<b>> /\ u \in Seq(Bytes) /\ Len(u) = 1 /\ u[1] = b
  BY EmptySeq
<1>2. Begins(<<>>, b)
  BY DEF Begins
<1>3. StartsInOrder(u) = Append(<<>>, 1)
  <2>1. \A v \in Seq(Bytes) : \A x \in Bytes :
            Begins(v, x) => StartsInOrder(Append(v, x)) = Append(StartsInOrder(v), Len(v) + 1)
    BY StartsGrow
  <2>2. StartsInOrder(u) = Append(StartsInOrder(<<>>), Len(<<>>) + 1)
    BY <1>1, <1>2, <2>1
  <2> QED
    BY <1>1, <2>2
<1>4. LastLine(u) = <<b>>
  BY <1>1, <1>2, LastLineGrows
<1>5. Without(u, "lf") = IF b = "lf" THEN <<>> ELSE <<b>>
  <2>1. \A v \in Seq(Bytes) : \A x \in Bytes : \A c :
            Without(Append(v, x), c) = IF x = c THEN Without(v, c) ELSE Append(Without(v, c), x)
    BY WithoutAppend
  <2>2. Without(u, "lf") = IF b = "lf" THEN Without(<<>>, "lf") ELSE Append(Without(<<>>, "lf"), b)
    BY <1>1, <2>1
  <2> QED
    BY <1>1, <2>2, WithoutEmpty
<1>6. StartsInOrder(u) # <<>> /\ StartsInOrder(u)[1] = 1 /\ Len(StartsInOrder(u)) = 1
  BY <1>3
<1> HIDE DEF u
<1>7. AllButLastLine(u) \in Seq(Lines) /\ Len(AllButLastLine(u)) = 0
  <2>1. \A v \in Seq(Bytes) : StartsInOrder(v) # <<>> =>
            /\ AllButLastLine(v) \in Seq(Lines)
            /\ Len(AllButLastLine(v)) = Len(StartsInOrder(v)) - 1
    BY LinesType
  <2>2. u \in Seq(Bytes)
    BY <1>1
  <2>3. StartsInOrder(u) # <<>> /\ Len(StartsInOrder(u)) - 1 = 0
    BY <1>6
  <2> QED
    BY <2>1, <2>2, <2>3
<1>8. AllButLastLine(u) = <<>>
  BY <1>7, EmptySeq
<1> QED
  BY <1>1, <1>4, <1>5, <1>6, <1>8 DEF u

(* The end of a line.                                                      *)
LEMMA SaysEndOfLine ==
    ASSUME NEW t \in Seq(Bytes), NEW p \in ParserType, Says(t, p), "lf" \in Bytes
    PROVE  Says(Append(t, "lf"), EndOfLine(p))
<1> DEFINE u == Append(t, "lf")
           e == EndOfLine(p)
<1>1. u \in Seq(Bytes) /\ u # <<>> /\ Len(u) = Len(t) + 1 /\ u[Len(u)] = "lf" /\ Len(t) \in Nat
  BY AppendProperties, LenProperties
<1>2. p.curLine \in Seq(Bytes) /\ p.buf \in Seq(Bytes) /\ p.lineNum \in Nat
  BY DEF ParserType
<1>3. p.curLine \o p.buf \in Seq(Bytes)
  BY <1>2, ConcatProperties
<1>4. e.lines = p.lines /\ e.lineNum = p.lineNum + 1 /\ e.buf = <<>>
  <2>1. CASE AtBlankLine(p)
    BY <2>1 DEF EndOfLine, AtBlankLine, ParserType
  <2>2. CASE ~AtBlankLine(p)
    BY <2>2 DEF EndOfLine, ParserType
  <2> QED
    BY <2>1, <2>2
<1>5. e.curLine \o e.buf = p.curLine \o p.buf
  <2>1. CASE AtBlankLine(p)
    <3>1. e.curLine = p.curLine /\ e.buf = p.buf
      BY <2>1 DEF EndOfLine, ParserType
    <3> QED
      BY <3>1
  <2>2. CASE ~AtBlankLine(p)
    <3>1. e.curLine = p.curLine \o p.buf /\ e.buf = <<>>
      BY <2>2 DEF EndOfLine, Completed, ParserType
    <3> QED
      BY <1>3, <3>1, ConcatEmptySeq
  <2> QED
    BY <2>1, <2>2
<1>6. Without(u, "lf") = Without(t, "lf") /\ Without(t, "lf") \in Seq(Bytes)
  BY WithoutAppend
<1>7. e.lineNum > 0 /\ e.lineNum >= 1
  BY <1>2, <1>4
<1> HIDE DEF e
<1>8. CASE t = <<>>
  <2>1. /\ StartsInOrder(t) = <<>> /\ p.curLine = <<>> /\ p.buf = <<>>
        /\ p.lineNum = 0 /\ p.lines = <<>>
    BY <1>8 DEF Says
  <2>2. /\ Len(u) = 1 /\ StartsInOrder(u) # <<>> /\ StartsInOrder(u)[1] = 1
        /\ Len(StartsInOrder(u)) = 1 /\ AllButLastLine(u) = <<>> /\ LastLine(u) = u
        /\ Without(u, "lf") = <<>>
    BY <1>8, <2>1, FirstByte
  <2>3. <<>> \o <<>> = <<>> /\ Len(<<>>) = 0
    BY EmptySeq, ConcatEmptySeq
  <2> HIDE DEF u
  <2>4. Says(u, e)
    BY <1>1, <1>4, <1>5, <1>7, <2>1, <2>2, <2>3 DEF Says
  <2> QED
    BY <2>4 DEF u, e
<1>9. CASE t # <<>>
  <2>1. /\ StartsInOrder(t) # <<>> /\ StartsInOrder(t)[1] = 1
        /\ p.lines = AllButLastLine(t)
        /\ Without(LastLine(t), "lf") = p.curLine \o p.buf
        /\ Len(StartsInOrder(t)) = 1 => Len(t) = Len(Without(t, "lf")) + p.lineNum
        /\ Len(StartsInOrder(t)) > 1 => p.lineNum >= 1
    BY <1>9 DEF Says
  <2>2. ~Begins(t, "lf")
    BY <1>9 DEF Begins
  <2>3. StartsInOrder(u) = StartsInOrder(t)
    BY <2>2, StartsGrow
  <2>4. AllButLastLine(u) = AllButLastLine(t)
    BY <2>1, <2>2, LinesGrow
  <2>5. LastLine(u) = Append(LastLine(t), "lf") /\ LastLine(t) \in Seq(Bytes)
    BY <1>9, <2>1, <2>2, LastLineGrows
  <2>6. Without(LastLine(u), "lf") = Without(LastLine(t), "lf")
    BY <2>5, WithoutAppend
  <2>7. Len(StartsInOrder(u)) = 1 => Len(u) = Len(Without(u, "lf")) + e.lineNum
    <3>1. Len(Without(t, "lf")) \in Nat
      BY <1>6, LenProperties
    <3> HIDE DEF u
    <3> QED
      BY <1>1, <1>2, <1>4, <1>6, <2>1, <2>3, <3>1
  <2>8. Len(StartsInOrder(u)) > 1 => e.lineNum >= 2
    BY <1>2, <1>4, <2>1, <2>3
  <2> HIDE DEF u
  <2>9. Says(u, e)
    BY <1>1, <1>4, <1>5, <1>7, <2>1, <2>3, <2>4, <2>6, <2>7, <2>8 DEF Says
  <2> QED
    BY <2>9 DEF u, e
<1> QED
  BY <1>8, <1>9

(* A byte of a line, which may be the first.                               *)
LEMMA SaysInLine ==
    ASSUME NEW t \in Seq(Bytes), NEW p \in ParserType, Says(t, p),
           NEW b \in Bytes, b \in {"char", "blank"}
    PROVE  Says(Append(t, b), InLine(p, b))
<1> DEFINE u == Append(t, b)
           e == InLine(p, b)
           st == StartsInOrder(t)
           su == StartsInOrder(u)
<1>1. /\ u \in Seq(Bytes) /\ u # <<>> /\ Len(u) = Len(t) + 1 /\ u[Len(u)] = b /\ Len(t) \in Nat
      /\ b # "lf"
  BY AppendProperties, LenProperties
<1>2. p.curLine \in Seq(Bytes) /\ p.buf \in Seq(Bytes) /\ p.lineNum \in Nat
  BY DEF ParserType
<1>3. Append(p.buf, b) # <<>> /\ Append(<<>>, b) = <<b>>
  BY <1>2, AppendProperties
<1>4. e.buf = Append(p.buf, b) /\ e.lineNum = p.lineNum
  BY DEF InLine, WithLine, ParserType
<1>5. ~StartsLine(p, b) => e.curLine = p.curLine /\ e.lines = p.lines
  BY DEF InLine, ParserType
<1>6. StartsLine(p, b) =>
          /\ e.curLine = <<>>
          /\ e.lines = Append(p.lines, [text |-> p.curLine, first |-> p.lineNum = 1])
  BY DEF InLine, WithLine, ParserType
<1>7. Without(u, "lf") = Append(Without(t, "lf"), b) /\ Without(t, "lf") \in Seq(Bytes)
  BY <1>1, WithoutAppend
<1>8. Len(Without(u, "lf")) = Len(Without(t, "lf")) + 1 /\ Len(Without(t, "lf")) \in Nat
  BY <1>7, AppendProperties, LenProperties
<1> HIDE DEF e
<1>9. CASE t = <<>>
  <2>1. /\ StartsInOrder(t) = <<>> /\ p.curLine = <<>> /\ p.buf = <<>>
        /\ p.lineNum = 0 /\ p.lines = <<>>
    BY <1>9 DEF Says
  <2>2. /\ Len(u) = 1 /\ StartsInOrder(u) # <<>> /\ StartsInOrder(u)[1] = 1
        /\ Len(StartsInOrder(u)) = 1 /\ AllButLastLine(u) = <<>> /\ LastLine(u) = u
        /\ Without(u, "lf") = <<b>>
    BY <1>1, <1>9, <2>1, FirstByte
  <2>3. e.buf = <<b>> /\ e.curLine = <<>> /\ e.lines = <<>> /\ e.lineNum = 0
    BY <1>3, <1>4, <1>5, <2>1 DEF StartsLine
  <2>4. <<>> \o <<b>> = <<b>> /\ Len(<<b>>) = 1 /\ <<b>> # <<>>
    <3>1. <<b>> \in Seq(Bytes)
      OBVIOUS
    <3> QED
      BY <1>3, <3>1, ConcatEmptySeq
  <2> HIDE DEF u
  <2>5. Says(u, e)
    BY <1>1, <2>2, <2>3, <2>4 DEF Says
  <2> QED
    BY <2>5 DEF u, e
<1>10. ASSUME t # <<>>
       PROVE  /\ st # <<>> /\ st[1] = 1 /\ p.lines = AllButLastLine(t)
              /\ Without(LastLine(t), "lf") = p.curLine \o p.buf
              /\ p.buf = <<>> <=> t[Len(t)] = "lf"
              /\ p.buf = <<>> => p.lineNum > 0
              /\ Len(st) = 1 => Len(t) = Len(Without(t, "lf")) + p.lineNum
              /\ Len(st) > 1 => p.lineNum >= 1 /\ (p.buf = <<>> => p.lineNum >= 2)
              /\ LastLine(t) \in Seq(Bytes)
              /\ st \in Seq(Nat) /\ Len(st) \in Nat /\ Len(st) >= 1
              /\ Len(st) = 1 \/ Len(st) > 1
  <2>1. st # <<>>
    BY <1>10 DEF Says
  <2>2. st \in Seq(1 .. Len(t))
    BY StartsGrow
  <2>3. st \in Seq(Nat)
    BY <1>1, <2>2, SeqMonotonic, 1 .. Len(t) \subseteq Nat
  <2>4. Len(st) \in Nat /\ Len(st) >= 1
    BY <2>1, <2>3, EmptySeq
  <2>5. LastLine(t) \in Seq(Bytes)
    BY <1>10, <2>1, LastLineGrows
  <2>6. Len(st) = 1 \/ Len(st) > 1
    <3>1. \A m \in Nat : m >= 1 => m = 1 \/ m > 1
      OBVIOUS
    <3> QED
      BY <2>4, <3>1
  <2> QED
    BY <1>10, <2>3, <2>4, <2>5, <2>6 DEF Says
<1>11. CASE t # <<>> /\ Begins(t, b)
  <2>1. t[Len(t)] = "lf" /\ b = "char"
    BY <1>11 DEF Begins
  <2>2. p.buf = <<>> /\ p.lineNum > 0
    BY <1>10, <1>11, <2>1
  <2>3. StartsLine(p, b)
    BY <2>1, <2>2 DEF StartsLine
  <2>4. LineOf(LastLine(t), Len(st)) = [text |-> p.curLine, first |-> p.lineNum = 1]
    <3>1. Without(LastLine(t), "lf") = p.curLine
      <4>1. p.curLine \o <<>> = p.curLine
        BY <1>2, ConcatEmptySeq
      <4> QED
        BY <1>10, <1>11, <2>2, <4>1
    <3>2. p.lineNum = 1 <=> Len(st) = 1 /\ Len(LastLine(t)) = Len(Without(LastLine(t), "lf")) + 1
      <4>1. CASE Len(st) = 1
        <5>1. LastLine(t) = SubSeq(t, 1, Len(t))
          BY <1>10, <1>11, <4>1 DEF LastLine
        <5>2. LastLine(t) = t
          BY <5>1, SubSeqFull
        <5>3. Len(t) = Len(Without(t, "lf")) + p.lineNum
          BY <1>10, <1>11, <4>1
        <5>4. p.lineNum = 1 <=> Len(t) = Len(Without(t, "lf")) + 1
          BY <1>1, <1>2, <1>8, <5>3
        <5>5. Len(LastLine(t)) = Len(Without(LastLine(t), "lf")) + 1
                  <=> Len(t) = Len(Without(t, "lf")) + 1
          BY ONLY <5>2
        <5> QED
          BY ONLY <4>1, <5>4, <5>5
      <4>2. CASE Len(st) # 1
        <5>1. Len(st) > 1
          BY <1>10, <1>11, <4>2, Zenon
        <5>2. p.lineNum >= 2
          BY <1>10, <1>11, <2>2, <5>1
        <5>3. p.lineNum # 1
          BY <1>2, <5>2
        <5> QED
          BY ONLY <4>2, <5>3
      <4> QED
        BY <4>1, <4>2
    <3> QED
      BY <3>1, <3>2 DEF LineOf
  <2>5. AllButLastLine(u) = e.lines
    BY <1>6, <1>10, <1>11, <2>3, <2>4, LinesGrow
  <2>6. LastLine(u) = <<b>>
    BY <1>10, <1>11, LastLineGrows
  <2>7. su = Append(st, Len(t) + 1)
    BY <1>11, StartsGrow
  <2> HIDE DEF st
  <2>8. su # <<>> /\ su[1] = 1 /\ Len(su) > 1
    <3>1. \A s \in Seq(Nat) : \A x \in Nat :
              /\ Append(s, x) # <<>> /\ Len(Append(s, x)) = Len(s) + 1
              /\ \A i \in 1 .. Len(s) : Append(s, x)[i] = s[i]
      BY AppendProperties
    <3>2. Len(t) + 1 \in Nat
      BY <1>1
    <3>3. su # <<>> /\ Len(su) = Len(st) + 1 /\ \A i \in 1 .. Len(st) : su[i] = st[i]
      BY <1>10, <1>11, <2>7, <3>1, <3>2
    <3> QED
      BY <1>10, <1>11, <3>3
  <2>9. Without(LastLine(u), "lf") = e.curLine \o e.buf
    <3>1. e.curLine = <<>> /\ e.buf = <<b>>
      BY <1>3, <1>4, <1>6, <2>2, <2>3
    <3>2. <<b>> \in Seq(Bytes) /\ <<>> \in Seq(Bytes)
      BY EmptySeq
    <3>3. <<>> \o <<b>> = <<b>>
      BY <3>2, ConcatEmptySeq
    <3>4. \A v \in Seq(Bytes) : \A c : b # c => Without(Append(v, b), c) = Append(Without(v, c), b)
      BY WithoutAppend
    <3>5. Without(Append(<<>>, b), "lf") = Append(Without(<<>>, "lf"), b)
      BY <1>1, <3>2, <3>4
    <3> QED
      BY <1>3, <2>6, <3>1, <3>3, <3>5, WithoutEmpty
  <2>10. e.buf # <<>> /\ e.lineNum >= 1
    BY <1>2, <1>3, <1>4, <2>2
  <2> HIDE DEF u, su
  <2>11. su # <<>> /\ su[1] = 1 /\ Len(su) > 1 /\ Len(su) # 1
    BY <2>8
  <2>12. Says(u, e)
    BY <1>1, <2>5, <2>9, <2>10, <2>11 DEF Says, su
  <2> QED
    BY <2>12 DEF u, e
<1>12. CASE t # <<>> /\ ~Begins(t, b)
  <2>1. ~StartsLine(p, b)
    BY <1>10, <1>12 DEF StartsLine, Begins
  <2>2. e.curLine = p.curLine /\ e.lines = p.lines
    BY <1>5, <2>1
  <2>3. su = st
    BY <1>12, StartsGrow
  <2>4. AllButLastLine(u) = AllButLastLine(t)
    BY <1>10, <1>12, LinesGrow
  <2>5. LastLine(u) = Append(LastLine(t), b)
    BY <1>10, <1>12, LastLineGrows
  <2>6. Without(LastLine(u), "lf") = Append(Without(LastLine(t), "lf"), b)
    BY <1>1, <1>10, <1>12, <2>5, WithoutAppend
  <2>7. Append(p.curLine \o p.buf, b) = p.curLine \o Append(p.buf, b)
    <3>1. \A v, w \in Seq(Bytes) : v \o Append(w, b) = Append(v \o w, b)
      BY ConcatAppend
    <3> QED
      BY <1>2, <3>1
  <2>8. Without(LastLine(u), "lf") = e.curLine \o e.buf
    BY <1>4, <1>10, <1>12, <2>2, <2>6, <2>7
  <2>9. e.buf # <<>>
    BY <1>3, <1>4
  <2>10. Len(su) = 1 => Len(u) = Len(Without(u, "lf")) + e.lineNum
    <3> HIDE DEF u, st, su
    <3> QED
      BY <1>1, <1>2, <1>4, <1>8, <1>10, <1>12, <2>3
  <2> HIDE DEF u, st, su
  <2>11. Says(u, e)
    BY <1>1, <1>4, <1>10, <1>12, <2>2, <2>3, <2>4, <2>8, <2>9, <2>10 DEF Says, su
  <2> QED
    BY <2>11 DEF u, e
<1> QED
  BY <1>9, <1>11, <1>12

-----------------------------------------------------------------------------
(* A parser says the lines of the text it has parsed, and is ready after a *)
(* blank one.                                                              *)
Text(p) == Without(p.fed, "cr")

Parsed(p) ==
    /\ Bounded(p) /\ Says(Text(p), p)
    /\ p.lines = AllButLastLine(Text(p))
    /\ p.ready <=> EndsBlank(Text(p))

(* What it says depends on nothing else.                                   *)
LEMMA SaysSame ==
    ASSUME NEW t, NEW p, NEW q, Says(t, p),
           q.curLine = p.curLine, q.buf = p.buf, q.lineNum = p.lineNum, q.lines = p.lines
    PROVE  Says(t, q)
  BY DEF Says

(* An empty text has no lines, as SequencesExt and its functions have it.  *)
LEMMA SaysLines ==
    ASSUME NEW t \in Seq(Bytes), NEW p, Says(t, p)
    PROVE  p.lines = AllButLastLine(t)
<1>1. CASE t = <<>>
  <2>1. StartsInOrder(t) = <<>> /\ p.lines = <<>>
    BY <1>1 DEF Says
  <2> DEFINE part(k) == SubSeq(t, StartsInOrder(t)[k], StartsInOrder(t)[k + 1] - 1)
  <2>2. AllButLastLine(t) = [k \in 1 .. Len(StartsInOrder(t)) - 1 |-> LineOf(part(k), k)]
    BY DEF AllButLastLine, LineOf
  <2>3. 1 .. Len(StartsInOrder(t)) - 1 = {}
    BY <2>1
  <2> HIDE DEF part
  <2>4. AllButLastLine(t) = [k \in {} |-> LineOf(part(k), k)]
    BY <2>2, <2>3
  <2>5. AllButLastLine(t) \in [1 .. 0 -> Lines]
    BY <2>4
  <2>6. AllButLastLine(t) \in Seq(Lines) /\ Len(AllButLastLine(t)) = 0
    BY <2>5
  <2> QED
    BY <2>1, <2>6, EmptySeq
<1>2. CASE t # <<>>
  BY <1>2 DEF Says
<1> QED
  BY <1>1, <1>2

LEMMA NewParserParsed == Parsed(NewParser)
<1>1. NewParser.fed = <<>> /\ NewParser.curLine = <<>> /\ NewParser.buf = <<>>
      /\ NewParser.lineNum = 0 /\ NewParser.lines = <<>> /\ NewParser.ready = FALSE
  BY DEF NewParser
<1>2. Text(NewParser) = <<>>
  BY <1>1, WithoutEmpty DEF Text
<1>3. StartsInOrder(<<>>) = <<>>
  <2>1. StartsInOrder(<<>>) = Filter(Positions(0), Starts(<<>>))
    BY EmptySeq DEF StartsInOrder, Positions
  <2>2. Positions(0) \in Seq(1 .. 0) /\ 1 .. 0 = {}
    BY PositionsGrow
  <2>3. Positions(0) = <<>>
    <3>1. Positions(0) \in [1 .. 0 -> Nat]
      BY DEF Positions
    <3>2. Positions(0) \in Seq(Nat) /\ Len(Positions(0)) = 0
      BY <3>1
    <3> QED
      BY <3>2, EmptySeq
  <2> QED
    BY <2>1, <2>3, FilterEmpty
<1>4. Says(<<>>, NewParser)
  BY <1>1, <1>3 DEF Says
<1>5. ~EndsBlank(<<>>)
  BY DEF EndsBlank
<1>6. <<>> \in Seq(Bytes)
  BY EmptySeq
<1> QED
  BY <1>1, <1>2, <1>4, <1>5, <1>6, SaysLines, NewParserBounded DEF Parsed

(* The text ends with a blank line when the line that ends is blank.       *)
LEMMA BlankStep ==
    ASSUME NEW t \in Seq(Bytes), NEW p, Says(t, p), NEW b \in Bytes
    PROVE  EndsBlank(Append(t, b)) <=> b = "lf" /\ p.buf = <<>>
<1> DEFINE u == Append(t, b)
<1>1. /\ u \in Seq(Bytes) /\ u # <<>> /\ Len(u) = Len(t) + 1 /\ u[Len(u)] = b
      /\ Len(t) \in Nat /\ (t = <<>> <=> Len(t) = 0)
  BY AppendProperties, LenProperties, EmptySeq
<1>2. t # <<>> => u[Len(u) - 1] = t[Len(t)]
  BY <1>1, AppendProperties
<1>3. p.buf = <<>> <=> (t = <<>> \/ t[Len(t)] = "lf")
  <2>1. CASE t = <<>>
    BY <2>1 DEF Says
  <2>2. CASE t # <<>>
    BY <2>2 DEF Says
  <2> QED
    BY <2>1, <2>2
<1> HIDE DEF u
<1>4. EndsBlank(u) <=> b = "lf" /\ (t = <<>> \/ t[Len(t)] = "lf")
  <2>1. Len(u) > 1 <=> t # <<>>
    BY <1>1
  <2> QED
    BY <1>1, <1>2, <2>1 DEF EndsBlank
<1> QED
  BY <1>3, <1>4 DEF u

(* One iteration of write's loop.                                          *)
LEMMA ConsumeParsed ==
    ASSUME NEW p, Parsed(p), ~p.ready, NEW b \in Bytes
    PROVE  Parsed(Consume(p, b))
<1> DEFINE q == [p EXCEPT !.count = p.count + 1]
           r == [q EXCEPT !.fed = Append(q.fed, b)]
           c == Consume(p, b)
           t == Text(p)
<1>1. /\ q.fed = p.fed /\ q.curLine = p.curLine /\ q.buf = p.buf /\ q.lineNum = p.lineNum
      /\ q.lines = p.lines /\ q.ready = p.ready /\ q \in ParserType
  <2>1. p \in ParserType /\ p.count + 1 \in Nat
    BY DEF Parsed, Bounded, ParserType
  <2> QED
    BY <2>1 DEF ParserType
<1>2. c = IF Full(q) THEN q
          ELSE CASE b = "cr" -> r [] b = "lf" -> EndOfLine(r) [] OTHER -> InLine(r, b)
  BY DEF Consume
<1>3. Bounded(c)
  BY ConsumeBounded DEF Parsed
<1> HIDE DEF q
<1>4. /\ r.fed = Append(p.fed, b) /\ r.curLine = p.curLine /\ r.buf = p.buf
      /\ r.lineNum = p.lineNum /\ r.lines = p.lines /\ r.ready = p.ready /\ r \in ParserType
  <2>1. p.fed \in Seq(Bytes)
    BY DEF Parsed, Bounded, ParserType
  <2>2. Append(p.fed, b) \in Seq(Bytes)
    BY <2>1, AppendProperties
  <2> QED
    BY <1>1, <2>2 DEF ParserType
<1>5. /\ t \in Seq(Bytes)
      /\ Without(Append(p.fed, b), "cr") = IF b = "cr" THEN t ELSE Append(t, b)
  <2>1. p.fed \in Seq(Bytes)
    BY DEF Parsed, Bounded, ParserType
  <2> QED
    BY <2>1, WithoutAppend DEF Text
<1>6. Says(t, p) /\ ~EndsBlank(t)
  BY DEF Parsed
<1> HIDE DEF r, c, t
<1>7. \A s \in Seq(Bytes) : Text(c) = s /\ Says(s, c) /\ (c.ready <=> EndsBlank(s)) => Parsed(c)
  BY <1>3, SaysLines DEF Parsed
<1>8. CASE Full(q)
  <2>1. Text(c) = t /\ Says(t, c) /\ ~c.ready
    BY <1>1, <1>2, <1>6, <1>8, SaysSame DEF Text, t
  <2> QED
    BY <1>5, <1>6, <1>7, <2>1 DEF c
<1>9. CASE ~Full(q) /\ b = "cr"
  <2>1. c = r
    BY <1>2, <1>9
  <2>2. Text(c) = t /\ Says(t, c) /\ ~c.ready
    BY <1>4, <1>5, <1>6, <1>9, <2>1, SaysSame DEF Text
  <2> QED
    BY <1>5, <1>6, <1>7, <2>2 DEF c
<1>10. Says(t, r)
  BY <1>4, <1>6, SaysSame
<1>11. b # "cr" => Append(t, b) \in Seq(Bytes) /\ Text(r) = Append(t, b)
  BY <1>4, <1>5, AppendProperties DEF Text
<1>12. CASE ~Full(q) /\ b = "lf"
  <2>1. c = EndOfLine(r)
    BY <1>2, <1>12
  <2>2. Says(Append(t, b), c) /\ Text(c) = Append(t, b) /\ Append(t, b) \in Seq(Bytes)
    BY <1>4, <1>5, <1>10, <1>11, <1>12, <2>1, SaysEndOfLine, EndOfLineType DEF Text
  <2>3. c.ready <=> r.buf = <<>>
    <3>1. CASE AtBlankLine(r)
      BY <1>4, <2>1, <3>1 DEF EndOfLine, AtBlankLine, ParserType
    <3>2. CASE ~AtBlankLine(r)
      BY <1>4, <2>1, <3>2 DEF EndOfLine, AtBlankLine, ParserType
    <3> QED
      BY <3>1, <3>2
  <2>4. EndsBlank(Append(t, b)) <=> r.buf = <<>>
    BY <1>5, <1>10, <1>12, BlankStep
  <2> QED
    BY <1>7, <2>2, <2>3, <2>4 DEF c
<1>13. CASE ~Full(q) /\ b \notin {"cr", "lf"}
  <2>1. c = InLine(r, b)
    BY <1>2, <1>13
  <2>2. b \in {"char", "blank"}
    BY <1>13, HTTPAssumption
  <2>3. Says(Append(t, b), c) /\ Text(c) = Append(t, b) /\ Append(t, b) \in Seq(Bytes)
    BY <1>4, <1>5, <1>10, <1>11, <1>13, <2>1, <2>2, SaysInLine, InLineType DEF Text
  <2>4. ~c.ready
    BY <1>4, <2>1 DEF InLine, WithLine, ParserType
  <2>5. ~EndsBlank(Append(t, b))
    BY <1>5, <1>10, <1>13, BlankStep
  <2> QED
    BY <1>7, <2>3, <2>4, <2>5 DEF c
<1> QED
  BY <1>8, <1>9, <1>12, <1>13

(* The parser after n bytes, up to the last that write takes.              *)
LEMMA ParsersParsed ==
    ASSUME Parsed(parser), ~parser.ready, NEW data \in Seq(Bytes)
    PROVE  Parsed(Parsers(data)[Consumed(data)])
<1> DEFINE S == {n \in Nat : n <= Consumed(data) =>
                    Parsed(Parsers(data)[n]) /\ (n < Consumed(data) => ~Parsers(data)[n].ready)}
<1>1. Len(data) \in Nat /\ \A i \in 1 .. Len(data) : data[i] \in Bytes
  BY LenProperties
<1>2. /\ Consumed(data) \in 0 .. Len(data)
      /\ \A n \in 1 .. Len(data) : n < Consumed(data) => ~Parsers(data)[n].ready
  BY ConsumedProperties
<1>3. 0 \in S
  BY ParsersStep
<1>4. ASSUME NEW n \in Nat, n \in S PROVE n + 1 \in S
  <2> SUFFICES ASSUME n + 1 <= Consumed(data)
               PROVE  /\ Parsed(Parsers(data)[n + 1])
                      /\ n + 1 < Consumed(data) => ~Parsers(data)[n + 1].ready
    OBVIOUS
  <2>1. n + 1 \in 1 .. Len(data) /\ n < Consumed(data)
    BY <1>1, <1>2
  <2>2. Parsed(Parsers(data)[n]) /\ ~Parsers(data)[n].ready
    BY <1>2, <1>4, <2>1
  <2>3. Parsers(data)[n + 1] = Consume(Parsers(data)[(n + 1) - 1], data[n + 1])
    BY <2>1, ParsersStep
  <2>4. (n + 1) - 1 = n /\ data[n + 1] \in Bytes
    BY <1>1, <2>1
  <2>5. Parsed(Parsers(data)[n + 1])
    BY <2>2, <2>3, <2>4, ConsumeParsed
  <2> QED
    BY <1>2, <2>1, <2>5
<1> HIDE DEF S
<1>5. \A n \in Nat : n \in S
  BY <1>3, <1>4, Induction
<1>6. Consumed(data) \in S /\ Consumed(data) <= Consumed(data)
  BY <1>1, <1>2, <1>5
<1> QED
  BY <1>6 DEF S

(* Whatever pieces its bytes came in, a parser has said all lines of what  *)
(* it has parsed but the last, with the first marked if it ended where it  *)
(* should, and is ready after a blank line (HTTPRequest.cpp:43-95).        *)
THEOREM ParsesTextHolds == Spec => []ParsesText
<1>1. Init => Parsed(parser)
  BY NewParserParsed DEF Init
<1>2. HTTPInv /\ Parsed(parser) /\ [Next]_vars => Parsed(parser)'
  <2> SUFFICES ASSUME HTTPInv, Parsed(parser), [Next]_vars PROVE Parsed(parser)'
    OBVIOUS
  <2>1. CASE ParseHeaders
    <3>1. Typed /\ pc = "loop"
      BY <2>1 DEF HTTPInv, ParseHeaders
    <3>2. ~parser.ready
      BY <3>1 DEF Typed
    <3>3. Input \in Seq(Bytes)
      BY <3>1, InputProperties
    <3>4. parser' = Parsers(Input)[Consumed(Input)]
      BY <2>1 DEF ParseHeaders
    <3>5. Parsed(Parsers(Input)[Consumed(Input)])
      BY <3>2, <3>3, ParsersParsed
    <3>6. Parsed(parser')
      BY <3>4, <3>5
    <3> QED
      BY <3>6 DEF Parsed, Bounded, Says, Text
  <2>2. CASE ReturnHeaders
    <3>1. Parsed(parser')
      BY <2>2, NewParserParsed DEF ReturnHeaders
    <3> QED
      BY <3>1 DEF Parsed, Bounded, Says, Text
  <2>3. ASSUME UNCHANGED parser PROVE Parsed(parser)'
    <3>1. Parsed(parser')
      BY <2>3
    <3> QED
      BY <3>1 DEF Parsed, Bounded, Says, Text
  <2> QED
    BY <2>1, <2>2, <2>3
    DEF Next, LoopStep, CanRead, ReturnCanRead, Read, Reset, Send, vars
<1>3. Parsed(parser) => ParsesText
  BY DEF Parsed, ParsesText, Text
<1> QED
  BY <1>1, <1>2, <1>3, HTTPInvariance, PTL DEF Spec
=============================================================================
