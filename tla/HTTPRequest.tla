---------------------------- MODULE HTTPRequest ----------------------------
(***************************************************************************)
(* The server's side of an HTTP connection (HTTPRequest.cpp) on a socket   *)
(* (AsyncSocket.cpp): the headers are parsed a byte at a time out of what  *)
(* the socket gives, in whatever pieces it comes; then the delegate has    *)
(* the socket, until it resets the request for the next headers.           *)
(*                                                                         *)
(* Everything runs on the loop thread, except the peer.  The socket's      *)
(* events are edges, and each of them is heard (Sockets!EventsHeard).      *)
(*                                                                         *)
(* Bytes are of four kinds: '\r', '\n', blanks and the others.  What       *)
(* parseLine makes of a line is left out: the model keeps the lines.       *)
(***************************************************************************)
EXTENDS Deques

CONSTANTS Bytes,       \* the kinds of bytes the peer may send
          MaxBytes,    \* bound: how many bytes the peer sends
          ReadSize,    \* how many bytes RWSocket::read takes (65536)
          limit        \* HTTPHeadersParser::limit

ASSUME HTTPAssumption ==
    /\ Bytes \subseteq {"cr", "lf", "blank", "char"} /\ MaxBytes \in Nat
    /\ ReadSize \in Nat \ {0} /\ limit \in Nat \ {0}

VARIABLES
    socket,      \* the bytes that have come and were not read
    edge,        \* the socket's next read event
    state,       \* HTTPRequest::state
    body,        \* HTTPRequest::body
    parser,      \* HTTPRequest::parser
    pc,          \* where the loop thread is
    sent,        \* all the peer has sent
    taken,       \* all that the parsers and the delegate have had
    overtaken    \* the delegate read the socket with older bytes in body

netVars == <<socket, edge, sent>>
vars == <<netVars, state, body, parser, pc, taken, overtaken>>

(* A new parser.  "lines" are the lines given to parseLine, each with      *)
(* whether it was the first one (lineNum == 1); "fed" is what was parsed.  *)
NewParser == [lineNum |-> 0, curLine |-> <<>>, buf |-> <<>>, ready |-> FALSE,
              count |-> 0, lines |-> <<>>, fed |-> <<>>]

-----------------------------------------------------------------------------
(* What plausible mistakes would make of operators below.                  *)
ReadsAtEveryEvent == TRUE
KeepsLine(p) ==
    [p EXCEPT !.lines = Append(@, [text |-> p.curLine, first |-> p.lineNum = 1])]
AtSecondBlank(p) == p.buf = <<>> /\ p.curLine # <<>>

-----------------------------------------------------------------------------
(* HTTPHeadersParser.                                                      *)

Full(p) == p.count >= limit

(* The line that is complete, which a line that starts with a blank may    *)
(* still continue.                                                         *)
Completed(p) == p.curLine \o p.buf

AtBlankLine(p) == p.buf = <<>>

EndOfLine(p) ==
    IF AtBlankLine(p)
    THEN [p EXCEPT !.lineNum = @ + 1, !.ready = TRUE]
    ELSE [p EXCEPT !.lineNum = @ + 1, !.curLine = Completed(p), !.buf = <<>>]

StartsLine(p, b) == p.buf = <<>> /\ b = "char" /\ p.lineNum > 0

(* parseLine is given a line when the next one begins.                     *)
WithLine(p) ==
    [p EXCEPT !.lines = Append(@, [text |-> p.curLine, first |-> p.lineNum = 1]),
              !.curLine = <<>>]

InLine(p, b) ==
    LET q == IF StartsLine(p, b) THEN WithLine(p) ELSE p
    IN  [q EXCEPT !.buf = Append(@, b)]

(* One iteration of write's loop.                                          *)
Consume(p, b) ==
    LET q == [p EXCEPT !.count = @ + 1] IN
    IF Full(q) THEN q
    ELSE LET r == [q EXCEPT !.fed = Append(@, b)] IN
         CASE b = "cr" -> r
           [] b = "lf" -> EndOfLine(r)
           [] OTHER    -> InLine(r, b)

(* The parser after the first n bytes of data, for every n.                *)
Parsers(data) ==
    LET after[n \in 0 .. Len(data)] ==
            IF n = 0 THEN parser ELSE Consume(after[n - 1], data[n])
    IN  after

(* write stops at the end of the headers and at the limit, or at the end   *)
(* of the data.                                                            *)
Consumed(data) ==
    LET stops == {n \in 1 .. Len(data) :
                    Parsers(data)[n].ready \/ Full(Parsers(data)[n])}
    IN  IF stops = {} THEN Len(data) ELSE Min(stops)

-----------------------------------------------------------------------------
Init ==
    /\ socket = <<>> /\ edge = FALSE /\ sent = <<>>
    /\ state = "PARSING_HEADERS" /\ body = <<>> /\ parser = NewParser
    /\ pc = "loop" /\ taken = <<>> /\ overtaken = FALSE

(* The peer sends a byte, and epoll has an event.                          *)
Send(b) ==
    /\ Len(sent) < MaxBytes
    /\ sent' = Append(sent, b) /\ socket' = Append(socket, b) /\ edge' = TRUE
    /\ UNCHANGED <<state, body, parser, pc, taken, overtaken>>

First(n, s) == FirstOf(Smaller(n, Len(s)), s)

(* What RWSocket::read returns.                                            *)
Readable == First(ReadSize, socket)

(* onCanRead reads the socket when it has nothing left over.               *)
ReadsSocket == body = <<>>

Input == IF ReadsSocket THEN Readable ELSE body

(* HTTPRequest::onCanRead before and                                       *)
ParseHeaders ==
    /\ pc = "loop" /\ edge /\ edge' = FALSE
    /\ state = "PARSING_HEADERS"
    /\ LET data == Input
           n == Consumed(data)
       IN  /\ socket' = IF ReadsSocket THEN AllAfter(Len(Readable), socket) ELSE socket
           /\ body' = AllAfter(n, data) /\ parser' = Parsers(data)[n]
           /\ taken' = taken \o First(n, data)
    /\ IF parser'.ready
       THEN state' = "READING_BODY" /\ pc' = "onHeaders"
       ELSE UNCHANGED <<state, pc>>
    /\ UNCHANGED <<sent, overtaken>>

(* after the delegate's onHeaders,                                         *)
ReturnHeaders ==
    /\ pc = "onHeaders" /\ pc' = "loop" /\ parser' = NewParser
    /\ UNCHANGED <<netVars, state, body, taken, overtaken>>

(* or when the delegate has the socket.                                    *)
CanRead ==
    /\ pc = "loop" /\ edge /\ edge' = FALSE
    /\ state = "READING_BODY" /\ pc' = "onCanRead"
    /\ UNCHANGED <<socket, sent, state, body, parser, taken, overtaken>>

ReturnCanRead ==
    /\ pc = "onCanRead" /\ pc' = "loop"
    /\ UNCHANGED <<netVars, state, body, parser, taken, overtaken>>

(* HTTPRequest::read, which reads the socket; the delegate calls it        *)
(* between onHeaders and reset, in callbacks and elsewhere.                *)
Read ==
    /\ state = "READING_BODY" /\ socket # <<>>
    /\ taken' = taken \o Readable /\ socket' = AllAfter(Len(Readable), socket)
    /\ overtaken' = (overtaken \/ body # <<>>)
    /\ UNCHANGED <<edge, sent, state, body, parser, pc>>

Reset ==
    /\ state = "READING_BODY" /\ state' = "PARSING_HEADERS"
    /\ UNCHANGED <<netVars, body, parser, pc, taken, overtaken>>

LoopStep == ParseHeaders \/ ReturnHeaders \/ CanRead \/ ReturnCanRead

Next == LoopStep \/ Read \/ Reset \/ \E b \in Bytes : Send(b)

Spec == Init /\ [][Next]_vars

(* Events are heard, and callbacks return.  Nothing is assumed of the peer *)
(* or of what the delegate does.                                           *)
FairSpec == Spec /\ WF_vars(LoopStep)

-----------------------------------------------------------------------------
(* The type of the variables.  A parser never has limit bytes or more.     *)
TypeOK ==
    /\ socket \in Seq(Bytes) /\ sent \in Seq(Bytes) /\ taken \in Seq(Bytes)
    /\ body \in Seq(Bytes) /\ edge \in BOOLEAN /\ overtaken \in BOOLEAN
    /\ state \in {"PARSING_HEADERS", "READING_BODY"}
    /\ pc \in {"loop", "onHeaders", "onCanRead"}
    /\ parser.lineNum \in Nat /\ parser.count \in Nat
    /\ parser.ready <=> pc = "onHeaders"
    /\ parser.fed \in Seq(Bytes) /\ Len(parser.fed) < limit

(* What the peer sent is taken once and in its order, however it was cut   *)
(* and whatever is left over by a parser that has enough                   *)
(* (HTTPRequest.cpp:146).  This needs a delegate that never reads while    *)
(* there is something left over: HTTPRequest::read passes by it            *)
(* (HTTPRequest.h:151).                                                    *)
InOrder == TypeOK /\ (~overtaken => taken \o body \o socket = sent)

(* What a parser must make of a text, seen as a whole: it ends at a blank  *)
(* line; a line starts wherever no blank continues the line before.        *)
Without(s, c) == Filter(s, Bytes \ {c})

EndsBlank(text) ==
    /\ text # <<>> /\ text[Len(text)] = "lf"
    /\ Len(text) > 1 => text[Len(text) - 1] = "lf"

Starts(text) ==
    {i \in 1 .. Len(text) : i = 1 \/ (text[i - 1] = "lf" /\ text[i] = "char")}

StartsInOrder(text) == Filter([i \in 1 .. Len(text) |-> i], Starts(text))

AllButLastLine(text) ==
    LET starts == StartsInOrder(text)
        part(k) == SubSeq(text, starts[k], starts[k + 1] - 1)
    IN  [k \in 1 .. Len(starts) - 1 |->
            [text  |-> Without(part(k), "lf"),
             first |-> k = 1 /\ Len(part(k)) = Len(Without(part(k), "lf")) + 1]]

(* Whatever the pieces its bytes came in, a parser has said all lines but  *)
(* the last, and is ready after a blank line.  So the last header is never *)
(* among those the delegate gets, nor is the request itself when it is the *)
(* only line; and a request that is continued on a second line is taken    *)
(* for a header (HTTPRequest.cpp:43-95).                                   *)
ParsesText ==
    LET text == Without(parser.fed, "cr")
    IN  /\ parser.lines = AllButLastLine(text)
        /\ parser.ready <=> EndsBlank(text)

(* Headers that have come whole, in what is left over or in what one read  *)
(* gets, are announced when there is an event (HTTPRequest.cpp:146-157).   *)
HeadersCame ==
    /\ edge /\ state = "PARSING_HEADERS" /\ pc = "loop" /\ ~Full(parser)
    /\ \E n \in 1 .. limit - 1 :
           LET all == parser.fed \o Input
           IN  n <= Len(all) /\ EndsBlank(Without(First(n, all), "cr"))

Announced == HeadersCame ~> pc = "onHeaders"
=============================================================================
