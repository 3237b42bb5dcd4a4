------------------------------- MODULE Streams -------------------------------
(***************************************************************************)
(* Two programs that send each other bytes through TLS (AsyncSSL.cpp): on  *)
(* either side a DataStreamBridge moves what an input stream of the        *)
(* program, such as a FileReader, gives into an ssl::Engine, another moves *)
(* what the engine read into an output stream of the program, and          *)
(* transfer_data moves records between the engine and its RWSocket.  None  *)
(* of these calls waits: each takes what it can get.                       *)
(*                                                                         *)
(* Data is a sequence of bytes here, as the module Data shows it can be.   *)
(* Bytes are positive; on the network and in the engine's BIOs stand       *)
(* records, a header (minus the length) before its bytes, and the flights  *)
(* of the handshake, each a 0.                                             *)
(***************************************************************************)
EXTENDS Deques

CONSTANTS Source,     \* Source[s]: the bytes that s sends
          Chunk,      \* what an input stream gives at once (64 KB)
          Record,     \* what a record has at most (16 KB)
          Flights,    \* the flights of the handshake; the client sends the first
          Limit,      \* bioIn takes no more when it has more (64 KB)
          ReadSize,   \* what RWSocket::read takes at most (64 KB)
          Cap         \* bound: what the network holds in each direction

Sides == {"CLIENT", "SERVER"}
Peer(s) == CHOOSE t \in Sides : t # s

ASSUME StreamsAssumption ==
    /\ {Chunk, Record, Flights, Limit, ReadSize, Cap} \subseteq Nat \ {0}
    /\ Chunk % Record = 0         \* chunks end where records do
    /\ Record <= Limit            \* there is room for a record
    /\ Source \in [Sides -> Seq(Nat \ {0})]

VARIABLES
    unread,      \* unread[s]: what the input stream has yet to give
    bridgeIn,    \* bridgeIn[s]: DataStreamBridge::buffer on the way to the engine
    engine,      \* engine[s]: the Engine: flights sent and received, the BIOs,
                 \* waiting_to_app_data and waiting_to_socket_data
    net,         \* net[s]: sent by s and not yet received
    bridgeOut,   \* bridgeOut[s]: DataStreamBridge::buffer on the way from the engine
    taken        \* taken[s]: what the output stream of s has taken

streamVars == <<unread, bridgeIn, engine, net, bridgeOut, taken>>

NewEngine ==
    [flights |-> 0, bioIn |-> <<>>, bioOut |-> <<>>, app |-> <<>>, waiting |-> <<>>]

-----------------------------------------------------------------------------
(* What plausible mistakes would make of operators below.                  *)
AlwaysTakes(e)   == TRUE
OnlyIfNothing(e) == e.bioIn = <<>>
ReadsOver(e, n)  ==
    [e EXCEPT !.bioOut = <<>>,
              !.waiting = AllAfter(n, IF e.bioOut = <<>> THEN e.waiting ELSE e.bioOut)]

-----------------------------------------------------------------------------
StreamsInit ==
    /\ unread = Source
    /\ engine = [s \in Sides |-> NewEngine]
    /\ net = [s \in Sides |-> <<>>]
    /\ bridgeIn = [s \in Sides |-> <<>>] /\ bridgeOut = [s \in Sides |-> <<>>]
    /\ taken = [s \in Sides |-> <<>>]

-----------------------------------------------------------------------------
(* OpenSSL, from how AsyncSSL.cpp uses it.                                 *)

Established(e) == e.flights = Flights

SentBy(k) == IF k % 2 = 1 THEN "CLIENT" ELSE "SERVER"

(* The next flight is sent or received, if it can be.                      *)
Exchange(s, e, mine) ==
    IF Established(e) \/ (SentBy(e.flights + 1) = s) # mine
    THEN e
    ELSE IF mine
    THEN [e EXCEPT !.flights = @ + 1, !.bioOut = Append(@, 0)]
    ELSE IF e.bioIn = <<>> THEN e
    ELSE [e EXCEPT !.flights = @ + 1, !.bioIn = Tail(@)]

(* SSL_read and SSL_write go on with the handshake first.                  *)
Handshake(s, e) == Exchange(s, Exchange(s, e, FALSE), TRUE)

Records(bytes) ==
    LET part(i) == SubSeq(bytes, (i - 1) * Record + 1, Smaller(i * Record, Len(bytes)))
        number  == (Len(bytes) + Record - 1) \div Record
    IN  FlattenSeq([i \in 1 .. number |-> <<-Len(part(i))>> \o part(i)])

(* The length of the record at the head of bioIn, once it is all there.    *)
HasRecord(e) == e.bioIn # <<>> /\ Len(e.bioIn) > -Head(e.bioIn)

-----------------------------------------------------------------------------
(* Engine.                                                                 *)

TakesMore(e) == Len(e.bioIn) <= Limit

(* read_socket, when the socket has given it got.                          *)
ReadSocket(e, got) == [e EXCEPT !.bioIn = @ \o got]

(* read_app: SSL_read gives one record.                                    *)
ReadApp(s, e) ==
    IF e.app # <<>> THEN e
    ELSE LET ready  == Handshake(s, e)
             length == -Head(ready.bioIn)
         IN  IF Established(ready) /\ HasRecord(ready)
             THEN [ready EXCEPT !.app = SubSeq(ready.bioIn, 2, length + 1),
                                !.bioIn = AllAfter(length + 1, ready.bioIn)]
             ELSE ready

(* write_socket, when the socket has taken n bytes: what it has not taken  *)
(* waits, and bioOut is only read when nothing waits.                      *)
WriteSocket(e, n) ==
    IF n < Len(e.waiting)
    THEN [e EXCEPT !.waiting = AllAfter(n, @)]
    ELSE [e EXCEPT !.waiting = AllAfter(n - Len(e.waiting), e.bioOut), !.bioOut = <<>>]

(* RWSocket::read and write: recv takes something if it can, and so does   *)
(* send, which may take only a part.                                       *)
Received(e, q) ==
    IF TakesMore(e) /\ q # <<>> THEN 1 .. Smaller(ReadSize, Len(q)) ELSE {0}

Sendable(e, q) ==
    LET most == Smaller(Len(e.waiting) + Len(e.bioOut), Cap - Len(q))
    IN  IF most = 0 THEN {0} ELSE 1 .. most

TransferData(s) ==
    \E got \in Received(engine[s], net[Peer(s)]) :
        LET in   == FirstOf(got, net[Peer(s)])
            read == ReadApp(s, ReadSocket(engine[s], in))
        IN  \E n \in Sendable(read, net[s]) :
                /\ engine' = [engine EXCEPT ![s] = WriteSocket(read, n)]
                /\ net' = [net EXCEPT ![Peer(s)] = AllAfter(got, @),
                                      ![s] = @ \o FirstOf(n, read.waiting \o read.bioOut)]
                /\ UNCHANGED <<unread, bridgeIn, bridgeOut, taken>>

-----------------------------------------------------------------------------
(* DataStreamBridge::move_data.                                            *)

(* From an input stream that has n bytes now to the engine.  Engine::write *)
(* takes nothing before the handshake is done, and everything after: then  *)
(* all goes into bioOut, however slow the network is.                      *)
MoveIn(s, n) ==
    LET ready == Handshake(s, engine[s])
        got   == Smaller(Chunk, n)
    IN  /\ bridgeIn[s] # <<>> \/ n > 0
        /\ IF Established(ready)
           THEN /\ engine' = [engine EXCEPT ![s] =
                       [ready EXCEPT !.bioOut =
                           @ \o Records(bridgeIn[s]) \o Records(FirstOf(n, unread[s]))]]
                /\ bridgeIn' = [bridgeIn EXCEPT ![s] = <<>>]
                /\ unread' = [unread EXCEPT ![s] = AllAfter(n, @)]
           ELSE /\ engine' = [engine EXCEPT ![s] = ready]
                /\ IF bridgeIn[s] # <<>> THEN UNCHANGED <<bridgeIn, unread>>
                   ELSE /\ bridgeIn' = [bridgeIn EXCEPT ![s] = FirstOf(got, unread[s])]
                        /\ unread' = [unread EXCEPT ![s] = AllAfter(got, @)]
        /\ UNCHANGED <<net, bridgeOut, taken>>

Feed(s) == \E n \in 0 .. Len(unread[s]) : MoveIn(s, n)

(* From the engine to an output stream that takes n bytes: Engine::read    *)
(* gives what it has, and has no more until transfer_data is called again. *)
(* (Of what it gives after the buffer was emptied the stream takes nothing *)
(* here: that is another call.)                                            *)
MoveOut(s) ==
    LET front == IF bridgeOut[s] = <<>> THEN engine[s].app ELSE bridgeOut[s]
        again == bridgeOut[s] # <<>> /\ engine[s].app # <<>>
    IN  /\ front # <<>>
        /\ \E n \in 0 .. Len(front) :
               /\ taken' = [taken EXCEPT ![s] = @ \o FirstOf(n, front)]
               /\ IF n = Len(front) /\ again
                  THEN bridgeOut' = [bridgeOut EXCEPT ![s] = engine[s].app]
                  ELSE bridgeOut' = [bridgeOut EXCEPT ![s] = AllAfter(n, front)]
               /\ engine' = IF bridgeOut[s] = <<>> \/ n = Len(front)
                            THEN [engine EXCEPT ![s].app = <<>>] ELSE engine
               /\ UNCHANGED <<unread, bridgeIn, net>>

-----------------------------------------------------------------------------
StreamsNext == \E s \in Sides : TransferData(s) \/ Feed(s) \/ MoveOut(s)

StreamsSpec == StreamsInit /\ [][StreamsNext]_streamVars

(* The programs call each function again as long as a call changes         *)
(* something, their input streams give what they have, and their output    *)
(* streams do not refuse all they are given.                               *)
FairSpec ==
    /\ StreamsSpec
    /\ \A s \in Sides : /\ WF_streamVars(TransferData(s)) /\ WF_streamVars(Feed(s))
                        /\ WF_streamVars(MoveOut(s) /\ taken' # taken)

-----------------------------------------------------------------------------
(* The bytes in records.                                                   *)
Opened(units) == Filter(units, Nat \ {0})

(* No byte is lost, doubled or overtaken on its way through seven buffers, *)
(* whatever parts of them recv, send, SSL_read and the streams of the      *)
(* program take and give, during the handshake and after it                *)
(* (AsyncSSL.cpp:88-167, Data.cpp:111-122).                                *)
InOrder ==
    \A s \in Sides :
        LET t == Peer(s) IN
        Source[s] =
            taken[t] \o bridgeOut[t] \o engine[t].app
              \o Opened(engine[t].bioIn \o net[s] \o engine[s].waiting \o engine[s].bioOut)
              \o bridgeIn[s] \o unread[s]

(* A program that does not take what it is sent does not fill its memory:  *)
(* at most one read over the limit is kept, and one record decrypted and   *)
(* one in the bridge (AsyncSSL.cpp:126,139).                               *)
BackPressure ==
    \A s \in Sides : /\ Len(engine[s].bioIn) <= Limit + ReadSize
                     /\ Len(engine[s].app) <= Record /\ Len(bridgeOut[s]) <= Record

(* The limits on either side never make the two wait for each other: all   *)
(* that is sent arrives, through a handshake and a network that holds less *)
(* than a record (AsyncSSL.cpp:126,139,154).                               *)
AllArrives == <>(\A s \in Sides : taken[Peer(s)] = Source[s])
=============================================================================
