------------------------------ MODULE Sockets ------------------------------
(***************************************************************************)
(* Sockets and their worker with epoll (AsyncSocket.cpp,                   *)
(* AsyncSocketEpoll.cpp, StaticRefCounted.h).  All sockets of a program    *)
(* share one SocketWorker, made with the first socket and destroyed with   *)
(* the last.  Its thread collects events from epoll and posts them; its    *)
(* onCall, on the loop thread, calls the sockets they belong to, whose     *)
(* delegates create and destroy sockets.                                   *)
(*                                                                         *)
(* An event carries the pointer of its socket, and a pointer may be that   *)
(* of another socket by the time the event is handled.                     *)
(*                                                                         *)
(* The worker's ActiveMsg is a slot of the Mailbox, which the run loop     *)
(* implements (RunLoop!ImplementsMailbox).                                 *)
(***************************************************************************)
EXTENDS Mailbox, FiniteSets

CONSTANTS Ptrs,             \* the SocketImpl pointers
          MaxUses,          \* bound: MaxUses[p]: how many sockets p is used for
          Edges,            \* bound: Edges[p]: the kinds of events p has
          MAX_CONNECTIONS,
          Null

SocketWorkers == Slots      \* bound: the SocketWorkers there can be in a run

ASSUME SocketsAssumption ==
    /\ Null \notin Slots \cup Ptrs /\ IsFiniteSet(Ptrs)
    /\ MaxUses \in [Ptrs -> Nat] /\ MAX_CONNECTIONS \in Nat
    /\ Edges \in [Ptrs -> SUBSET {"err", "read", "write"}]

VARIABLES
    sock,        \* sock[p]: the socket at p, and what became of it
    uses,        \* uses[p]: how many sockets were made at p
    polled,      \* the sockets whose descriptor is open and in the epoll set
    ready,       \* ready[p]: the edges epoll has not yet reported
    clients,     \* SocketWorker::clients
    refs,        \* StaticRefCounted::ref_counter
    sta,         \* StaticRefCounted::sta
    batch,       \* eqEvents of the worker thread
    queues,      \* SocketWorker::err, read and write
    destroyed,   \* ActiveMsg::destroyed
    wpc,         \* where the worker thread is
    pc,          \* where the loop thread is
    back,        \* where it goes on after a destructor
    event,       \* the event whose callback runs, and its queue
    serving,     \* the worker whose onCall runs
    closing,     \* the socket whose destructor destroys the worker
    reused       \* a pointer was used again with an old event under way

sockVars   == <<sock, uses>>
kernelVars == <<polled, ready>>
staticVars == <<clients, refs, sta>>
threadVars == <<batch, destroyed, wpc>>
loopVars   == <<pc, back, event, serving, closing>>
vars == <<mailbox, sockVars, kernelVars, staticVars, threadVars, queues, loopVars,
          reused>>

Kinds == {"err", "read", "write"}
NoEvent == [ptr |-> Null, kind |-> "read"]

(* "deaf": alive, but it could not be connected or registered; "told": has *)
(* been told of its disconnection.                                         *)
Alive(p) == sock[p] \in {"open", "deaf", "told"}

UserRuns == pc \in {"user", "callback"}

(* The pointers in the events between epoll and the end of their callback. *)
ToCome ==
    {e.ptr : e \in UNION {Range(batch[w]) : w \in SocketWorkers}}
        \cup UNION {Range(queues[k]) : k \in Kinds}

UnderWay == ToCome \cup {event.ptr}

-----------------------------------------------------------------------------
(* What plausible mistakes would make of operators below.                  *)
EveryEvent(p)         == TRUE
NeverTheLast          == FALSE
ForgottenOnAnyEvent   == clients \ {event.ptr}
ErrorsLast(kinds, k)  == k \in kinds /\ (k # "err" \/ kinds = {"err"})
NothingMarked         == UNCHANGED destroyed

-----------------------------------------------------------------------------
Init ==
    /\ MailboxInit
    /\ sock = [p \in Ptrs |-> "none"] /\ uses = [p \in Ptrs |-> 0]
    /\ polled = {} /\ ready = [p \in Ptrs |-> {}]
    /\ clients = {} /\ refs = 0 /\ sta = Null
    /\ batch = [w \in SocketWorkers |-> <<>>]
    /\ destroyed = [w \in SocketWorkers |-> FALSE]
    /\ wpc = [w \in SocketWorkers |-> "none"]
    /\ queues = [k \in Kinds |-> <<>>]
    /\ pc = "user" /\ back = "user" /\ event = NoEvent
    /\ serving = Null /\ closing = Null
    /\ reused = FALSE

-----------------------------------------------------------------------------
(* Sockets come and go, on the loop thread.                                *)

(* StaticRefCounted's constructor, which makes the first worker.           *)
Count == refs' = refs + 1

StartWorker ==
    IF refs # 0
    THEN UNCHANGED <<mailbox, sta, wpc>>
    ELSE \E w \in SocketWorkers :
            Open(w) /\ sta' = w /\ wpc' = [wpc EXCEPT ![w] = "poll"]

Admitted == Cardinality(clients) < MAX_CONNECTIONS - 1

(* The constructors of RWSocket and LASocket; "connected" stands for every *)
(* system call before registerSocket, and epoll_ctl in it.                 *)
Create(p, connected) ==
    /\ UserRuns /\ sock[p] = "none" /\ uses[p] < MaxUses[p]
    /\ Count /\ StartWorker
    /\ uses' = [uses EXCEPT ![p] = @ + 1]
    /\ IF connected /\ Admitted
       THEN /\ sock' = [sock EXCEPT ![p] = "open"]
            /\ clients' = clients \cup {p} /\ polled' = polled \cup {p}
       ELSE sock' = [sock EXCEPT ![p] = "deaf"] /\ UNCHANGED <<clients, polled>>
    /\ reused' = (reused \/ p \in UnderWay)
    /\ UNCHANGED <<ready, batch, destroyed, queues, loopVars>>

Deregistered(p) == clients \ {p}

LastReference == refs = 1

(* ~Socket closes the descriptor, and epoll forgets it.                    *)
Unpolled(p) == polled \ {p}

CloseSocket(p) ==
    /\ sock' = [sock EXCEPT ![p] = "none"]
    /\ polled' = Unpolled(p) /\ ready' = [ready EXCEPT ![p] = {}]

(* The destructors of RWSocket and LASocket: deregisterSocket, then the    *)
(* reference on the worker, which the last socket destroys while its       *)
(* descriptor is still open, and then the descriptor.                      *)
Destroy(p) ==
    /\ UserRuns /\ Alive(p)
    /\ clients' = Deregistered(p)
    /\ refs' = refs - 1
    /\ IF LastReference
       THEN /\ pc' = "terminate" /\ back' = pc /\ closing' = p
            /\ sock' = [sock EXCEPT ![p] = "closing"]
            /\ UNCHANGED kernelVars
       ELSE CloseSocket(p) /\ UNCHANGED <<pc, back, closing>>
    /\ UNCHANGED <<mailbox, uses, sta, threadVars, queues, event, serving, reused>>

MarkDestroyed == destroyed' = [destroyed EXCEPT ![sta] = TRUE]

(* ~SocketWorker: requestTermination locks the message's mutex,            *)
Terminate ==
    /\ pc = "terminate" /\ phase[sta] # "filling"
    /\ MarkDestroyed
    /\ pc' = "join"
    /\ UNCHANGED <<mailbox, sockVars, kernelVars, staticVars, batch, wpc, queues,
                   back, event, serving, closing, reused>>

(* waitTermination waits for the thread, and ~ActiveMsg takes the message  *)
(* from the loop that may be handling it,                                  *)
Join ==
    /\ pc = "join" /\ wpc[sta] = "exited"
    /\ IF phase[sta] = "handling" THEN Done(sta) ELSE UNCHANGED mailbox
    /\ pc' = "delete"
    /\ UNCHANGED <<sockVars, kernelVars, staticVars, threadVars, queues, back,
                   event, serving, closing, reused>>

(* or may yet find it in its queue.                                        *)
Delete ==
    /\ pc = "delete" /\ Close(sta)
    /\ sta' = Null /\ queues' = [k \in Kinds |-> <<>>]
    /\ CloseSocket(closing) /\ closing' = Null
    /\ pc' = back /\ back' = "user"
    /\ UNCHANGED <<uses, clients, refs, threadVars, event, serving, reused>>

-----------------------------------------------------------------------------
(* SocketWorker::onCall, on the loop thread.                               *)

OnCall(w) ==
    /\ pc = "user" /\ Handle(w)
    /\ pc' = "drain" /\ serving' = w
    /\ UNCHANGED <<sockVars, kernelVars, staticVars, threadVars, queues, back,
                   event, closing, reused>>

QueueOrder == <<"err", "read", "write">>

(* The queue the next event is taken from.                                 *)
IsNext(k) ==
    \E i \in DOMAIN QueueOrder :
        /\ k = QueueOrder[i] /\ queues[k] # <<>>
        /\ \A j \in 1 .. i - 1 : queues[QueueOrder[j]] = <<>>

IsClient(p) == p \in clients

CallClient(k) ==
    /\ pc = "drain" /\ IsNext(k)
    /\ queues' = [queues EXCEPT ![k] = Tail(@)]
    /\ LET p == Head(queues[k]) IN
       IF IsClient(p)
       THEN /\ pc' = "callback" /\ event' = [ptr |-> p, kind |-> k]
            /\ sock' = IF k = "err" THEN [sock EXCEPT ![p] = "told"] ELSE sock
       ELSE UNCHANGED <<pc, event, sock>>
    /\ UNCHANGED <<mailbox, uses, kernelVars, staticVars, threadVars, back,
                   serving, closing, reused>>

(* The callback returns.  An error is the last event of its socket.  When  *)
(* the callback destroyed the last socket it destroyed the worker too: its *)
(* onCall goes on with freed memory, which is modelled as its end.         *)
Forgotten == IF event.kind = "err" THEN clients \ {event.ptr} ELSE clients

ReturnCallback ==
    /\ pc = "callback" /\ event' = NoEvent
    /\ IF sta = serving
       THEN pc' = "drain" /\ clients' = Forgotten /\ UNCHANGED serving
       ELSE pc' = "user" /\ serving' = Null /\ UNCHANGED clients
    /\ UNCHANGED <<mailbox, sockVars, kernelVars, refs, sta, threadVars, queues,
                   back, closing, reused>>

FinishCall ==
    /\ pc = "drain" /\ \A k \in Kinds : queues[k] = <<>>
    /\ Done(serving)
    /\ pc' = "user" /\ serving' = Null
    /\ UNCHANGED <<sockVars, kernelVars, staticVars, threadVars, queues, back,
                   event, closing, reused>>

LoopStep ==
    \/ Terminate \/ Join \/ Delete \/ ReturnCallback \/ FinishCall
    \/ \E w \in SocketWorkers : OnCall(w)
    \/ \E k \in Kinds : CallClient(k)

-----------------------------------------------------------------------------
(* The kernel, and the worker thread: SocketWorker::run.                   *)

KernelEvent(p, k) ==
    /\ p \in polled /\ k \notin ready[p]
    /\ ready' = [ready EXCEPT ![p] = @ \cup {k}]
    /\ UNCHANGED <<mailbox, sockVars, polled, staticVars, threadVars, queues,
                   loopVars, reused>>

(* What epoll_wait has to report: an array of the sockets with an edge, in *)
(* some order.  (The code's array takes 1024 of them at a time.)           *)
Reported == {[ptr |-> p, kinds |-> ready[p]] : p \in {q \in polled : ready[q] # {}}}

Arrays(S) == {s \in [1 .. Cardinality(S) -> S] : Distinct(s)}

Collect(w) ==
    /\ wpc[w] = "poll" /\ Reported # {}
    /\ \E array \in Arrays(Reported) : batch' = [batch EXCEPT ![w] = array]
    /\ wpc' = [wpc EXCEPT ![w] = "got"]
    /\ ready' = [p \in Ptrs |-> {}]
    /\ UNCHANGED <<mailbox, sockVars, polled, staticVars, destroyed, queues,
                   loopVars, reused>>

(* An interrupted or failed epoll_wait ends the thread for good.           *)
EpollFails(w) ==
    /\ wpc[w] = "poll"
    /\ wpc' = [wpc EXCEPT ![w] = "exited"]
    /\ UNCHANGED <<mailbox, sockVars, kernelVars, staticVars, batch, destroyed,
                   queues, loopVars, reused>>

(* An event with an error goes to that queue alone (lines 34-37).          *)
GoesTo(kinds, k) == k \in kinds /\ (k = "err" \/ "err" \notin kinds)

Filed(w, k) ==
    LET mine == Filter(batch[w], {e \in Range(batch[w]) : GoesTo(e.kinds, k)})
    IN  [i \in 1 .. Len(mine) |-> mine[i].ptr]

(* The ActiveCall waits until the loop is done with the last batch.        *)
FillQueues(w) ==
    /\ wpc[w] = "got" /\ ~destroyed[w] /\ Fill(w)
    /\ queues' = [k \in Kinds |-> queues[k] \o Filed(w, k)]
    /\ batch' = [batch EXCEPT ![w] = <<>>]
    /\ wpc' = [wpc EXCEPT ![w] = "filling"]
    /\ UNCHANGED <<sockVars, kernelVars, staticVars, destroyed, loopVars, reused>>

(* The ActiveCall throws.                                                  *)
Throw(w) ==
    /\ wpc[w] = "got" /\ destroyed[w]
    /\ batch' = [batch EXCEPT ![w] = <<>>]
    /\ wpc' = [wpc EXCEPT ![w] = "exited"]
    /\ UNCHANGED <<mailbox, sockVars, kernelVars, staticVars, destroyed, queues,
                   loopVars, reused>>

PostQueues(w) ==
    /\ wpc[w] = "filling" /\ Post(w)
    /\ wpc' = [wpc EXCEPT ![w] = "poll"]
    /\ UNCHANGED <<sockVars, kernelVars, staticVars, batch, destroyed, queues,
                   loopVars, reused>>

Thread(w) == Collect(w) \/ FillQueues(w) \/ Throw(w) \/ PostQueues(w)

-----------------------------------------------------------------------------
Next ==
    \/ \E p \in Ptrs : Destroy(p) \/ \E connected \in BOOLEAN : Create(p, connected)
    \/ LoopStep
    \/ \E p \in Ptrs : \E k \in Edges[p] : KernelEvent(p, k)
    \/ \E w \in SocketWorkers : EpollFails(w) \/ Thread(w)

Spec == Init /\ [][Next]_vars

(* The loop runs, its callbacks return, and the worker thread runs.        *)
(* Nothing is assumed of the network, or of when sockets come and go.      *)
FairSpec ==
    /\ Spec /\ WF_vars(LoopStep) /\ \A w \in SocketWorkers : WF_vars(Thread(w))

-----------------------------------------------------------------------------
(* The type of the variables.                                              *)
TypeOK ==
    /\ MailboxTypeOK
    /\ sock \in [Ptrs -> {"none", "open", "deaf", "told", "closing"}]
    /\ \A p \in Ptrs : uses[p] \in 0 .. MaxUses[p]
    /\ clients \subseteq polled /\ polled \subseteq Ptrs
    /\ ready \in [Ptrs -> SUBSET Kinds]
    /\ refs \in Nat /\ sta \in SocketWorkers \cup {Null}
    /\ batch \in [SocketWorkers -> Seq([ptr : Ptrs, kinds : SUBSET Kinds])]
    /\ queues \in [Kinds -> Seq(Ptrs)]
    /\ destroyed \in [SocketWorkers -> BOOLEAN]
    /\ wpc \in [SocketWorkers -> {"none", "poll", "got", "filling", "exited"}]
    /\ pc \in {"user", "terminate", "join", "delete", "drain", "callback"}
    /\ back \in {"user", "callback"}
    /\ event \in [ptr : Ptrs \cup {Null}, kind : Kinds]
    /\ serving \in SocketWorkers \cup {Null} /\ closing \in Ptrs \cup {Null}
    /\ reused \in BOOLEAN

(* There is a worker exactly while there are sockets, whatever the order   *)
(* their constructors and destructors run in (StaticRefCounted.h:23-43).   *)
WorkerIsShared ==
    LET sockets == {p \in Ptrs : Alive(p)}
    IN  /\ refs = Cardinality(sockets)
        /\ closing = Null => (sta # Null <=> sockets # {})
        /\ sta # Null => \A w \in SocketWorkers :
               w # sta => phase[w] \in {"none", "gone"}

(* A socket that was not told of its disconnection is still a client,      *)
(* unless a pointer was used again while an event of its old socket was    *)
(* under way: then line 62 may erase the new socket without a word.        *)
OpenAreClients == ~reused => \A p \in Ptrs : sock[p] = "open" => p \in clients

KeepsListening == TypeOK /\ OpenAreClients

(* A socket is called only while it is alive, however old the event, and   *)
(* never after its onDisconnect: the worker asks whether it is a client    *)
(* first, and takes errors before the rest (AsyncSocketEpoll.cpp:57-77).   *)
CallsTheOpen ==
    [][pc = "drain" /\ pc' = "callback" => sock[event'.ptr] = "open"]_vars

(* What epoll has to say of a client is said in the end, unless its        *)
(* disconnection is said first, or the client is gone, or the worker's     *)
(* thread is: it ends when epoll_wait fails (lines 25-28).                 *)
EventsHeard ==
    \A p \in Ptrs : \A k \in Edges[p] :
        (p \in clients /\ k \in ready[p]) ~>
            \/ p \notin clients \/ wpc[sta] = "exited"
            \/ pc = "callback" /\ event.ptr = p /\ event.kind \in {k, "err"}

(* The destructor of the last socket ends, unless its thread is left in an *)
(* epoll_wait that has nothing to report and no timeout (line 20).         *)
LastDestructorEnds ==
    (pc = "join") ~> (pc # "join" \/ (wpc[sta] = "poll" /\ Reported = {}))
=============================================================================
