--------------------------- MODULE SocketsProofs ---------------------------
(***************************************************************************)
(* Proofs about module Sockets, for any pointers, uses, events, limit and  *)
(* workers: a worker lives as long as its sockets, and the sockets it      *)
(* calls are alive and were not told of their disconnection.               *)
(***************************************************************************)
EXTENDS Sockets, DequeTheorems, FiniteSetTheorems

(* The sockets that count a reference, and the destructor of the last.     *)
Living  == {p \in Ptrs : Alive(p)}
Leaving == pc \in {"terminate", "join", "delete"}

SockTypes ==
    /\ phase \in [SocketWorkers -> Phases]
    /\ sock \in [Ptrs -> {"none", "open", "deaf", "told", "closing"}]
    /\ clients \subseteq Ptrs /\ refs \in Nat /\ sta \in SocketWorkers \cup {Null}
    /\ serving \in SocketWorkers \cup {Null} /\ closing \in Ptrs \cup {Null}
    /\ pc \in {"user", "terminate", "join", "delete", "drain", "callback"}
    /\ back \in {"user", "callback"}

(* StaticRefCounted: a worker while there are sockets, or while the last   *)
(* of them is being destroyed; and no other has a message.                 *)
RefInv ==
    /\ refs = Cardinality(Living)
    /\ closing = Null => (sta # Null <=> Living # {})
    /\ closing # Null => sta # Null /\ Living = {}
    /\ closing # Null <=> Leaving
    /\ \A p \in Ptrs : sock[p] = "closing" <=> p = closing
    /\ \A w \in SocketWorkers : w # sta => phase[w] \in {"none", "gone"}

(* The clients are alive, and the one that was told of its disconnection   *)
(* is the one whose callback runs.                                         *)
ClientInv ==
    /\ \A p \in clients : sock[p] \in {"open", "told"}
    /\ \A p \in clients : sock[p] = "told" =>
           pc = "callback" /\ event.ptr = p /\ event.kind = "err" /\ sta = serving
    /\ pc = "drain" => sta = serving

SockInv == SockTypes /\ RefInv /\ ClientInv

-----------------------------------------------------------------------------
LEMMA LivingFinite ==
    IsFiniteSet(Living) /\ Cardinality(Living) \in Nat
    /\ (Cardinality(Living) = 0 <=> Living = {})
<1>1. IsFiniteSet(Living)
  BY SocketsAssumption, FS_Subset DEF Living
<1> QED
  BY <1>1, FS_CardinalityType, FS_EmptySet

(* The last reference is that of the only socket.                          *)
LEMMA OnlyOne ==
    ASSUME NEW p \in Living, Cardinality(Living) = 1
    PROVE  Living = {p}
<1>1. Cardinality(Living \ {p}) = Cardinality(Living) - 1 /\ IsFiniteSet(Living \ {p})
  BY LivingFinite, FS_RemoveElement
<1>2. Living \ {p} = {}
  BY <1>1, FS_EmptySet
<1> QED
  BY <1>2

LEMMA InitSockInv == Init => SockInv
<1> SUFFICES ASSUME Init PROVE SockInv
  OBVIOUS
<1> USE SocketsAssumption DEF Init, MailboxInit, SocketWorkers
<1>1. Living = {}
  BY DEF Living, Alive
<1>2. Cardinality(Living) = 0
  BY <1>1, FS_EmptySet
<1> QED
  BY <1>1, <1>2 DEF SockInv, SockTypes, RefInv, ClientInv, Leaving, Phases

-----------------------------------------------------------------------------
(* The steps of the worker thread move its own message only.               *)
LEMMA ThreadStep ==
    ASSUME SockInv, NEW w \in SocketWorkers, EpollFails(w) \/ Thread(w)
    PROVE  SockInv'
<1>1. UNCHANGED <<sock, clients, refs, sta, pc, back, event, serving, closing>>
  BY DEF EpollFails, Thread, Collect, FillQueues, Throw, PostQueues, sockVars,
         staticVars, loopVars
<1>2. phase' \in [SocketWorkers -> Phases]
  BY DEF EpollFails, Thread, Collect, FillQueues, Throw, PostQueues, Fill, Post, Move,
         mailbox, SockInv, SockTypes, SocketWorkers, Phases
<1>3. \A v \in SocketWorkers : v # sta => phase'[v] = phase[v]
  BY DEF EpollFails, Thread, Collect, FillQueues, Throw, PostQueues, Fill, Post, Move,
         mailbox, SockInv, SockTypes, RefInv, SocketWorkers
<1>4. Living' = Living /\ (Leaving' <=> Leaving)
  BY <1>1 DEF Living, Alive, Leaving
<1> QED
  BY <1>1, <1>2, <1>3, <1>4 DEF SockInv, SockTypes, RefInv, ClientInv

(* A socket is made: the first makes the worker (StaticRefCounted.h:23-30).*)
LEMMA CreateStep ==
    ASSUME SockInv, NEW p \in Ptrs, NEW connected \in BOOLEAN, Create(p, connected)
    PROVE  SockInv'
<1>1. /\ UserRuns /\ sock[p] = "none" /\ refs' = refs + 1 /\ StartWorker
      /\ UNCHANGED <<pc, back, event, serving, closing>>
      /\ \/ sock' = [sock EXCEPT ![p] = "open"] /\ clients' = clients \cup {p}
         \/ sock' = [sock EXCEPT ![p] = "deaf"] /\ clients' = clients
  BY DEF Create, Count, loopVars
<1>2. SockTypes /\ RefInv /\ ClientInv
  BY DEF SockInv
<1>3. /\ closing = Null /\ ~Leaving /\ ~Leaving' /\ p # Null
  BY <1>1, <1>2, SocketsAssumption DEF RefInv, Leaving, UserRuns
<1>4. Living' = Living \cup {p} /\ p \notin Living
  BY <1>1, <1>2 DEF Living, Alive, SockTypes
<1>5. refs' = Cardinality(Living')
  BY <1>1, <1>2, <1>4, LivingFinite, FS_AddElement DEF RefInv
<1>6. /\ phase' \in [SocketWorkers -> Phases] /\ sta' \in SocketWorkers
      /\ \A w \in SocketWorkers : w # sta' => phase'[w] \in {"none", "gone"}
      /\ refs # 0 => sta' = sta
  <2>1. CASE refs = 0
    <3>1. PICK w \in SocketWorkers : Open(w) /\ sta' = w
      BY <1>1, <2>1 DEF StartWorker
    <3>2. sta = Null
      BY <1>2, <1>3, <2>1, LivingFinite DEF RefInv
    <3>3. \A v \in SocketWorkers : phase[v] \in {"none", "gone"}
      BY <1>2, <3>2, SocketsAssumption DEF RefInv, SocketWorkers
    <3> QED
      BY <1>2, <2>1, <3>1, <3>3 DEF Open, Move, SockTypes, Phases, SocketWorkers
  <2>2. CASE refs # 0
    <3>1. sta \in SocketWorkers
      BY <1>2, <1>3, <2>2, LivingFinite DEF RefInv, SockTypes
    <3> QED
      BY <1>1, <1>2, <2>2, <3>1 DEF StartWorker, mailbox, SockTypes, RefInv
  <2> QED
    BY <2>1, <2>2
<1>7. SockTypes'
  BY <1>1, <1>2, <1>6 DEF SockTypes
<1>8. RefInv'
  <2>1. sta' # Null
    BY <1>6, SocketsAssumption DEF SocketWorkers
  <2>2. \A q \in Ptrs : sock'[q] = "closing" <=> q = closing
    BY <1>1, <1>2, <1>3 DEF RefInv, SockTypes
  <2> QED
    BY <1>1, <1>3, <1>4, <1>5, <1>6, <2>1, <2>2 DEF RefInv
<1>9. ClientInv'
  <2>1. ASSUME NEW q \in clients
        PROVE  sock'[q] = sock[q] /\ refs # 0
    <3>1. q \in Living
      BY <1>2 DEF ClientInv, Living, Alive, SockTypes
    <3> QED
      BY <1>1, <1>2, <1>4, <3>1, LivingFinite DEF RefInv, SockTypes
  <2>2. pc # "drain"
    BY <1>1 DEF UserRuns
  <2> QED
    BY <1>1, <1>2, <1>6, <2>1, <2>2 DEF ClientInv, SockTypes
<1> QED
  BY <1>7, <1>8, <1>9 DEF SockInv

(* A socket is destroyed, the last with its worker                         *)
(* (StaticRefCounted.h:31-43).                                             *)
LEMMA DestroyStep ==
    ASSUME SockInv, NEW p \in Ptrs, Destroy(p)
    PROVE  SockInv'
<1>1. /\ UserRuns /\ p \in Living /\ clients' = clients \ {p} /\ refs' = refs - 1
      /\ UNCHANGED <<phase, sta, event, serving>>
  BY DEF Destroy, Deregistered, Living, mailbox
<1>2. SockTypes /\ RefInv /\ ClientInv
  BY DEF SockInv
<1>3. closing = Null /\ sta # Null /\ p # Null
  BY <1>1, <1>2, SocketsAssumption DEF RefInv, Leaving, UserRuns
<1>4. sock' \in [Ptrs -> {"none", "open", "deaf", "told", "closing"}]
      /\ \A q \in Ptrs : q # p => sock'[q] = sock[q]
  BY <1>2 DEF Destroy, CloseSocket, SockTypes
<1>5. sock'[p] \in {"none", "closing"}
  BY <1>2 DEF Destroy, CloseSocket, SockTypes
<1>6. Living' = Living \ {p}
  BY <1>1, <1>4, <1>5 DEF Living, Alive
<1>7. refs' = Cardinality(Living') /\ refs' \in Nat
  BY <1>1, <1>2, <1>6, LivingFinite, FS_RemoveElement, FS_CardinalityType DEF RefInv
<1>8. CASE LastReference
  <2>1. /\ pc' = "terminate" /\ back' = pc /\ closing' = p
        /\ sock' = [sock EXCEPT ![p] = "closing"]
    BY <1>8 DEF Destroy
  <2>2. Living = {p}
    BY <1>1, <1>2, <1>8, OnlyOne DEF LastReference, RefInv
  <2>3. clients' = {}
    <3>1. clients \subseteq Living
      BY <1>2 DEF ClientInv, Living, Alive, SockTypes
    <3> QED
      BY <1>1, <2>2, <3>1
  <2>4. SockTypes'
    BY <1>1, <1>2, <1>4, <1>7, <2>1, <2>3 DEF SockTypes, UserRuns
  <2>5. RefInv'
    <3>1. Living' = {} /\ closing' # Null /\ Leaving'
      BY <1>3, <1>6, <2>1, <2>2 DEF Leaving
    <3>2. \A q \in Ptrs : sock'[q] = "closing" <=> q = closing'
      BY <1>2, <1>3, <2>1, SocketsAssumption DEF RefInv, SockTypes
    <3> QED
      BY <1>1, <1>2, <1>3, <1>7, <3>1, <3>2 DEF RefInv
  <2>6. ClientInv'
    BY <2>1, <2>3 DEF ClientInv
  <2> QED
    BY <2>4, <2>5, <2>6 DEF SockInv
<1>9. CASE ~LastReference
  <2>1. /\ sock' = [sock EXCEPT ![p] = "none"]
        /\ UNCHANGED <<pc, back, closing>>
    BY <1>9 DEF Destroy, CloseSocket
  <2>2. SockTypes'
    BY <1>1, <1>2, <1>4, <1>7, <2>1 DEF SockTypes
  <2>3. Living' # {}
    <3>1. Living' = {} => refs' = 0
      BY <1>7, FS_EmptySet
    <3>2. refs' # 0
      BY <1>1, <1>2, <1>9 DEF SockTypes, LastReference
    <3> QED
      BY <3>1, <3>2
  <2>4. RefInv'
    BY <1>1, <1>2, <1>3, <1>7, <2>1, <2>3 DEF RefInv, Leaving, SockTypes
  <2>5. ClientInv'
    BY <1>1, <1>2, <1>4, <2>1 DEF ClientInv, SockTypes
  <2> QED
    BY <2>2, <2>4, <2>5 DEF SockInv
<1> QED
  BY <1>8, <1>9

(* The destructor of the last socket, on the loop thread or in a callback. *)
LEMMA LeaveStep ==
    ASSUME SockInv, Terminate \/ Join \/ Delete
    PROVE  SockInv'
<1>1. SockTypes /\ RefInv /\ ClientInv
  BY DEF SockInv
<1>2. Leaving /\ closing \in Ptrs /\ sta \in SocketWorkers /\ Living = {} /\ clients = {}
  <2>1. Leaving
    BY DEF Terminate, Join, Delete, Leaving
  <2>2. clients \subseteq Living
    BY <1>1 DEF ClientInv, Living, Alive, SockTypes
  <2> QED
    BY <1>1, <2>1, <2>2 DEF RefInv, SockTypes
<1>3. CASE Terminate \/ Join
  <2>1. /\ UNCHANGED <<sock, clients, refs, sta, back, event, serving, closing>>
        /\ pc' \in {"join", "delete"}
    BY <1>3 DEF Terminate, Join, sockVars, staticVars
  <2>2. /\ phase' \in [SocketWorkers -> Phases]
        /\ \A w \in SocketWorkers : w # sta => phase'[w] = phase[w]
    BY <1>1, <1>3 DEF Terminate, Join, Done, Move, mailbox, SockTypes, SocketWorkers, Phases
  <2>3. Living' = Living /\ Leaving'
    BY <2>1 DEF Living, Alive, Leaving
  <2> QED
    BY <1>1, <1>2, <2>1, <2>2, <2>3 DEF SockInv, SockTypes, RefInv, ClientInv
<1>4. CASE Delete
  <2>1. /\ UNCHANGED <<clients, refs, event, serving>>
        /\ sta' = Null /\ closing' = Null /\ pc' = back /\ back' = "user"
        /\ sock' = [sock EXCEPT ![closing] = "none"]
        /\ phase' = [phase EXCEPT ![sta] = "gone"]
    BY <1>4 DEF Delete, CloseSocket, Close
  <2>2. Living' = {}
    BY <1>1, <1>2, <2>1 DEF Living, Alive, SockTypes
  <2>3. SockTypes'
    BY <1>1, <1>2, <2>1 DEF SockTypes, Phases
  <2>4. RefInv'
    <3>1. ~Leaving'
      BY <1>1, <2>1 DEF Leaving, SockTypes
    <3>2. \A q \in Ptrs : sock'[q] # "closing"
      BY <1>1, <1>2, <2>1 DEF RefInv, SockTypes
    <3>3. \A w \in SocketWorkers : phase'[w] \in {"none", "gone"}
      BY <1>1, <2>1 DEF RefInv, SockTypes, Phases
    <3>4. refs' = Cardinality(Living')
      BY <1>1, <1>2, <2>1, <2>2 DEF RefInv
    <3> QED
      BY <2>1, <2>2, <3>1, <3>2, <3>3, <3>4, SocketsAssumption DEF RefInv
  <2>5. ClientInv'
    BY <1>1, <1>2, <2>1 DEF ClientInv, SockTypes
  <2> QED
    BY <2>3, <2>4, <2>5 DEF SockInv
<1> QED
  BY <1>3, <1>4

(* The worker's onCall (AsyncSocketEpoll.cpp:57-77).                       *)
LEMMA CallStep ==
    ASSUME SockInv,
           \/ \E w \in SocketWorkers : OnCall(w)
           \/ \E k \in Kinds : CallClient(k)
           \/ ReturnCallback \/ FinishCall
    PROVE  SockInv'
<1>1. SockTypes /\ RefInv /\ ClientInv
  BY DEF SockInv
<1>2. UNCHANGED <<refs, sta, back, closing>>
  BY DEF OnCall, CallClient, ReturnCallback, FinishCall, staticVars
<1>3. pc \in {"user", "drain", "callback"} /\ pc' \in {"user", "drain", "callback"}
  BY DEF OnCall, CallClient, ReturnCallback, FinishCall
<1>4. ASSUME UNCHANGED sock, phase' \in [SocketWorkers -> Phases],
             \A w \in SocketWorkers : w # sta => phase'[w] \in {"none", "gone"}
      PROVE  RefInv'
  <2>1. Living' = Living /\ (Leaving' <=> Leaving)
    BY <1>3, <1>4 DEF Living, Alive, Leaving
  <2> QED
    BY <1>1, <1>2, <1>4, <2>1 DEF RefInv
<1>5. ASSUME NEW w \in SocketWorkers, OnCall(w) PROVE SockInv'
  <2>1. /\ pc = "user" /\ pc' = "drain" /\ serving' = w
        /\ UNCHANGED <<sock, clients, event>>
        /\ phase[w] = "posted" /\ phase' = [phase EXCEPT ![w] = "handling"]
    BY <1>5 DEF OnCall, Handle, Move, sockVars, staticVars
  <2>2. w = sta
    BY <1>1, <2>1 DEF RefInv
  <2>3. /\ phase' \in [SocketWorkers -> Phases]
        /\ \A v \in SocketWorkers : v # sta => phase'[v] \in {"none", "gone"}
    BY <1>1, <2>1, <2>2 DEF RefInv, SockTypes, Phases
  <2>4. RefInv'
    BY <1>4, <2>1, <2>3
  <2> QED
    BY <1>1, <1>2, <2>1, <2>2, <2>3, <2>4 DEF SockInv, SockTypes, ClientInv
<1>6. ASSUME NEW k \in Kinds, CallClient(k) PROVE SockInv'
  <2>1. pc = "drain" /\ UNCHANGED <<phase, clients, serving>>
    BY <1>6 DEF CallClient, mailbox, staticVars
  <2>2. CASE UNCHANGED <<sock, pc, event>>
    <3>1. RefInv'
      BY <1>1, <1>4, <2>1, <2>2 DEF RefInv, SockTypes
    <3> QED
      BY <1>1, <1>2, <2>1, <2>2, <3>1 DEF SockInv, SockTypes, ClientInv
  <2>3. CASE ~UNCHANGED <<sock, pc, event>>
    <3>1. PICK p \in clients :
              /\ pc' = "callback" /\ event' = [ptr |-> p, kind |-> k]
              /\ sock' = IF k = "err" THEN [sock EXCEPT ![p] = "told"] ELSE sock
      BY <1>6, <2>3 DEF CallClient, IsClient
    <3>2. p \in Ptrs /\ sock[p] \in {"open", "told"}
      BY <1>1 DEF SockTypes, ClientInv
    <3>3. SockTypes'
      BY <1>1, <1>2, <2>1, <3>1, <3>2 DEF SockTypes
    <3>4. RefInv'
      <4>1. Living' = Living
        BY <1>1, <3>1, <3>2 DEF Living, Alive, SockTypes
      <4>2. ~Leaving /\ ~Leaving'
        BY <1>3 DEF Leaving
      <4>3. \A q \in Ptrs : sock'[q] = "closing" <=> sock[q] = "closing"
        BY <1>1, <3>1, <3>2 DEF SockTypes
      <4> QED
        BY <1>1, <1>2, <2>1, <4>1, <4>2, <4>3 DEF RefInv
    <3>5. ClientInv'
      BY <1>1, <1>2, <2>1, <3>1, <3>2 DEF ClientInv, SockTypes
    <3> QED
      BY <3>3, <3>4, <3>5 DEF SockInv
  <2> QED
    BY <2>2, <2>3
<1>7. CASE ReturnCallback
  <2>1. /\ pc = "callback" /\ UNCHANGED <<phase, sock>>
        /\ \/ sta = serving /\ pc' = "drain" /\ clients' = Forgotten /\ serving' = serving
           \/ sta # serving /\ pc' = "user" /\ clients' = clients /\ serving' = Null
    BY <1>7 DEF ReturnCallback, mailbox, sockVars
  <2>2. RefInv'
    BY <1>1, <1>4, <2>1 DEF RefInv, SockTypes
  <2>3. SockTypes'
    BY <1>1, <1>2, <2>1 DEF SockTypes, Forgotten
  <2>4. ClientInv'
    BY <1>1, <1>2, <2>1 DEF ClientInv, Forgotten
  <2> QED
    BY <2>2, <2>3, <2>4 DEF SockInv
<1>8. CASE FinishCall
  <2>1. /\ pc = "drain" /\ pc' = "user" /\ serving' = Null
        /\ UNCHANGED <<sock, clients, event>>
        /\ phase[serving] = "handling" /\ phase' = [phase EXCEPT ![serving] = "free"]
    BY <1>8 DEF FinishCall, Done, Move, sockVars, staticVars
  <2>2. serving = sta
    BY <1>1, <2>1 DEF ClientInv
  <2>3. /\ phase' \in [SocketWorkers -> Phases]
        /\ \A v \in SocketWorkers : v # sta => phase'[v] \in {"none", "gone"}
    BY <1>1, <2>1, <2>2 DEF RefInv, SockTypes, Phases
  <2>4. RefInv'
    BY <1>4, <2>1, <2>3
  <2> QED
    BY <1>1, <1>2, <2>1, <2>3, <2>4 DEF SockInv, SockTypes, ClientInv
<1> QED
  BY <1>5, <1>6, <1>7, <1>8

LEMMA SockStep == SockInv /\ [Next]_vars => SockInv'
<1> SUFFICES ASSUME SockInv, [Next]_vars PROVE SockInv'
  OBVIOUS
<1>1. ASSUME UNCHANGED <<phase, sock, clients, refs, sta, pc, back, event, serving, closing>>
      PROVE  SockInv'
  <2>1. Living' = Living /\ (Leaving' <=> Leaving)
    BY <1>1 DEF Living, Alive, Leaving
  <2> QED
    BY <1>1, <2>1 DEF SockInv, SockTypes, RefInv, ClientInv
<1>2. CASE UNCHANGED vars
  BY <1>1, <1>2 DEF vars, mailbox, sockVars, staticVars, loopVars
<1>3. ASSUME NEW p \in Ptrs, NEW k \in Edges[p], KernelEvent(p, k) PROVE SockInv'
  BY <1>1, <1>3 DEF KernelEvent, mailbox, sockVars, staticVars, loopVars
<1> QED
  BY <1>2, <1>3, ThreadStep, CreateStep, DestroyStep, LeaveStep, CallStep DEF Next, LoopStep

LEMMA SockInvariance == Spec => []SockInv
BY InitSockInv, SockStep, PTL DEF Spec

-----------------------------------------------------------------------------
(* There is a worker exactly while there are sockets, and no other has a   *)
(* message: WorkerIsShared (StaticRefCounted.h:23-43).                     *)
THEOREM WorkerIsSharedHolds == Spec => []WorkerIsShared
<1>1. SockInv => WorkerIsShared
  BY DEF SockInv, RefInv, Living, WorkerIsShared
<1> QED
  BY <1>1, SockInvariance, PTL

(* A callback is called on a socket that is alive and was not told of its  *)
(* disconnection: CallsTheOpen (AsyncSocketEpoll.cpp:57-77).               *)
THEOREM CallsTheOpenHolds == Spec => CallsTheOpen
<1>1. SockInv /\ [Next]_vars
        => [pc = "drain" /\ pc' = "callback" => sock[event'.ptr] = "open"]_vars
  <2> SUFFICES ASSUME SockInv, [Next]_vars, pc = "drain", pc' = "callback"
               PROVE  sock[event'.ptr] = "open"
    OBVIOUS
  <2>1. PICK k \in Kinds : CallClient(k)
    BY DEF Next, LoopStep, Create, Destroy, UserRuns, Terminate, Join, Delete, OnCall,
           ReturnCallback, FinishCall, KernelEvent, EpollFails, Thread, Collect, FillQueues,
           Throw, PostQueues, loopVars, vars
  <2>2. PICK p \in clients : event'.ptr = p
    BY <2>1 DEF CallClient, IsClient
  <2> QED
    BY <2>2 DEF SockInv, ClientInv
<1> QED
  BY <1>1, SockInvariance, PTL DEF Spec, CallsTheOpen

(* A socket that was not told stays a client, until a pointer is used      *)
(* again under an old event: the part of KeepsListening that is not about  *)
(* types (AsyncSocketEpoll.cpp:59-63).                                     *)
ToldIsNotOpen ==
    ~reused => (event.kind = "err" /\ event.ptr \in Ptrs => sock[event.ptr] # "open")

THEOREM OpenAreClientsHolds == Spec => []OpenAreClients
<1>1. Init => OpenAreClients /\ ToldIsNotOpen
  BY DEF Init, OpenAreClients, ToldIsNotOpen, NoEvent
<1>2. SockInv /\ OpenAreClients /\ ToldIsNotOpen /\ [Next]_vars
        => OpenAreClients' /\ ToldIsNotOpen'
  <2> SUFFICES ASSUME SockInv, OpenAreClients, ToldIsNotOpen, [Next]_vars, ~reused'
               PROVE  /\ \A q \in Ptrs : sock'[q] = "open" => q \in clients'
                      /\ event'.kind = "err" /\ event'.ptr \in Ptrs
                             => sock'[event'.ptr] # "open"
    BY DEF OpenAreClients, ToldIsNotOpen
  <2> DEFINE Goal == /\ \A q \in Ptrs : sock'[q] = "open" => q \in clients'
                     /\ event'.kind = "err" /\ event'.ptr \in Ptrs
                            => sock'[event'.ptr] # "open"
  <2>1. /\ ~reused /\ sock \in [Ptrs -> {"none", "open", "deaf", "told", "closing"}]
        /\ clients \subseteq Ptrs /\ closing \in Ptrs \cup {Null}
    <3>1. ASSUME NEW p \in Ptrs, NEW connected \in BOOLEAN, Create(p, connected)
          PROVE  ~reused
      BY <3>1 DEF Create
    <3>2. ASSUME reused' = reused PROVE ~reused
      BY <3>2
    <3>3. ~reused
      BY <3>1, <3>2
         DEF Next, LoopStep, Destroy, Terminate, Join, Delete, OnCall, CallClient,
             ReturnCallback, FinishCall, KernelEvent, EpollFails, Thread, Collect, FillQueues,
             Throw, PostQueues, vars
    <3> QED
      BY <3>3 DEF SockInv, SockTypes
  <2>2. /\ \A q \in Ptrs : sock[q] = "open" => q \in clients
        /\ event.kind = "err" /\ event.ptr \in Ptrs => sock[event.ptr] # "open"
    BY <2>1 DEF OpenAreClients, ToldIsNotOpen
  <2>3. ASSUME NEW p \in Ptrs, NEW connected \in BOOLEAN, Create(p, connected) PROVE Goal
    <3>1. p # event.ptr /\ event' = event
      <4>1. p \notin UnderWay /\ event' = event
        BY <2>3 DEF Create, loopVars
      <4>2. event.ptr \in UnderWay
        BY DEF UnderWay
      <4> QED
        BY <4>1, <4>2
    <3>2. \/ sock' = [sock EXCEPT ![p] = "open"] /\ clients' = clients \cup {p}
          \/ sock' = [sock EXCEPT ![p] = "deaf"] /\ clients' = clients
      BY <2>3 DEF Create
    <3> QED
      BY <2>1, <2>2, <3>1, <3>2
  <2>4. ASSUME NEW p \in Ptrs, Destroy(p) PROVE Goal
    <3>1. /\ clients' = clients \ {p} /\ event' = event
          /\ \/ sock' = [sock EXCEPT ![p] = "closing"]
             \/ sock' = [sock EXCEPT ![p] = "none"]
      BY <2>4 DEF Destroy, Deregistered, CloseSocket
    <3> QED
      BY <2>1, <2>2, <3>1
  <2>5. CASE Delete
    <3>1. /\ clients' = clients /\ event' = event
          /\ sock' = [sock EXCEPT ![closing] = "none"]
      BY <2>5 DEF Delete, CloseSocket
    <3> QED
      BY <2>1, <2>2, <3>1
  <2>6. ASSUME NEW k \in Kinds, CallClient(k) PROVE Goal
    <3>1. clients' = clients
      BY <2>6 DEF CallClient, staticVars
    <3>2. CASE UNCHANGED <<sock, event>>
      BY <2>2, <3>1, <3>2
    <3>3. CASE ~UNCHANGED <<sock, event>>
      <4>1. PICK p \in clients :
                /\ event' = [ptr |-> p, kind |-> k]
                /\ sock' = IF k = "err" THEN [sock EXCEPT ![p] = "told"] ELSE sock
        BY <2>6, <3>3 DEF CallClient, IsClient
      <4> QED
        BY <2>1, <2>2, <3>1, <4>1
    <3> QED
      BY <3>2, <3>3
  <2>7. CASE ReturnCallback
    <3>1. /\ sock' = sock /\ event' = NoEvent /\ (clients' = Forgotten \/ clients' = clients)
      BY <2>7 DEF ReturnCallback, sockVars
    <3> QED
      BY <2>1, <2>2, <3>1 DEF Forgotten, NoEvent
  <2>8. ASSUME UNCHANGED <<sock, clients, event>> PROVE Goal
    BY <2>2, <2>8
  <2>9. CASE Terminate \/ Join \/ FinishCall \/ UNCHANGED vars
    BY <2>8, <2>9 DEF Terminate, Join, FinishCall, sockVars, staticVars, vars, loopVars
  <2>10. ASSUME NEW w \in SocketWorkers, OnCall(w) \/ EpollFails(w) \/ Thread(w) PROVE Goal
    BY <2>8, <2>10
       DEF OnCall, EpollFails, Thread, Collect, FillQueues, Throw, PostQueues, sockVars,
           staticVars, loopVars
  <2>11. ASSUME NEW p \in Ptrs, NEW k \in Edges[p], KernelEvent(p, k) PROVE Goal
    BY <2>8, <2>11 DEF KernelEvent, sockVars, staticVars, loopVars
  <2> QED
    BY <2>3, <2>4, <2>5, <2>6, <2>7, <2>9, <2>10, <2>11 DEF Next, LoopStep
<1> QED
  BY <1>1, <1>2, SockInvariance, PTL DEF Spec

-----------------------------------------------------------------------------
(* The rest of the types: what is on its way from epoll to a callback.     *)
Entries == [ptr : Ptrs, kinds : SUBSET Kinds]

WayTypes ==
    /\ fifo \in Seq(Slots)
    /\ uses \in [Ptrs -> Nat] /\ \A p \in Ptrs : uses[p] <= MaxUses[p]
    /\ clients \subseteq polled /\ polled \subseteq Ptrs
    /\ ready \in [Ptrs -> SUBSET Kinds]
    /\ batch \in [SocketWorkers -> Seq(Entries)]
    /\ queues \in [Kinds -> Seq(Ptrs)]
    /\ destroyed \in [SocketWorkers -> BOOLEAN]
    /\ wpc \in [SocketWorkers -> {"none", "poll", "got", "filling", "exited"}]
    /\ event \in [ptr : Ptrs \cup {Null}, kind : Kinds]
    /\ reused \in BOOLEAN

(* An array of what epoll has to report is one of pointers and kinds.      *)
LEMMA ArrayType ==
    ASSUME WayTypes, NEW array \in Arrays(Reported)
    PROVE  array \in Seq(Entries)
<1> DEFINE told == {q \in polled : ready[q] # {}}
           entry == [q \in told |-> [ptr |-> q, kinds |-> ready[q]]]
<1>1. IsFiniteSet(told)
  BY SocketsAssumption, FS_Subset DEF WayTypes
<1>2. entry \in Surjection(told, Reported)
  <2>1. entry \in [told -> Reported]
    BY DEF Reported
  <2>2. \A e \in Reported : \E q \in told : entry[q] = e
    BY DEF Reported
  <2> HIDE DEF entry, told
  <2> QED
    BY <2>1, <2>2 DEF Surjection
<1> HIDE DEF entry, told
<1>3. IsFiniteSet(Reported)
  BY <1>1, <1>2, FS_Surjection
<1>4. Cardinality(Reported) \in Nat
  BY <1>3, FS_CardinalityType
<1>5. Reported \subseteq Entries
  BY DEF Reported, WayTypes, Entries
<1>6. array \in [1 .. Cardinality(Reported) -> Entries]
  BY <1>5 DEF Arrays
<1> QED
  BY <1>4, <1>6

(* The events of one kind are filed by their pointers.                     *)
LEMMA FiledType ==
    ASSUME WayTypes, NEW w \in SocketWorkers, NEW k \in Kinds
    PROVE  Filed(w, k) \in Seq(Ptrs)
<1> DEFINE mine == Filter(batch[w], {e \in Range(batch[w]) : GoesTo(e.kinds, k)})
<1>1. batch[w] \in Seq(Entries)
  BY DEF WayTypes
<1>2. mine \in Seq(Entries)
  BY <1>1, FilterType
<1>3. Filed(w, k) = [i \in 1 .. Len(mine) |-> mine[i].ptr]
  BY DEF Filed
<1> HIDE DEF mine
<1>4. Len(mine) \in Nat /\ \A i \in 1 .. Len(mine) : mine[i] \in Entries
  BY <1>2, LenProperties
<1>5. \A i \in 1 .. Len(mine) : mine[i].ptr \in Ptrs
  BY <1>4 DEF Entries
<1>6. Filed(w, k) \in [1 .. Len(mine) -> Ptrs]
  BY <1>3, <1>5
<1> QED
  BY <1>4, <1>6

LEMMA InitWayTypes == Init => WayTypes
<1>1. <<>> \in Seq(Slots) /\ <<>> \in Seq(Entries) /\ <<>> \in Seq(Ptrs)
  BY EmptySeq
<1> SUFFICES ASSUME Init PROVE WayTypes
  OBVIOUS
<1>2. uses \in [Ptrs -> Nat] /\ \A p \in Ptrs : uses[p] <= MaxUses[p]
  <2>1. \A p \in Ptrs : MaxUses[p] \in Nat
    BY SocketsAssumption
  <2> QED
    BY <2>1 DEF Init
<1>3. clients \subseteq polled /\ polled \subseteq Ptrs /\ ready \in [Ptrs -> SUBSET Kinds]
  BY DEF Init
<1>4. fifo \in Seq(Slots) /\ batch \in [SocketWorkers -> Seq(Entries)] /\ queues \in [Kinds -> Seq(Ptrs)]
  BY <1>1 DEF Init, MailboxInit
<1>5. event \in [ptr : Ptrs \cup {Null}, kind : Kinds] /\ reused \in BOOLEAN
  BY DEF Init, NoEvent, Kinds
<1>6. /\ destroyed \in [SocketWorkers -> BOOLEAN]
      /\ wpc \in [SocketWorkers -> {"none", "poll", "got", "filling", "exited"}]
  BY DEF Init
<1> QED
  BY <1>2, <1>3, <1>4, <1>5, <1>6 DEF WayTypes

(* The sockets come and go.                                                *)
LEMMA WayLifeStep ==
    ASSUME SockInv, WayTypes,
           \/ \E p \in Ptrs : Destroy(p) \/ \E connected \in BOOLEAN : Create(p, connected)
           \/ Terminate \/ Join \/ Delete
    PROVE  WayTypes'
<1> USE DEF WayTypes, SocketWorkers
<1>1. ASSUME NEW p \in Ptrs, NEW connected \in BOOLEAN, Create(p, connected) PROVE WayTypes'
  <2>1. /\ UNCHANGED <<ready, batch, destroyed, queues, event>>
        /\ uses[p] < MaxUses[p] /\ uses' = [uses EXCEPT ![p] = @ + 1]
        /\ reused' = (reused \/ p \in UnderWay)
        /\ \/ clients' = clients \cup {p} /\ polled' = polled \cup {p}
           \/ UNCHANGED <<clients, polled>>
    BY <1>1 DEF Create, loopVars
  <2>2. UNCHANGED fifo /\ (wpc' = wpc \/ \E w \in SocketWorkers : wpc' = [wpc EXCEPT ![w] = "poll"])
    BY <1>1 DEF Create, StartWorker, Open, mailbox
  <2>3. /\ uses' \in [Ptrs -> Nat] /\ \A q \in Ptrs : uses'[q] <= MaxUses[q]
    <3>1. \A q \in Ptrs : MaxUses[q] \in Nat /\ uses[q] \in Nat /\ uses[q] <= MaxUses[q]
      BY SocketsAssumption
    <3>2. uses[p] + 1 \in Nat /\ uses[p] + 1 <= MaxUses[p]
      BY <2>1, <3>1
    <3>3. uses' = [uses EXCEPT ![p] = uses[p] + 1]
      BY <2>1
    <3>4. uses' \in [Ptrs -> Nat]
      BY <3>2, <3>3
    <3>5. \A q \in Ptrs : uses'[q] = IF q = p THEN uses[p] + 1 ELSE uses[q]
      BY <3>3
    <3> QED
      BY <3>1, <3>2, <3>4, <3>5
  <2> QED
    BY <2>1, <2>2, <2>3
<1>2. ASSUME NEW p \in Ptrs, Destroy(p) PROVE WayTypes'
  BY <1>2 DEF Destroy, Deregistered, CloseSocket, Unpolled, mailbox, kernelVars, threadVars
<1>3. CASE Terminate
  BY <1>3
  DEF Terminate, MarkDestroyed, mailbox, sockVars, kernelVars, staticVars
<1>4. CASE Join
  BY <1>4 DEF Join, Done, mailbox, sockVars, kernelVars, staticVars, threadVars
<1>5. CASE Delete
  <2>1. clients = {}
    <3>1. clients \subseteq Living /\ Living = {}
      BY <1>5 DEF SockInv, SockTypes, ClientInv, RefInv, Living, Alive, Delete, Leaving
    <3> QED
      BY <3>1
  <2>2. fifo' \in Seq(Slots)
    BY <1>5, EraseProperties DEF Delete, Close
  <2>3. queues' \in [Kinds -> Seq(Ptrs)]
    <3>1. <<>> \in Seq(Ptrs)
      BY EmptySeq
    <3> QED
      BY <1>5, <3>1 DEF Delete
  <2> QED
    BY <1>5, <2>1, <2>2, <2>3 DEF Delete, CloseSocket, Unpolled, threadVars
<1> QED
  BY <1>1, <1>2, <1>3, <1>4, <1>5

(* The worker's onCall.                                                    *)
LEMMA WayCallStep ==
    ASSUME SockInv, WayTypes,
           \/ \E w \in SocketWorkers : OnCall(w)
           \/ \E k \in Kinds : CallClient(k)
           \/ ReturnCallback \/ FinishCall
    PROVE  WayTypes'
<1> USE DEF WayTypes, SocketWorkers
<1>1. ASSUME NEW w \in SocketWorkers, OnCall(w) PROVE WayTypes'
  <2>1. fifo' \in Seq(Slots)
    BY <1>1, PopFront DEF OnCall, Handle
  <2> QED
    BY <1>1, <2>1 DEF OnCall, sockVars, kernelVars, staticVars, threadVars
<1>2. ASSUME NEW k \in Kinds, CallClient(k) PROVE WayTypes'
  <2>1. queues[k] \in Seq(Ptrs) /\ queues[k] # <<>>
    BY <1>2 DEF CallClient, IsNext
  <2>2. Tail(queues[k]) \in Seq(Ptrs) /\ Head(queues[k]) \in Ptrs
    BY <2>1, PopFront
  <2>3. queues' = [queues EXCEPT ![k] = Tail(queues[k])]
        /\ (event' = event \/ event' = [ptr |-> Head(queues[k]), kind |-> k])
    BY <1>2 DEF CallClient
  <2>4. UNCHANGED <<fifo, uses, polled, ready, clients, batch, destroyed, wpc, reused>>
    BY <1>2 DEF CallClient, mailbox, kernelVars, staticVars, threadVars
  <2> QED
    BY <2>2, <2>3, <2>4
<1>3. CASE ReturnCallback
  BY <1>3, SocketsAssumption
  DEF ReturnCallback, Forgotten, NoEvent, Kinds, mailbox, sockVars, kernelVars, threadVars
<1>4. CASE FinishCall
  BY <1>4 DEF FinishCall, Done, sockVars, kernelVars, staticVars, threadVars
<1> QED
  BY <1>1, <1>2, <1>3, <1>4

(* The kernel and the worker's thread.                                     *)
LEMMA WayThreadStep ==
    ASSUME WayTypes,
           \/ \E p \in Ptrs : \E k \in Edges[p] : KernelEvent(p, k)
           \/ \E w \in SocketWorkers : EpollFails(w) \/ Thread(w)
    PROVE  WayTypes'
<1> USE DEF WayTypes, SocketWorkers
<1>1. ASSUME NEW p \in Ptrs, NEW k \in Edges[p], KernelEvent(p, k) PROVE WayTypes'
  <2>1. k \in Kinds
    BY SocketsAssumption DEF Kinds
  <2> QED
    BY <1>1, <2>1 DEF KernelEvent, mailbox, sockVars, staticVars, threadVars, loopVars
<1>2. ASSUME NEW w \in SocketWorkers, EpollFails(w) PROVE WayTypes'
  BY <1>2 DEF EpollFails, mailbox, sockVars, kernelVars, staticVars, loopVars
<1>3. ASSUME NEW w \in SocketWorkers, Collect(w) PROVE WayTypes'
  <2>1. PICK array \in Arrays(Reported) : batch' = [batch EXCEPT ![w] = array]
    BY <1>3 DEF Collect
  <2>2. array \in Seq(Entries)
    BY ArrayType
  <2> QED
    BY <1>3, <2>1, <2>2 DEF Collect, mailbox, sockVars, staticVars, loopVars
<1>4. ASSUME NEW w \in SocketWorkers, FillQueues(w) PROVE WayTypes'
  <2>1. queues' \in [Kinds -> Seq(Ptrs)]
    <3>1. \A k \in Kinds : queues[k] \o Filed(w, k) \in Seq(Ptrs)
      BY FiledType, ConcatProperties
    <3> QED
      BY <1>4, <3>1 DEF FillQueues
  <2>2. batch' \in [SocketWorkers -> Seq(Entries)]
    <3>1. <<>> \in Seq(Entries)
      BY EmptySeq
    <3> QED
      BY <1>4, <3>1 DEF FillQueues
  <2> QED
    BY <1>4, <2>1, <2>2 DEF FillQueues, Fill, sockVars, kernelVars, staticVars, loopVars
<1>5. ASSUME NEW w \in SocketWorkers, Throw(w) PROVE WayTypes'
  <2>1. <<>> \in Seq(Entries)
    BY EmptySeq
  <2> QED
    BY <1>5, <2>1 DEF Throw, mailbox, sockVars, kernelVars, staticVars, loopVars
<1>6. ASSUME NEW w \in SocketWorkers, PostQueues(w) PROVE WayTypes'
  <2>1. fifo' \in Seq(Slots)
    BY <1>6, PushBack DEF PostQueues, Post
  <2> QED
    BY <1>6, <2>1 DEF PostQueues, sockVars, kernelVars, staticVars, loopVars
<1> QED
  BY <1>1, <1>2, <1>3, <1>4, <1>5, <1>6 DEF Thread

LEMMA WayInvariance == Spec => []WayTypes
<1>1. SockInv /\ WayTypes /\ [Next]_vars => WayTypes'
  <2> SUFFICES ASSUME SockInv, WayTypes, [Next]_vars PROVE WayTypes'
    OBVIOUS
  <2>1. CASE UNCHANGED vars
    BY <2>1 DEF WayTypes, vars, mailbox, sockVars, kernelVars, staticVars, threadVars, loopVars
  <2> QED
    BY <2>1, WayLifeStep, WayCallStep, WayThreadStep DEF Next, LoopStep
<1> QED
  BY <1>1, InitWayTypes, SockInvariance, PTL DEF Spec

(* The variables keep their types, and a socket that was not told of its   *)
(* disconnection stays a client until a pointer is used again under an old *)
(* event (AsyncSocketEpoll.cpp:59-63).                                     *)
THEOREM KeepsListeningHolds == Spec => []KeepsListening
<1>1. SockInv /\ WayTypes => TypeOK
  <2> SUFFICES ASSUME SockInv, WayTypes PROVE TypeOK
    OBVIOUS
  <2>1. \A p \in Ptrs : uses[p] \in 0 .. MaxUses[p]
    <3>1. \A p \in Ptrs : MaxUses[p] \in Nat /\ uses[p] \in Nat /\ uses[p] <= MaxUses[p]
      BY SocketsAssumption DEF WayTypes
    <3> QED
      BY <3>1
  <2>2. MailboxTypeOK
    BY DEF SockInv, SockTypes, WayTypes, MailboxTypeOK, SocketWorkers
  <2> QED
    BY <2>1, <2>2 DEF SockInv, SockTypes, WayTypes, TypeOK, Entries
<1>2. TypeOK /\ OpenAreClients => KeepsListening
  BY DEF KeepsListening
<1> QED
  BY <1>1, <1>2, SockInvariance, WayInvariance, OpenAreClientsHolds, PTL
=============================================================================
