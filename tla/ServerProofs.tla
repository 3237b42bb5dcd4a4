---------------------------- MODULE ServerProofs ----------------------------
(***************************************************************************)
(* Proofs about module Server: about its sockets, for every set of         *)
(* descriptors and of RWSockets and any number of clients, and about the   *)
(* list of its interfaces and what is announced of it, for any interfaces. *)
(***************************************************************************)
EXTENDS Server, DequeTheorems

SocketTypes ==
    /\ opened \subseteq Descriptors
    /\ la \in {"none", "deaf", "listens"} /\ turn \in {"idle", "accept", "client"}
    /\ listener \in Nat /\ sock \in Nat /\ conn \in [RWSockets -> Nat]
    /\ backlog \in Nat /\ edge \in BOOLEAN /\ gaveUp \in BOOLEAN

(* Nobody has a descriptor without a reason, and nobody waits for a socket *)
(* that does not listen.                                                   *)
Reasons ==
    /\ la = "none" => listener = 0
    /\ turn # "client" => sock = 0
    /\ la # "listens" => backlog = 0

SocketsInv == SocketTypes /\ Reasons /\ OneOwner /\ NobodyWaits

(* The kernel has a lowest descriptor to give, and it is not open.         *)
LEMMA FreshIsUnopened ==
    ASSUME Unopened # {}
    PROVE  Fresh \in Descriptors /\ Fresh \in Nat /\ Fresh \notin opened
<1>1. Unopened \subseteq Nat
  BY ListenerAssumption DEF Unopened
<1>2. \E x \in Unopened : \A y \in Unopened : x =< y
  BY <1>1, Least
<1>3. Fresh \in Unopened
  BY <1>2 DEF Fresh, Min
<1> QED
  BY <1>1, <1>3 DEF Unopened

LEMMA InitSockets == ListenerInit => SocketsInv
BY ListenerAssumption
   DEF ListenerInit, SocketsInv, SocketTypes, Reasons, OneOwner, NobodyWaits, Owners

(* Types and reasons, step by step.                                        *)
LEMMA ReasonsStep ==
    ASSUME SocketsInv, SocketSteps
    PROVE  SocketTypes' /\ Reasons'
<1> USE DEF SocketsInv, SocketTypes, Reasons
<1>1. CASE Connect
  BY <1>1 DEF Connect
<1>2. CASE OnCanRead
  BY <1>2 DEF OnCanRead
<1>3. CASE AcceptNone \/ AcceptFails
  BY <1>3 DEF AcceptNone, AcceptFails
<1>4. CASE FcntlFails
  BY <1>4, FreshIsUnopened DEF FcntlFails
<1>5. CASE Accept
  BY <1>5, FreshIsUnopened DEF Accept
<1>6. CASE ReturnClient
  BY <1>6 DEF ReturnClient, Closed, GoesOn
<1>7. ASSUME NEW succeeds \in BOOLEAN, Listen(succeeds) PROVE SocketTypes' /\ Reasons'
  BY <1>7, FreshIsUnopened DEF Listen
<1>8. CASE StopListening
  BY <1>8 DEF StopListening, Closed
<1>9. ASSUME NEW r \in RWSockets, Take(r) PROVE SocketTypes' /\ Reasons'
  BY <1>9 DEF Take, Swapped
<1>10. ASSUME NEW r \in RWSockets, Drop(r) PROVE SocketTypes' /\ Reasons'
  BY <1>10 DEF Drop, Closed
<1> QED
  BY <1>1, <1>2, <1>3, <1>4, <1>5, <1>6, <1>7, <1>8, <1>9, <1>10
  DEF SocketSteps, AcceptLoop

(* Every step that opens, closes or passes on a descriptor keeps to one    *)
(* owner.                                                                  *)
LEMMA OwnersStep ==
    ASSUME SocketsInv, SocketSteps
    PROVE  OneOwner'
<1> USE DEF SocketsInv, SocketTypes, Reasons, OneOwner, Owners
<1>1. CASE Connect
  BY <1>1 DEF Connect
<1>2. CASE OnCanRead
  BY <1>2 DEF OnCanRead
<1>3. CASE AcceptNone \/ AcceptFails
  BY <1>3 DEF AcceptNone, AcceptFails
<1>4. CASE FcntlFails
  BY <1>4, FreshIsUnopened DEF FcntlFails
<1>5. CASE Accept
  BY <1>5, FreshIsUnopened DEF Accept
<1>6. CASE ReturnClient
  BY <1>6 DEF ReturnClient, Closed
<1>7. ASSUME NEW succeeds \in BOOLEAN, Listen(succeeds) PROVE OneOwner'
  BY <1>7, FreshIsUnopened DEF Listen
<1>8. CASE StopListening
  BY <1>8 DEF StopListening, Closed
<1>9. ASSUME NEW r \in RWSockets, Take(r) PROVE OneOwner'
  BY <1>9 DEF Take, Swapped
<1>10. ASSUME NEW r \in RWSockets, Drop(r) PROVE OneOwner'
  BY <1>10 DEF Drop, Closed
<1> QED
  BY <1>1, <1>2, <1>3, <1>4, <1>5, <1>6, <1>7, <1>8, <1>9, <1>10
  DEF SocketSteps, AcceptLoop

(* The loop leaves the accept loop when it has met the end or an error.    *)
LEMMA WaitsStep ==
    ASSUME SocketsInv, SocketSteps
    PROVE  NobodyWaits'
<1> USE DEF SocketsInv, SocketTypes, Reasons, NobodyWaits
<1>1. CASE Connect \/ OnCanRead
  BY <1>1 DEF Connect, OnCanRead
<1>2. CASE AcceptNone \/ AcceptFails \/ FcntlFails \/ Accept
  BY <1>2 DEF AcceptNone, AcceptFails, FcntlFails, Accept
<1>3. CASE ReturnClient
  BY <1>3 DEF ReturnClient, GoesOn
<1>4. CASE StopListening \/ \E succeeds \in BOOLEAN : Listen(succeeds)
  BY <1>4 DEF StopListening, Listen
<1>5. CASE \E r \in RWSockets : Take(r) \/ Drop(r)
  BY <1>5 DEF Take, Drop
<1> QED
  BY <1>1, <1>2, <1>3, <1>4, <1>5 DEF SocketSteps, AcceptLoop

LEMMA SocketsStep == SocketsInv /\ [Next]_vars => SocketsInv'
<1> SUFFICES ASSUME SocketsInv, [Next]_vars PROVE SocketsInv'
  OBVIOUS
<1>1. CASE SocketSteps
  BY <1>1, ReasonsStep, OwnersStep, WaitsStep DEF SocketsInv
<1>2. CASE UNCHANGED listenerVars
  BY <1>2 DEF SocketsInv, SocketTypes, Reasons, OneOwner, NobodyWaits, Owners, listenerVars
<1> QED
  BY <1>1, <1>2 DEF Next, InterfaceSteps, vars

LEMMA SocketsInvariant == Spec => []SocketsInv
<1>1. Init => SocketsInv
  BY InitSockets DEF Init
<1> QED
  BY <1>1, SocketsStep, PTL DEF Spec

(* A descriptor is closed by the one Socket that owns it, however Sockets  *)
(* are passed from the accept loop to the program and destroyed: none is   *)
(* leaked, and none is closed that is another's by then.                   *)
THEOREM OneOwnerHolds == Spec => []OneOwner
<1>1. SocketsInv => OneOwner
  BY DEF SocketsInv
<1> QED
  BY <1>1, SocketsInvariant, PTL

(* The accept loop leaves no client behind whose event has gone, unless it *)
(* took an error for the end of the clients.                               *)
THEOREM NobodyWaitsHolds == Spec => []NobodyWaits
<1>1. SocketsInv => NobodyWaits
  BY DEF SocketsInv
<1> QED
  BY <1>1, SocketsInvariant, PTL

-----------------------------------------------------------------------------
(* The list is there from getifaddrs until the destructor has joined the   *)
(* thread, and a message that is gone has no destructor any more.          *)
ListInv ==
    /\ phase \in [Slots -> Phases]
    /\ wpc \in {"walk", "filling"} => addrs = "list"
    /\ wpc = "exited" /\ phase[msg] # "gone" /\ pc # "delete" => addrs = "list"
    /\ pc = "join" => phase[msg] # "gone"

LEMMA MsgIsSlot == msg \in Slots
BY MsgAssumption DEF msg

LEMMA InterfacesStep ==
    ASSUME ListInv, InterfaceSteps
    PROVE  ListInv'
<1> USE MsgIsSlot DEF ListInv, Phases, Move
<1>1. CASE GetInterfaces
  BY <1>1 DEF GetInterfaces, mailbox
<1>2. CASE FillInterface
  BY <1>2 DEF FillInterface, TakeSlot, Fill
<1>3. CASE Throw \/ EndOfList
  BY <1>3 DEF Throw, EndOfList, mailbox
<1>4. CASE PostInterface
  BY <1>4 DEF PostInterface, Post
<1>5. CASE OnCall
  BY <1>5 DEF OnCall, Handle, threadVars
<1>6. CASE ReturnCall
  BY <1>6 DEF ReturnCall, Done, threadVars
<1>7. CASE Join
  BY <1>7 DEF Join, ThreadEnded, Done, mailbox
<1>8. CASE Delete
  BY <1>8 DEF Delete, Close, threadVars
<1>9. CASE Detect
  BY <1>9 DEF Detect, Open
<1>10. CASE ProgramRuns /\ Terminate
  BY <1>10 DEF ProgramRuns, Terminate, mailbox, threadVars
<1> QED
  BY <1>1, <1>2, <1>3, <1>4, <1>5, <1>6, <1>7, <1>8, <1>9, <1>10
  DEF InterfaceSteps, NifThread, NifLoop

LEMMA ListInvariant == Spec => []ListInv
<1>1. Init => ListInv
  BY DEF Init, NifInit, MailboxInit, ListInv, Phases
<1>2. ListInv /\ [Next]_vars => ListInv'
  <2> SUFFICES ASSUME ListInv, [Next]_vars PROVE ListInv'
    OBVIOUS
  <2>1. CASE UNCHANGED nifVars
    BY <2>1 DEF ListInv, nifVars, mailbox, threadVars
  <2> QED
    BY <2>1, InterfacesStep DEF Next, SocketSteps, vars
<1> QED
  BY <1>1, <1>2, PTL DEF Spec

(* The thread never goes through a list that was freed, and the destructor *)
(* frees one that was set, from whatever callback the object is destroyed. *)
THEOREM ListIsThereHolds == Spec => []ListIsThere
<1>1. ListInv => ListIsThere
  BY DEF ListInv, ListIsThere
<1> QED
  BY <1>1, ListInvariant, PTL

-----------------------------------------------------------------------------
(* How far the thread is, and what it has put into the field: an interface *)
(* that is posted is the one before p, and everything before that was      *)
(* handled.                                                                *)
AnnounceInv ==
    /\ phase \in [Slots -> Phases]
    /\ p \in Nat \ {0} /\ p <= Len(List) + 1
    /\ phase[msg] = "filling" => wpc = "filling" /\ curInterface = p /\ p <= Len(List)
    /\ wpc = "filling" => phase[msg] = "filling"
    /\ phase[msg] = "posted" => curInterface = p - 1 /\ p > 1
    /\ pc \in {"join", "delete"} => destroyed
    /\ AnnouncedInOrder

LEMMA ListLength == Len(List) \in Nat /\ DOMAIN List = 1 .. Len(List)
BY ListAssumption, LenProperties

(* One interface more is announced, or is not, at the end.                 *)
LEMMA WantedNext ==
    ASSUME NEW n \in Nat, n + 1 <= Len(List)
    PROVE  WantedUpTo(n + 1) =
               IF Wanted(List[n + 1]) THEN Append(WantedUpTo(n), n + 1) ELSE WantedUpTo(n)
<1> DEFINE s == [k \in 1 .. n |-> k]
           t == [k \in 1 .. n + 1 |-> k]
           W == {k \in DOMAIN List : Wanted(List[k])}
<1>1. s \in Seq(Nat) /\ t = Append(s, n + 1) /\ n + 1 \in Nat
  OBVIOUS
<1>2. n + 1 \in W <=> Wanted(List[n + 1])
  BY ListLength
<1>3. WantedUpTo(n) = Filter(s, W) /\ WantedUpTo(n + 1) = Filter(t, W)
  BY DEF WantedUpTo
<1>4. Filter(Append(s, n + 1), W)
          = IF n + 1 \in W THEN Append(Filter(s, W), n + 1) ELSE Filter(s, W)
  <2> HIDE DEF s, t, W
  <2> DEFINE m == n + 1
  <2>1. m \in Nat /\ s \in Seq(Nat)
    BY <1>1
  <2> HIDE DEF m
  <2>2. Filter(Append(s, m), W) = IF m \in W THEN Append(Filter(s, W), m) ELSE Filter(s, W)
    BY <2>1, FilterAppend
  <2> QED
    BY <2>2 DEF m
<1> HIDE DEF s, t, W
<1> QED
  BY <1>1, <1>2, <1>3, <1>4

LEMMA WantedNone == WantedUpTo(0) = <<>>
<1>1. [k \in 1 .. 0 |-> k] = <<>>
  OBVIOUS
<1> QED
  BY <1>1, FilterEmpty DEF WantedUpTo

(* What WantedUpTo depends on does not change.                             *)
LEMMA WantedSame ==
    ASSUME UNCHANGED filter, NEW n
    PROVE  WantedUpTo(n)' = WantedUpTo(n)
BY DEF WantedUpTo, Wanted

(* The steps of the thread and of the loop, and of the program.            *)
LEMMA AnnounceStep ==
    ASSUME AnnounceInv, InterfaceSteps
    PROVE  AnnounceInv'
<1> USE MsgIsSlot, ListLength, WantedSame DEF AnnounceInv, AnnouncedInOrder, Handled, Phases, Move
<1>1. CASE GetInterfaces
  BY <1>1 DEF GetInterfaces, mailbox
<1>2. CASE FillInterface
  BY <1>2 DEF FillInterface, TakeSlot, Fill, AtTheEnd
<1>3. CASE Throw \/ EndOfList
  BY <1>3 DEF Throw, EndOfList, mailbox
<1>4. CASE PostInterface
  BY <1>4 DEF PostInterface, Post
<1>5. CASE OnCall
  <2>1. UNCHANGED <<filter, p, curInterface, wpc, destroyed>> /\ phase[msg] = "posted"
        /\ phase' = [phase EXCEPT ![msg] = "handling"] /\ pc' \notin {"join", "delete"}
    BY <1>5 DEF OnCall, Handle, threadVars
  <2>2. curInterface = p - 1 /\ p - 2 \in Nat /\ (p - 2) + 1 = p - 1 /\ p - 1 <= Len(List)
    BY <2>1
  <2>3. WantedUpTo(p - 1) = IF Wanted(List[p - 1]) THEN Append(WantedUpTo(p - 2), p - 1)
                                                   ELSE WantedUpTo(p - 2)
    BY <2>2, WantedNext
  <2>4. ~destroyed => announced = WantedUpTo(p - 2) /\ announced' = WantedUpTo(p - 1)
    BY <1>5, <2>1, <2>2, <2>3 DEF OnCall
  <2>5. WantedUpTo(p - 1)' = WantedUpTo(p - 1)
    BY <2>1 DEF WantedUpTo, Wanted
  <2> QED
    BY <2>1, <2>4, <2>5
<1>6. CASE ReturnCall
  BY <1>6 DEF ReturnCall, Done, threadVars
<1>7. CASE Join
  BY <1>7 DEF Join, ThreadEnded, Done, mailbox
<1>8. CASE Delete
  BY <1>8 DEF Delete, Close, threadVars
<1>9. CASE Detect
  BY <1>9 DEF Detect, Open
<1>10. CASE ProgramRuns /\ Terminate
  BY <1>10 DEF ProgramRuns, Terminate, mailbox, threadVars
<1> QED
  BY <1>1, <1>2, <1>3, <1>4, <1>5, <1>6, <1>7, <1>8, <1>9, <1>10
  DEF InterfaceSteps, NifThread, NifLoop

LEMMA AnnounceInvariant == Spec => []AnnounceInv
<1>1. Init => AnnounceInv
  BY MsgIsSlot, ListLength, WantedNone
  DEF Init, NifInit, MailboxInit, AnnounceInv, AnnouncedInOrder, Handled, Phases
<1>2. AnnounceInv /\ [Next]_vars => AnnounceInv'
  <2> SUFFICES ASSUME AnnounceInv, [Next]_vars PROVE AnnounceInv'
    OBVIOUS
  <2>1. CASE UNCHANGED nifVars
    BY <2>1, WantedSame
    DEF AnnounceInv, AnnouncedInOrder, Handled, nifVars, mailbox, threadVars
  <2> QED
    BY <2>1, AnnounceStep DEF Next, SocketSteps, vars
<1> QED
  BY <1>1, <1>2, PTL DEF Spec

(* The delegate hears of every interface of the family it asked for, once  *)
(* and in the order of the list, although all of them pass through one     *)
(* field: for any list and any family.                                     *)
THEOREM AnnouncedInOrderHolds == Spec => []AnnouncedInOrder
<1>1. AnnounceInv => AnnouncedInOrder
  BY DEF AnnounceInv
<1> QED
  BY <1>1, AnnounceInvariant, PTL
=============================================================================
