---------------------------- MODULE NetInterfaces ----------------------------
(***************************************************************************)
(* NetworkInterfaces (AsyncNetInterface.h, .cpp): a thread goes through    *)
(* the list getifaddrs gives, and hands one interface after the other to   *)
(* the loop thread in one field, curInterface, under its ActiveMsg, which  *)
(* is a slot of the Mailbox.  The delegate may destroy the object from any *)
(* callback; its destructor frees the list.                                *)
(***************************************************************************)
EXTENDS Mailbox, SequencesExt

CONSTANT List     \* the families of the interfaces getifaddrs finds

Families == {"UNKNOWN", "ANY", "IP", "IPv4", "IPv6"}

ASSUME ListAssumption == List \in Seq({"UNKNOWN", "IPv4", "IPv6"})

ASSUME MsgAssumption == Slots # {}

(* One object; its message is the only slot.                               *)
msg == CHOOSE m \in Slots : TRUE

VARIABLES
    filter,        \* NetworkInterfaces::filter
    addrs,         \* "unset", "list" or "freed"
    p,             \* where run is in the list
    curInterface,  \* the place in the list of NetworkInterfaces::curInterface
    destroyed,     \* ActiveMsg::destroyed
    wpc,           \* where the thread is
    pc,            \* where the loop thread is
    announced      \* history: what onInterfaceDetected was called with

threadVars == <<addrs, p, curInterface, wpc>>
nifVars == <<mailbox, filter, threadVars, destroyed, pc, announced>>

-----------------------------------------------------------------------------
(* What plausible mistakes would make of operators below.                  *)
FillAnyTime     == phase' = [phase EXCEPT ![msg] = "filling"] /\ UNCHANGED fifo
LastForgotten   == p >= Len(List)
ThreadForgotten == TRUE

-----------------------------------------------------------------------------
NifInit ==
    /\ MailboxInit
    /\ filter \in Families /\ addrs = "unset" /\ p = 1 /\ curInterface = 0
    /\ destroyed = FALSE /\ wpc = "none" /\ pc = "user" /\ announced = <<>>

(* The constructor.                                                        *)
Detect ==
    /\ Open(msg)
    /\ wpc' = "start"
    /\ UNCHANGED <<filter, addrs, p, curInterface, destroyed, pc, announced>>

-----------------------------------------------------------------------------
(* The thread: run.                                                        *)

GetInterfaces ==
    /\ wpc = "start" /\ wpc' = "walk" /\ addrs' = "list"
    /\ UNCHANGED <<mailbox, filter, p, curInterface, destroyed, pc, announced>>

AtTheEnd == p > Len(List)

(* The ActiveCall waits until the loop is done with the last interface,    *)
TakeSlot == Fill(msg)

FillInterface ==
    /\ wpc = "walk" /\ ~AtTheEnd /\ ~destroyed
    /\ TakeSlot
    /\ curInterface' = p /\ wpc' = "filling"
    /\ UNCHANGED <<filter, addrs, p, destroyed, pc, announced>>

(* or throws.                                                              *)
Throw ==
    /\ wpc = "walk" /\ ~AtTheEnd /\ destroyed
    /\ wpc' = "exited"
    /\ UNCHANGED <<mailbox, filter, addrs, p, curInterface, destroyed, pc, announced>>

PostInterface ==
    /\ wpc = "filling" /\ Post(msg)
    /\ p' = p + 1 /\ wpc' = "walk"
    /\ UNCHANGED <<filter, addrs, curInterface, destroyed, pc, announced>>

EndOfList ==
    /\ wpc = "walk" /\ AtTheEnd
    /\ wpc' = "exited"
    /\ UNCHANGED <<mailbox, filter, addrs, p, curInterface, destroyed, pc, announced>>

NifThread == GetInterfaces \/ FillInterface \/ Throw \/ PostInterface \/ EndOfList

-----------------------------------------------------------------------------
(* The loop thread.                                                        *)

Wanted(f) == filter = "ANY" \/ f = filter \/ (filter = "IP" /\ f \in {"IPv4", "IPv6"})

OnCall ==
    /\ pc = "user" /\ Handle(msg)
    /\ IF Wanted(List[curInterface])
       THEN pc' = "detected" /\ announced' = Append(announced, curInterface)
       ELSE pc' = "after" /\ UNCHANGED announced
    /\ UNCHANGED <<filter, threadVars, destroyed>>

(* The delegate returns, when it has not destroyed the object, and onCall. *)
ReturnCall ==
    /\ pc \in {"detected", "after"} /\ Done(msg)
    /\ pc' = "user"
    /\ UNCHANGED <<filter, threadVars, destroyed, announced>>

(* The destructor: requestTermination locks the message's mutex,           *)
Terminate ==
    /\ phase[msg] \notin {"none", "filling", "gone"}
    /\ destroyed' = TRUE /\ pc' = "join"
    /\ UNCHANGED <<mailbox, filter, threadVars, announced>>

(* waitTermination waits for the thread, the list is freed,                *)
ThreadEnded == wpc = "exited"

Join ==
    /\ pc = "join" /\ ThreadEnded
    /\ addrs' = "freed"
    /\ IF phase[msg] = "handling" THEN Done(msg) ELSE UNCHANGED mailbox
    /\ pc' = "delete"
    /\ UNCHANGED <<filter, p, curInterface, wpc, destroyed, announced>>

(* and the message leaves the loop, its queue, and its onCall.             *)
Delete ==
    /\ pc = "delete" /\ Close(msg) /\ pc' = "user"
    /\ UNCHANGED <<filter, threadVars, destroyed, announced>>

NifLoop == OnCall \/ ReturnCall \/ Join \/ Delete

-----------------------------------------------------------------------------
(* What the loop is done with: all the thread has posted but the last,     *)
(* when that is in the mailbox.                                            *)
Handled == IF phase[msg] = "posted" THEN p - 2 ELSE p - 1

(* The places of the interfaces of the wanted family, among the first n.   *)
WantedUpTo(n) ==
    Filter([k \in 1 .. n |-> k], {k \in DOMAIN List : Wanted(List[k])})

(* The delegate hears of each interface of the family it wants, in the     *)
(* order of the list, once, although all of them pass through one field    *)
(* that two threads use (AsyncNetInterface.cpp:12-14,22-28).             *)
AnnouncedInOrder ==
    ~destroyed => announced = WantedUpTo(Handled)

(* The list is there while the thread goes through it: the destructor      *)
(* frees what getifaddrs has set, once, and after the thread's last look   *)
(* (AsyncNetInterface.h:116-122).                                          *)
ListIsThere ==
    /\ wpc \in {"walk", "filling"} => addrs = "list"
    /\ pc = "join" /\ wpc = "exited" => addrs = "list"

(* All are announced, unless the object is destroyed before.               *)
AllAnnounced ==
    (wpc = "start") ~> \/ destroyed
                       \/ announced = WantedUpTo(Len(List))

(* The destructor ends, whatever its thread is doing or waiting for.       *)
NifDestructorEnds == (pc = "join") ~> (pc = "user")

(* The two waits of the class end: each for the other thread, and neither  *)
(* forever (AsyncNetInterface.cpp:12, AsyncNetInterface.h:118-119).       *)
NifProgress == AllAnnounced /\ NifDestructorEnds
=============================================================================
