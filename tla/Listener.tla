------------------------------ MODULE Listener ------------------------------
(***************************************************************************)
(* LASocket and Socket (AsyncSocket.cpp): a listening socket accepts all   *)
(* the clients there are when its worker reports an event (Sockets shows   *)
(* that it does), and each of them is a Socket that the delegate may make  *)
(* an RWSocket of.  A Socket owns a descriptor, and none when that is 0.   *)
(***************************************************************************)
EXTENDS Integers, FiniteSets, FiniteSetsExt

CONSTANTS Descriptors,   \* bound: the descriptors a process can have open
          RWSockets,     \* bound: the RWSockets a program has at a time
          MaxClients     \* bound: the clients that connect

ASSUME ListenerAssumption ==
    /\ Descriptors \subseteq Nat /\ 0 \in Descriptors /\ IsFiniteSet(Descriptors)
    /\ MaxClients \in Nat

VARIABLES
    opened,      \* the open descriptors
    la,          \* the LASocket: "none", "deaf" when its constructor gave up,
                 \* or "listens": it is bound, listening and registered
    listener,    \* the descriptor of the LASocket, or 0
    sock,        \* the local variable sock of onCanRead
    conn,        \* conn[r]: the descriptor of the RWSocket r, or 0
    backlog,     \* the clients the kernel has for the listening socket
    edge,        \* an event of the listening socket is on its way
    connected,   \* how many clients have connected
    turn,        \* where the loop thread is in onCanRead
    gaveUp       \* the last onCanRead took an error for the end

listenerVars == <<opened, la, listener, sock, conn, backlog, edge, connected, turn,
                  gaveUp>>

Owners == {listener, sock} \cup {conn[r] : r \in RWSockets}

-----------------------------------------------------------------------------
(* What plausible mistakes would make of operators below.                  *)
NotSwapped == sock
JustOne    == "idle"

-----------------------------------------------------------------------------
(* The program may have closed its standard input.                         *)
ListenerInit ==
    /\ opened \in {{}, {0}}
    /\ la = "none" /\ listener = 0 /\ sock = 0
    /\ conn = [r \in RWSockets |-> 0]
    /\ backlog = 0 /\ edge = FALSE /\ connected = 0
    /\ turn = "idle" /\ gaveUp = FALSE

(* A new descriptor is the lowest that is not open.                        *)
Unopened == Descriptors \ opened
Fresh    == Min(Unopened)

Closed(fd) == IF fd = 0 THEN opened ELSE opened \ {fd}

(* The constructors of LASocket; bind, fcntl or listen may fail, and then  *)
(* the socket stays open and hears of nothing.                             *)
Listen(succeeds) ==
    /\ la = "none" /\ turn = "idle" /\ Unopened # {}
    /\ listener' = Fresh /\ opened' = opened \cup {Fresh}
    /\ la' = IF succeeds THEN "listens" ELSE "deaf"
    /\ UNCHANGED <<sock, conn, backlog, edge, connected, turn, gaveUp>>

Connect ==
    /\ la = "listens" /\ connected < MaxClients
    /\ connected' = connected + 1 /\ backlog' = backlog + 1 /\ edge' = TRUE
    /\ UNCHANGED <<opened, la, listener, sock, conn, turn, gaveUp>>

(* The worker calls onCanRead.                                             *)
OnCanRead ==
    /\ turn = "idle" /\ la = "listens" /\ edge
    /\ turn' = "accept" /\ edge' = FALSE /\ gaveUp' = FALSE
    /\ UNCHANGED <<opened, la, listener, sock, conn, backlog, connected>>

AcceptNone ==
    /\ turn = "accept" /\ backlog = 0
    /\ turn' = "idle"
    /\ UNCHANGED <<opened, la, listener, sock, conn, backlog, edge, connected,
                   gaveUp>>

(* accept fails, with no descriptor left or for another reason; the code   *)
(* does not look which.                                                    *)
AcceptFails ==
    /\ turn = "accept" /\ backlog > 0
    /\ turn' = "idle" /\ gaveUp' = TRUE
    /\ UNCHANGED <<opened, la, listener, sock, conn, backlog, edge, connected>>

(* fcntl fails: the client's descriptor is closed, and onCanRead returns.  *)
FcntlFails ==
    /\ turn = "accept" /\ backlog > 0 /\ Unopened # {}
    /\ backlog' = backlog - 1 /\ turn' = "idle" /\ gaveUp' = TRUE
    /\ opened' = IF Fresh = 0 THEN opened \cup {0} ELSE opened
    /\ UNCHANGED <<la, listener, sock, conn, edge, connected>>

Accept ==
    /\ turn = "accept" /\ backlog > 0 /\ Unopened # {}
    /\ backlog' = backlog - 1
    /\ sock' = Fresh /\ opened' = opened \cup {Fresh}
    /\ turn' = "client"
    /\ UNCHANGED <<la, listener, conn, edge, connected, gaveUp>>

-----------------------------------------------------------------------------
(* The delegate, in onNewClient and elsewhere.                             *)

(* What the swap of Socket(Socket & other) leaves in the other.            *)
Swapped == 0

Take(r) ==
    /\ turn = "client" /\ sock # 0 /\ conn[r] = 0
    /\ conn' = [conn EXCEPT ![r] = sock] /\ sock' = Swapped
    /\ UNCHANGED <<opened, la, listener, backlog, edge, connected, turn, gaveUp>>

Drop(r) ==
    /\ conn[r] # 0
    /\ conn' = [conn EXCEPT ![r] = 0] /\ opened' = Closed(conn[r])
    /\ UNCHANGED <<la, listener, sock, backlog, edge, connected, turn, gaveUp>>

(* ~LASocket; the kernel forgets the clients that wait.                    *)
StopListening ==
    /\ la # "none"
    /\ la' = "none" /\ listener' = 0 /\ opened' = Closed(listener)
    /\ backlog' = 0 /\ edge' = FALSE
    /\ UNCHANGED <<sock, conn, connected, turn, gaveUp>>

(* onNewClient returns, and ~Socket closes what nobody took.  The loop     *)
(* goes on; when the LASocket was destroyed, with freed memory, which is   *)
(* modelled as its end.                                                    *)
GoesOn == IF la = "listens" THEN "accept" ELSE "idle"

ReturnClient ==
    /\ turn = "client"
    /\ opened' = Closed(sock) /\ sock' = 0
    /\ turn' = GoesOn
    /\ UNCHANGED <<la, listener, conn, backlog, edge, connected, gaveUp>>

AcceptLoop == OnCanRead \/ AcceptNone \/ AcceptFails \/ FcntlFails \/ Accept \/ ReturnClient

-----------------------------------------------------------------------------
(* Every open descriptor but 0, which no Socket ever closes, has one       *)
(* owner, and what is owned is open, although Sockets are passed around by *)
(* swapping: nothing is leaked, and nothing is closed twice, when its      *)
(* number may be another socket's (AsyncSocket.h:29-33).                   *)
OneOwner ==
    /\ opened \ {0} = Owners \ {0}
    /\ \A r \in RWSockets :
           conn[r] # 0 => /\ conn[r] \notin {listener, sock}
                          /\ \A o \in RWSockets \ {r} : conn[o] # conn[r]
    /\ sock # 0 => sock # listener

(* No client waits for an event that will not come: those that are there   *)
(* are accepted in the events of others too, unless an error was taken for *)
(* the end of them (AsyncSocket.cpp:265,279,284).                          *)
NobodyWaits ==
    la = "listens" /\ backlog > 0 /\ turn = "idle" => edge \/ gaveUp
=============================================================================
