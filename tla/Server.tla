------------------------------- MODULE Server -------------------------------
(***************************************************************************)
(* A server as in Tests/SocketTests.h: it looks for the interfaces of the  *)
(* machine, listens, and takes clients, all on one loop thread, on which   *)
(* the callbacks of both take turns.  From any of them it may destroy any  *)
(* of its objects.                                                         *)
(***************************************************************************)
EXTENDS NetInterfaces, Listener

vars == <<nifVars, listenerVars>>

Init == NifInit /\ ListenerInit

(* The program's own code runs: between callbacks, or in one.              *)
ProgramRuns == pc \in {"user", "detected"} /\ turn \in {"idle", "client"}

(* A client's callback may destroy the NetworkInterfaces and waits for it. *)
InDestructor == pc \in {"join", "delete"}

InterfaceSteps ==
    /\ \/ NifThread
       \/ turn = "idle" /\ NifLoop
       \/ InDestructor /\ NifLoop
       \/ ProgramRuns /\ (Detect \/ Terminate)
    /\ UNCHANGED listenerVars

SocketSteps ==
    /\ \/ Connect
       \/ pc = "user" /\ AcceptLoop
       \/ /\ ProgramRuns
          /\ \/ \E succeeds \in BOOLEAN : Listen(succeeds)
             \/ StopListening
             \/ \E r \in RWSockets : Take(r) \/ Drop(r)
    /\ UNCHANGED nifVars

Next == InterfaceSteps \/ SocketSteps

Spec == Init /\ [][Next]_vars

(* Threads run, and callbacks return.  Nothing is assumed of the clients.  *)
FairSpec ==
    /\ Spec
    /\ WF_vars(NifThread /\ UNCHANGED listenerVars)
    /\ WF_vars((turn = "idle" \/ InDestructor) /\ NifLoop /\ UNCHANGED listenerVars)
    /\ WF_vars(pc = "user" /\ AcceptLoop /\ UNCHANGED nifVars)
=============================================================================
