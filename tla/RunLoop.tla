------------------------------- MODULE RunLoop -------------------------------
(***************************************************************************)
(* The run loop (RunLoop.cpp), the messages worker threads post to it      *)
(* (ActiveMsg.h) and the timers its callbacks set (Timer.cpp).             *)
(*                                                                         *)
(* One thread, the loop thread, owns a RunLoop.  It creates ActiveMsgs,    *)
(* each with one worker thread (ThreadWithMessage).  A worker takes the    *)
(* message with an ActiveCall, fills the fields it shares with the loop,   *)
(* and posts the message; the loop thread runs the message's callback and  *)
(* then frees it.  Callbacks create and destroy messages, set and cancel   *)
(* timers and stop the loop.                                               *)
(*                                                                         *)
(* The atomic steps are the critical sections of the two condition         *)
(* variables, rl.c and msg.c (a CondLock: module CondVar), except where    *)
(* code runs outside of them: RunLoop::dequeue changes the deque without   *)
(* the lock, so it has a beginning and an end, and so has the push_back in *)
(* RunLoop::enqueue that it can overlap.                                   *)
(***************************************************************************)
EXTENDS Deques

CONSTANTS Msgs,      \* the ActiveMsg objects, each created at most once
          NoMsg,     \* the null ActiveMsg pointer
          Timers,    \* the Timer objects
          Delays,    \* the arguments of Timer::set, in clock ticks
          Slack      \* the 0.001 s run() adds to a deadline, in clock ticks

ASSUME MsgsAssumption == NoMsg \notin Msgs
ASSUME TimeAssumption == Delays \subseteq Nat /\ Slack \in Nat \ {0}

VARIABLES
    running,       \* RunLoop::running
    queue,         \* RunLoop::queue
    processedMsg,  \* RunLoop::processedMsg
    cd,            \* RunLoop::c.d_
    msgCnt,        \* RunLoop::msgCnt
    timers,        \* RunLoop::timers
    rem,           \* rem[t]: t's fire time minus the clock, not below -Slack
    d,             \* d[m]: ActiveMsg::c.d_
    destroyed,     \* ActiveMsg::destroyed
    life,          \* "unborn", "live" or "dead": the ActiveMsg's lifetime
    wpc,           \* wpc[m]: where the worker thread of m is
    pushed,        \* pushed[m]: the deque as the push_back of m found it
    pc,            \* where the loop thread is
    back,          \* where the loop thread goes on after a destructor
    dying,         \* the ActiveMsg under destruction
    found,         \* the deque as the dequeue of dying found it
    raced          \* two threads have been inside the deque at once

loopVars  == <<running, processedMsg, cd, msgCnt>>
timerVars == <<timers, rem>>
msgVars   == <<d, destroyed, life>>
workVars  == <<wpc, pushed>>
pcVars    == <<pc, back>>
dtorVars  == <<dying, found>>
vars == <<loopVars, queue, timerVars, msgVars, workVars, pcVars, dtorVars, raced>>

-----------------------------------------------------------------------------
Callback == {"user", "oncall", "ontimer"}
LoopPCs  == Callback \cup {"wait", "clear", "timers", "join", "erase"}
WorkPCs  == {"none", "run", "enter", "inside", "calling", "pushing", "leaving",
             "exited"}

TypeOK ==
    /\ running \in BOOLEAN /\ cd \in BOOLEAN /\ raced \in BOOLEAN
    /\ queue \in Seq(Msgs) /\ found \in Seq(Msgs)
    /\ processedMsg \in Msgs \cup {NoMsg} /\ dying \in Msgs \cup {NoMsg}
    /\ msgCnt \in Nat
    /\ timers \in Seq(Timers) /\ rem \in [Timers -> Int]
    /\ d \in [Msgs -> BOOLEAN] /\ destroyed \in [Msgs -> BOOLEAN]
    /\ life \in [Msgs -> {"unborn", "live", "dead"}]
    /\ wpc \in [Msgs -> WorkPCs] /\ pushed \in [Msgs -> Seq(Msgs)]
    /\ pc \in LoopPCs /\ back \in Callback

(* The worker of m holds the mutex of m.c: its ActiveCall is constructed   *)
(* and not yet destroyed.                                                  *)
HoldsMsg(m) == wpc[m] \in {"inside", "calling", "pushing", "leaving"}

(* The worker of m is inside RunLoop::enqueue and holds the mutex of rl.c. *)
Pushing(m) == wpc[m] = "pushing"

(* What plausible mistakes would make of operators below.  Each one, put   *)
(* in the place of the operator it is a form of, breaks a property.        *)
RegisterNothing       == UNCHANGED msgCnt
IdleWithoutTimers     == timers = <<>>
FreeAlways(m)         == TRUE
NeverSignalled(q)     == FALSE
StaysTaken(m)         == UNCHANGED d
WokenByTimersOnly     == timers # <<>> /\ rem[Head(timers)] <= -Slack
WokenByMessagesOnly   == cd
AfterCallUncleared    == "timers"
LeftInQueue           == queue
PushedInFront(m)      == <<m>> \o pushed[m]
ScheduledLast(ts, t, delay) == Append(Erase(ts, t), t)

-----------------------------------------------------------------------------
Init ==
    /\ running = FALSE /\ cd = FALSE /\ raced = FALSE
    /\ queue = <<>> /\ found = <<>>
    /\ processedMsg = NoMsg /\ dying = NoMsg
    /\ msgCnt = 0
    /\ timers = <<>> /\ rem = [t \in Timers |-> 0]
    /\ d = [m \in Msgs |-> FALSE] /\ destroyed = [m \in Msgs |-> FALSE]
    /\ life = [m \in Msgs |-> "unborn"]
    /\ wpc = [m \in Msgs |-> "none"] /\ pushed = [m \in Msgs |-> <<>>]
    /\ pc = "user" /\ back = "user"

-----------------------------------------------------------------------------
(* The loop thread: RunLoop::run.                                          *)

Run ==
    /\ pc = "user"
    /\ pc' = "wait" /\ running' = TRUE /\ processedMsg' = NoMsg
    /\ UNCHANGED <<cd, msgCnt, queue, timerVars, msgVars, workVars, back,
                   dtorVars, raced>>

(* The value a CondLock of rl.c leaves behind (lines 27, 36 and 69).       *)
NonEmpty(q) == q # <<>>

(* The constructor of the CondLock returns on the condition, or at the     *)
(* deadline when a timer is set.                                           *)
Woken == cd \/ (timers # <<>> /\ rem[Head(timers)] <= -Slack)

Pop ==
    /\ pc = "wait" /\ Woken /\ \A m \in Msgs : ~Pushing(m)
    /\ IF queue = <<>>
       THEN /\ pc' = "timers" /\ cd' = FALSE
            /\ UNCHANGED <<queue, processedMsg>>
       ELSE /\ pc' = "oncall" /\ processedMsg' = Head(queue)
            /\ queue' = Tail(queue) /\ cd' = NonEmpty(queue')
    /\ UNCHANGED <<running, msgCnt, timerVars, msgVars, workVars, back,
                   dtorVars, raced>>

(* ActiveMsg::onCall returns; the callback may have destroyed its message. *)
AfterCall == IF processedMsg = NoMsg THEN "timers" ELSE "clear"

ReturnCall ==
    /\ pc = "oncall" /\ pc' = AfterCall
    /\ UNCHANGED <<loopVars, queue, timerVars, msgVars, workVars, back,
                   dtorVars, raced>>

(* CondLock::set(false) of a message wakes its worker.                     *)
Release(m) == d' = [d EXCEPT ![m] = FALSE]

(* Line 42 locks the message's own mutex: its worker may still be inside   *)
(* the ActiveCall that posted it.                                          *)
Clear ==
    /\ pc = "clear" /\ ~HoldsMsg(processedMsg)
    /\ Release(processedMsg)
    /\ pc' = "timers"
    /\ UNCHANGED <<loopVars, queue, timerVars, destroyed, life, workVars, back,
                   dtorVars, raced>>

TimerDue == timers # <<>> /\ rem[Head(timers)] <= 0

FireTimer ==
    /\ pc = "timers" /\ TimerDue
    /\ timers' = Tail(timers) /\ rem' = [rem EXCEPT ![Head(timers)] = 0]
    /\ pc' = "ontimer"
    /\ UNCHANGED <<loopVars, queue, msgVars, workVars, back, dtorVars, raced>>

ReturnTimer ==
    /\ pc = "ontimer" /\ pc' = "timers"
    /\ UNCHANGED <<loopVars, queue, timerVars, msgVars, workVars, back,
                   dtorVars, raced>>

Idle == timers = <<>> /\ msgCnt = 0

StaysRunning == running /\ ~Idle

(* The end of an iteration, and the beginning of the next one.             *)
CheckDone ==
    /\ pc = "timers" /\ ~TimerDue
    /\ running' = StaysRunning
    /\ IF running' THEN pc' = "wait" /\ processedMsg' = NoMsg
                   ELSE pc' = "user" /\ UNCHANGED processedMsg
    /\ UNCHANGED <<cd, msgCnt, queue, timerVars, msgVars, workVars, back,
                   dtorVars, raced>>

LoopStep == Pop \/ ReturnCall \/ Clear \/ FireTimer \/ ReturnTimer \/ CheckDone

-----------------------------------------------------------------------------
(* What the loop thread's callbacks, and the code around run(), may call.  *)

RegisterMsg   == msgCnt' = msgCnt + 1
DeregisterMsg == msgCnt' = msgCnt - 1

(* A ThreadWithMessage is constructed and started.                         *)
Create(m) ==
    /\ pc \in Callback /\ life[m] = "unborn"
    /\ life' = [life EXCEPT ![m] = "live"]
    /\ RegisterMsg
    /\ wpc' = [wpc EXCEPT ![m] = "run"]
    /\ UNCHANGED <<running, processedMsg, cd, queue, timerVars, d, destroyed,
                   pushed, pcVars, dtorVars, raced>>

(* The destructor of a user of ThreadWithMessage: requestTermination,      *)
RequestTermination(m) ==
    /\ pc \in Callback /\ life[m] = "live" /\ ~HoldsMsg(m)
    /\ destroyed' = [destroyed EXCEPT ![m] = TRUE]
    /\ Release(m)
    /\ dying' = m /\ back' = pc /\ pc' = "join"
    /\ UNCHANGED <<loopVars, queue, timerVars, life, workVars, found, raced>>

Joined == wpc[dying] = "exited"

(* waitTermination, and the beginning of ~ActiveMsg: RunLoop::dequeue      *)
(* clears processedMsg and looks for the message in the deque,             *)
Join ==
    /\ pc = "join" /\ Joined
    /\ processedMsg' = IF processedMsg = dying THEN NoMsg ELSE processedMsg
    /\ found' = queue
    /\ raced' = (raced \/ \E m \in Msgs : Pushing(m))
    /\ pc' = "erase"
    /\ UNCHANGED <<running, cd, msgCnt, queue, timerVars, msgVars, workVars,
                   back, dying>>

(* erases it there, and the message is deregistered.  std::deque::erase of *)
(* an empty range writes nothing; any other sets the deque's end from the  *)
(* iterators dequeue took, whatever was pushed since.                      *)
Dequeued == IF dying \in Range(found) THEN Erase(found, dying) ELSE queue

EndDestroy ==
    /\ pc = "erase" /\ queue' = Dequeued
    /\ DeregisterMsg
    /\ life' = [life EXCEPT ![dying] = "dead"]
    /\ dying' = NoMsg /\ found' = <<>>
    /\ pc' = back /\ back' = "user"
    /\ UNCHANGED <<running, processedMsg, cd, timerVars, d, destroyed, workVars,
                   raced>>

(* RunLoop::dequeue and RunLoop::enqueue of a timer: at most one entry per *)
(* timer, in the order of the fire times, before the equal ones.           *)
Schedule(ts, t, delay) ==
    LET others == Erase(ts, t)
    IN  InsertBefore(others, LowerBound(others, rem, delay), t)

SetTimer(t, delay) ==
    /\ pc \in Callback
    /\ timers' = Schedule(timers, t, delay)
    /\ rem' = [rem EXCEPT ![t] = delay]
    /\ UNCHANGED <<loopVars, queue, msgVars, workVars, pcVars, dtorVars, raced>>

CancelTimer(t) ==
    /\ pc \in Callback /\ t \in Range(timers)
    /\ timers' = Erase(timers, t) /\ rem' = [rem EXCEPT ![t] = 0]
    /\ UNCHANGED <<loopVars, queue, msgVars, workVars, pcVars, dtorVars, raced>>

Stop ==
    /\ pc \in Callback /\ running
    /\ running' = FALSE
    /\ UNCHANGED <<processedMsg, cd, msgCnt, queue, timerVars, msgVars, workVars,
                   pcVars, dtorVars, raced>>

Client ==
    \/ Stop
    \/ \E m \in Msgs : Create(m) \/ RequestTermination(m)
    \/ \E t \in Timers : CancelTimer(t) \/ \E delay \in Delays : SetTimer(t, delay)

-----------------------------------------------------------------------------
(* The worker threads.                                                     *)

Goto(m, from, to) == wpc[m] = from /\ wpc' = [wpc EXCEPT ![m] = to]

(* The worker has something to say and constructs an ActiveCall,           *)
Begin(m) ==
    /\ Goto(m, "run", "enter")
    /\ UNCHANGED <<loopVars, queue, timerVars, msgVars, pushed, pcVars, dtorVars,
                   raced>>

(* or its Runnable returns.                                                *)
Finish(m) ==
    /\ Goto(m, "run", "exited")
    /\ UNCHANGED <<loopVars, queue, timerVars, msgVars, pushed, pcVars, dtorVars,
                   raced>>

Free(m) == ~d[m]

(* The constructor of ActiveCall waits until the message is free, and      *)
(* throws when it is destroyed, which ends the thread.                     *)
Enter(m) ==
    /\ Free(m)
    /\ Goto(m, "enter", IF destroyed[m] THEN "exited" ELSE "inside")
    /\ UNCHANGED <<loopVars, queue, timerVars, msgVars, pushed, pcVars, dtorVars,
                   raced>>

(* ActiveCall::call,                                                       *)
Call(m) ==
    /\ Goto(m, "inside", "calling")
    /\ d' = [d EXCEPT ![m] = TRUE]
    /\ UNCHANGED <<loopVars, queue, timerVars, destroyed, life, pushed, pcVars,
                   dtorVars, raced>>

(* RunLoop::enqueue takes the mutex of rl.c and enters push_back,          *)
BeginPush(m) ==
    /\ Goto(m, "calling", "pushing")
    /\ \A n \in Msgs : ~Pushing(n)
    /\ pushed' = [pushed EXCEPT ![m] = queue]
    /\ raced' = (raced \/ pc = "erase")
    /\ UNCHANGED <<loopVars, queue, timerVars, msgVars, pcVars, dtorVars>>

Pushed(m) == Append(pushed[m], m)

(* and leaves with the message stored and the loop signalled.              *)
EndPush(m) ==
    /\ Goto(m, "pushing", "leaving")
    /\ queue' = Pushed(m)
    /\ pushed' = [pushed EXCEPT ![m] = <<>>]
    /\ cd' = NonEmpty(queue')
    /\ UNCHANGED <<running, processedMsg, msgCnt, timerVars, msgVars, pcVars,
                   dtorVars, raced>>

(* The ActiveCall is destroyed.                                            *)
Leave(m) ==
    /\ Goto(m, "leaving", "run")
    /\ UNCHANGED <<loopVars, queue, timerVars, msgVars, pushed, pcVars, dtorVars,
                   raced>>

Worker(m) ==
    Begin(m) \/ Finish(m) \/ Enter(m) \/ Call(m) \/ BeginPush(m) \/ EndPush(m)
    \/ Leave(m)

-----------------------------------------------------------------------------
(* The clock.  A deadline that is Slack in the past stays there: nothing   *)
(* in the code tells it from an older one.                                 *)
Tick ==
    /\ \E t \in Range(timers) : rem[t] > -Slack
    /\ rem' = [t \in Timers |-> IF t \in Range(timers) /\ rem[t] > -Slack
                                THEN rem[t] - 1 ELSE rem[t]]
    /\ UNCHANGED <<loopVars, queue, timers, msgVars, workVars, pcVars, dtorVars,
                   raced>>

Next ==
    \/ Run \/ LoopStep \/ Client \/ Join \/ EndDestroy
    \/ \E m \in Msgs : Worker(m)
    \/ Tick

Spec == Init /\ [][Next]_vars

(* The operating system runs every thread that can run, callbacks return,  *)
(* a worker's own work ends, and time passes.  Nothing is assumed of what  *)
(* the callbacks choose to call, nor that run() is called at all.          *)
Fairness ==
    /\ WF_vars(LoopStep) /\ WF_vars(Join \/ EndDestroy) /\ WF_vars(Tick)
    /\ \A m \in Msgs : WF_vars(Worker(m))

FairSpec == Spec /\ Fairness

-----------------------------------------------------------------------------
(* Properties.  Those about messages hold until two threads have been in   *)
(* the deque at once: RunLoop::dequeue (RunLoop.cpp:72) takes no lock, and *)
(* what it does then is undefined.                                         *)

Live(m) == life[m] = "live" /\ ~destroyed[m]

Queued(m) == m \in Range(queue)

(* The loop thread is between the pop of processedMsg and line 43, which   *)
(* frees it: in its callback, in a destructor the callback runs, or after. *)
InService(m) ==
    /\ processedMsg = m /\ m # NoMsg
    /\ pc \in {"oncall", "clear"} \/ (pc \in {"join", "erase"} /\ back = "oncall")

(* The fields a worker shares with its delegate are never used by both:    *)
(* while the loop handles a message, its worker is not inside the          *)
(* ActiveCall before the post (ActiveMsg.h:65-84, RunLoop.cpp:38-44).      *)
Exclusion ==
    \A m \in Msgs :
        ~raced /\ InService(m) => wpc[m] \notin {"inside", "calling", "pushing"}

(* The condition of a message is what the comment on ActiveMsg.h:74 says   *)
(* it is: true from the call until the end of onCall, false while the      *)
(* message is free; so no post is lost and none is delivered twice.        *)
CalledMeansPending ==
    \A m \in Msgs :
        Live(m) => ( d[m] <=> \/ wpc[m] \in {"calling", "pushing"}
                             \/ Queued(m) \/ InService(m) )

PostsAreKept == ~raced => CalledMeansPending

(* A destroyed message is nowhere the loop could find it, and its worker   *)
(* has ended (ActiveMsg.h:39-42, 104-114).                                 *)
NoUseAfterDestroy ==
    \A m \in Msgs :
        ~raced /\ life[m] = "dead" =>
            ~Queued(m) /\ processedMsg # m /\ wpc[m] = "exited"

(* The loop is never left waiting on a condition that is false while a     *)
(* message is in its queue (the signalled flag of RunLoop.cpp:27, 36, 69). *)
NoLostWakeup == queue # <<>> => cd

(* Two threads meet inside the deque only when a message is destroyed      *)
(* while another one is alive: the loop is safe with one message.          *)
RacesNeedTwo ==
    raced => \E m, n \in Msgs : m # n /\ life[m] # "unborn" /\ life[n] # "unborn"

(* run() ends by itself only when no timer is set and no message exists    *)
(* (RunLoop.cpp:56-59).                                                    *)
EndsOnlyWhenIdle ==
    [][pc = "timers" /\ pc' = "user" /\ running =>
         timers = <<>> /\ \A m \in Msgs : life[m] # "live"]_vars

(* A timer that fires was due, no armed timer was due before it, and it is *)
(* no longer armed while its callback runs (RunLoop.cpp:45-54).            *)
FiresInOrder ==
    [][pc = "timers" /\ pc' = "ontimer" =>
         \E t \in Range(timers) :
             /\ rem[t] <= 0 /\ t \notin Range(timers')
             /\ \A u \in Range(timers) : rem[t] <= rem[u]]_vars

(* The timers that are due run out now and then, so that run() leaves its  *)
(* lines 45-54: a callback that sets its timer with no delay prevents it.  *)
TimersRunOut == []<>(pc # "timers" /\ pc # "ontimer")

(* A posted message is taken from the queue, unless the loop is stopped or *)
(* the deque was broken.                                                   *)
Delivery ==
    TimersRunOut =>
        \A m \in Msgs :
            (Queued(m) /\ running) ~> (~Queued(m) \/ ~running \/ raced)

(* A destructor that waits for the worker comes to its end, whatever the   *)
(* worker was doing (ActiveMsg.h:104-114).                                 *)
DestructionEnds == (pc = "join") ~> (pc \in Callback)

(* An iteration that leaves nothing registered ends run().                 *)
ReturnsWhenIdle == (pc \notin {"user", "wait"} /\ Idle) ~> (pc = "user" \/ ~Idle)

(* So does a call of stop() in a callback (RunLoop.h:79).                  *)
StopEnds ==
    TimersRunOut => ((pc \notin {"user", "wait"} /\ ~running) ~> (pc = "user"))

(* What has to end ends: destructors, idle loops, and stopped ones.        *)
Terminates == DestructionEnds /\ ReturnsWhenIdle /\ StopEnds

(* A timer that is due does not stay so while the loop runs: it fires, or  *)
(* it is cancelled or set again, however often the callbacks set others    *)
(* with no delay (Timer.cpp:19-29, RunLoop.cpp:82-87).                     *)
DueFires ==
    \A t \in Timers :
        \/ []<>(t \notin Range(timers) \/ rem[t] > 0 \/ ~running)
        \/ []<><<rem'[t] > rem[t]>>_vars

(* The loop and its workers implement the mailbox.  A message is posted    *)
(* when it is in the deque, and handled until line 43 or until its own     *)
(* destruction takes it out of processedMsg.                               *)
phaseBar ==
    [m \in Msgs |->
        IF life[m] = "unborn" THEN "none"
        ELSE IF life[m] = "dead" THEN "gone"
        ELSE IF wpc[m] \in {"inside", "calling", "pushing"} THEN "filling"
        ELSE IF InService(m) THEN "handling"
        ELSE IF Queued(m) THEN "posted"
        ELSE "free"]

Abstract == INSTANCE Mailbox WITH Slots <- Msgs, phase <- phaseBar, fifo <- queue

(* Every step is a step of the mailbox, until the deque is broken.         *)
ImplementsMailbox ==
    Abstract!MailboxInit /\ [][raced' \/ Abstract!MailboxNext]_(Abstract!mailbox)
=============================================================================
