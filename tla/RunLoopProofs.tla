--------------------------- MODULE RunLoopProofs ---------------------------
(***************************************************************************)
(* Proofs about module RunLoop, for every set of messages, of timers and   *)
(* of delays.  Each part of the inductive invariant Inv is shown to be     *)
(* kept by every step in a lemma of its own, which may use all of Inv.     *)
(***************************************************************************)
EXTENDS RunLoop, DequeTheorems, FiniteSetTheorems

LiveMsgs == {m \in Msgs : life[m] = "live"}

(* msgCnt counts the messages that are alive.                              *)
CountInv == IsFiniteSet(LiveMsgs) /\ msgCnt = Cardinality(LiveMsgs)

(* Where the loop thread is, and what it holds there.                      *)
ControlInv ==
    /\ pc \in {"join", "erase"} =>
         dying \in Msgs /\ life[dying] = "live" /\ destroyed[dying]
    /\ pc = "erase" => wpc[dying] = "exited" /\ processedMsg # dying
    /\ pc = "clear" => processedMsg \in Msgs

(* The life of a message, and of its worker with it.                       *)
LifeInv ==
    \A m \in Msgs :
        /\ life[m] = "unborn" <=> wpc[m] = "none"
        /\ life[m] = "unborn" => ~d[m] /\ ~destroyed[m]
        /\ life[m] = "live" /\ destroyed[m] => pc \in {"join", "erase"} /\ dying = m
        /\ life[m] = "dead" => destroyed[m] /\ wpc[m] = "exited"
        /\ destroyed[m] => ~HoldsMsg(m)

(* The mutex of rl.c.                                                      *)
MutexInv == \A m, n \in Msgs : Pushing(m) /\ Pushing(n) => m = n

(* Until the deque is broken: a thread that changes it sees it unchanged   *)
(* since it began; a message is with its worker, in the queue, or in       *)
(* service, and in one of them only, when its condition says so.           *)
Filling(m) == wpc[m] \in {"inside", "calling", "pushing"}

DequeInv ==
    /\ pc = "erase" => found = queue /\ \A m \in Msgs : ~Pushing(m)
    /\ \A m \in Msgs : Pushing(m) => pushed[m] = queue
    /\ Distinct(queue)

PlaceInv ==
    \A m \in Msgs :
        /\ Queued(m) => life[m] = "live" /\ ~Filling(m) /\ ~InService(m)
        /\ InService(m) => ~Filling(m)
        /\ processedMsg = m => life[m] = "live"

WakeInv == NoLostWakeup /\ (pc = "erase" /\ found # <<>> => cd)

TimerInv == Distinct(timers) /\ Ordered(timers, rem)

Inv ==
    /\ TypeOK /\ CountInv /\ ControlInv /\ LifeInv /\ MutexInv /\ WakeInv
    /\ RacesNeedTwo /\ TimerInv
    /\ ~raced => DequeInv /\ PlaceInv /\ CalledMeansPending

-----------------------------------------------------------------------------
(* Before the first call the invariant holds: nothing is registered,       *)
(* queued or armed (RunLoop.h:30-37).                                      *)
LEMMA InitInv == Init => Inv
<1> SUFFICES ASSUME Init PROVE Inv
  OBVIOUS
<1> USE MsgsAssumption DEF Init
<1>1. TypeOK
  <2>1. <<>> \in Seq(Msgs) /\ <<>> \in Seq(Timers)
    OBVIOUS
  <2>2. /\ pc \in LoopPCs /\ back \in Callback
        /\ wpc \in [Msgs -> WorkPCs]
        /\ life \in [Msgs -> {"unborn", "live", "dead"}]
    BY DEF LoopPCs, Callback, WorkPCs
  <2>3. /\ running \in BOOLEAN /\ cd \in BOOLEAN /\ raced \in BOOLEAN
        /\ d \in [Msgs -> BOOLEAN] /\ destroyed \in [Msgs -> BOOLEAN]
    OBVIOUS
  <2>4. rem \in [Timers -> Int] /\ pushed \in [Msgs -> Seq(Msgs)]
    BY <2>1
  <2>5. QED
    BY <2>1, <2>2, <2>3, <2>4 DEF TypeOK
<1>2. CountInv
  <2>1. LiveMsgs = {}
    BY DEF LiveMsgs
  <2>2. QED
    BY <2>1, FS_EmptySet DEF CountInv
<1>3. ControlInv /\ LifeInv /\ MutexInv /\ RacesNeedTwo
  BY DEF ControlInv, LifeInv, MutexInv, RacesNeedTwo, HoldsMsg, Pushing
<1>4. WakeInv
  BY DEF WakeInv, NoLostWakeup
<1>5. Distinct(queue) /\ TimerInv
  BY DEF TimerInv, Distinct, Ordered
<1>6. \A m \in Msgs : ~Queued(m)
  BY DEF Queued, Range
<1>7. DequeInv /\ PlaceInv /\ CalledMeansPending
  BY <1>5, <1>6 DEF DequeInv, PlaceInv, CalledMeansPending, InService, Pushing,
                    Filling, Live
<1>8. QED
  BY <1>1, <1>2, <1>3, <1>4, <1>5, <1>7 DEF Inv

-----------------------------------------------------------------------------
(* msgCnt counts the messages from their constructor to the end of their   *)
(* destructor (ActiveMsg.h:35, 41; RunLoop.h:46-55).                       *)
LEMMA CountStep == Inv /\ [Next]_vars => CountInv'
<1> SUFFICES ASSUME Inv, [Next]_vars PROVE CountInv'
  OBVIOUS
<1>1. ASSUME NEW m \in Msgs, Create(m) PROVE CountInv'
  <2>1. m \notin LiveMsgs /\ LiveMsgs' = LiveMsgs \cup {m}
    BY <1>1 DEF Create, LiveMsgs, Inv, TypeOK
  <2>2. QED
    BY <1>1, <2>1, FS_AddElement DEF Create, RegisterMsg, Inv, CountInv
<1>2. CASE EndDestroy
  <2>1. dying \in LiveMsgs /\ LiveMsgs' = LiveMsgs \ {dying}
    BY <1>2 DEF EndDestroy, LiveMsgs, Inv, TypeOK, ControlInv
  <2>2. QED
    BY <1>2, <2>1, FS_RemoveElement DEF EndDestroy, DeregisterMsg, Inv, CountInv
<1>3. ASSUME UNCHANGED <<life, msgCnt>> PROVE CountInv'
  BY <1>3 DEF Inv, CountInv, LiveMsgs
<1>4. QED
  BY <1>1, <1>2, <1>3
     DEF Next, LoopStep, Client, Worker, vars, loopVars, msgVars, Run, Pop,
         ReturnCall, Clear, FireTimer, ReturnTimer, CheckDone, RequestTermination,
         Join, SetTimer, CancelTimer, Stop, Begin, Finish, Enter, Call, BeginPush,
         EndPush, Leave, Tick

-----------------------------------------------------------------------------
(* The deques stay deques of messages and of timers.                       *)
LEMMA QueueType == TypeOK /\ [Next]_vars => queue' \in Seq(Msgs)
<1> SUFFICES ASSUME TypeOK, [Next]_vars PROVE queue' \in Seq(Msgs)
  OBVIOUS
<1>1. CASE Pop
  <2>1. queue \in Seq(Msgs)
    BY DEF TypeOK
  <2>2. CASE queue = <<>>
    BY <1>1, <2>1, <2>2 DEF Pop
  <2>3. CASE queue # <<>>
    BY <1>1, <2>1, <2>3, PopFront DEF Pop
  <2>4. QED
    BY <2>2, <2>3
<1>2. CASE EndDestroy
  BY <1>2, EraseProperties DEF EndDestroy, Dequeued, TypeOK
<1>3. ASSUME NEW m \in Msgs, EndPush(m) PROVE queue' \in Seq(Msgs)
  <2>1. pushed[m] \in Seq(Msgs)
    BY DEF TypeOK
  <2>2. QED
    BY <1>3, <2>1, PushBack DEF EndPush, Pushed
<1>4. ASSUME UNCHANGED queue PROVE queue' \in Seq(Msgs)
  BY <1>4 DEF TypeOK
<1>5. QED
  BY <1>1, <1>2, <1>3, <1>4
     DEF Next, LoopStep, Client, Worker, vars, Run, ReturnCall, Clear, FireTimer,
         ReturnTimer, CheckDone, Create, RequestTermination, Join, SetTimer,
         CancelTimer, Stop, Begin, Finish, Enter, Call, BeginPush, Leave, Tick

(* Setting a timer keeps each timer in the list once, in firing order.     *)
LEMMA ScheduleProperties ==
    ASSUME TypeOK, NEW t \in Timers, NEW delay \in Delays
    PROVE  LET ts == Schedule(timers, t, delay)
               rs == [rem EXCEPT ![t] = delay]
           IN  /\ ts \in Seq(Timers) /\ rs \in [Timers -> Int]
               /\ TimerInv => Distinct(ts) /\ Ordered(ts, rs)
<1> DEFINE others == Erase(timers, t)
           rs == [rem EXCEPT ![t] = delay]
<1>1. delay \in Int /\ rs \in [Timers -> Int] /\ rem \in [Timers -> Int]
  BY TimeAssumption DEF TypeOK
<1>2. timers \in Seq(Timers)
  BY DEF TypeOK
<1>3. /\ others \in Seq(Timers)
      /\ Distinct(timers) => Distinct(others) /\ t \notin Range(others)
  BY <1>2, EraseProperties
<1>4. Ordered(timers, rem) => Ordered(others, rem)
  BY <1>1, <1>2, OrderedErase
<1>5. rs[t] = delay /\ \A u \in Timers : u # t => rs[u] = rem[u]
  BY <1>1
<1>6. InsertBefore(others, LowerBound(others, rem, delay), t) \in Seq(Timers)
  BY <1>1, <1>3, InsertType
<1>7. ASSUME TimerInv
      PROVE  /\ Distinct(Schedule(timers, t, delay))
             /\ Ordered(Schedule(timers, t, delay), rs)
  <2>1. Distinct(timers) /\ Ordered(timers, rem)
    BY <1>7 DEF TimerInv
  <2> HIDE DEF others, rs
  <2>2. LET r == InsertBefore(others, LowerBound(others, rem, rs[t]), t)
        IN  Distinct(r) /\ Ordered(r, rs)
    BY <1>1, <1>3, <1>4, <1>5, <2>1, InsertProperties
  <2>3. QED
    BY <1>5, <2>2 DEF Schedule, others
<1>8. QED
  BY <1>1, <1>6, <1>7 DEF Schedule

(* The timer list stays a list of timers with fire times, and each is in   *)
(* it at most once (RunLoop.cpp:82-94).                                    *)
LEMMA TimersType ==
    TypeOK /\ [Next]_vars => timers' \in Seq(Timers) /\ rem' \in [Timers -> Int]
<1> SUFFICES ASSUME TypeOK, [Next]_vars
             PROVE  timers' \in Seq(Timers) /\ rem' \in [Timers -> Int]
  OBVIOUS
<1>1. timers \in Seq(Timers) /\ rem \in [Timers -> Int]
  BY DEF TypeOK
<1>2. CASE FireTimer
  BY <1>1, <1>2, PopFront DEF FireTimer, TimerDue
<1>3. ASSUME NEW t \in Timers, NEW delay \in Delays, SetTimer(t, delay)
      PROVE  timers' \in Seq(Timers) /\ rem' \in [Timers -> Int]
  BY <1>3, ScheduleProperties DEF SetTimer
<1>4. ASSUME NEW t \in Timers, CancelTimer(t)
      PROVE  timers' \in Seq(Timers) /\ rem' \in [Timers -> Int]
  BY <1>1, <1>4, EraseProperties DEF CancelTimer
<1>5. CASE Tick
  BY <1>1, <1>5 DEF Tick
<1>6. ASSUME UNCHANGED timerVars
      PROVE  timers' \in Seq(Timers) /\ rem' \in [Timers -> Int]
  BY <1>1, <1>6 DEF timerVars
<1>7. QED
  BY <1>2, <1>3, <1>4, <1>5, <1>6
     DEF Next, LoopStep, Client, Worker, vars, Run, Pop, ReturnCall, Clear,
         ReturnTimer, CheckDone, Create, RequestTermination, Join, EndDestroy,
         Stop, Begin, Finish, Enter, Call, BeginPush, EndPush, Leave

(* Every step keeps the type of every variable; for msgCnt this needs      *)
(* CountInv, which keeps deregisterMsg above zero.                         *)
LEMMA TypeStep == Inv /\ [Next]_vars => TypeOK'
<1> SUFFICES ASSUME Inv, [Next]_vars PROVE TypeOK'
  OBVIOUS
<1> USE DEF Inv
<1>1. queue' \in Seq(Msgs) /\ timers' \in Seq(Timers) /\ rem' \in [Timers -> Int]
  BY QueueType, TimersType
<1>2. msgCnt' \in Nat
  BY CountStep, FS_CardinalityType DEF CountInv
<1>3. /\ running' \in BOOLEAN /\ cd' \in BOOLEAN /\ raced' \in BOOLEAN
  <2>1. running' \in BOOLEAN
    BY DEF TypeOK, Next, LoopStep, Client, Worker, vars, loopVars, Run, Pop, ReturnCall,
           Clear, FireTimer, ReturnTimer, CheckDone, StaysRunning, Create,
           RequestTermination, Join, EndDestroy, SetTimer, CancelTimer, Stop, Begin,
           Finish, Enter, Call, BeginPush, EndPush, Leave, Tick
  <2>2. cd' \in BOOLEAN
    BY DEF TypeOK, Next, LoopStep, Client, Worker, vars, loopVars, Run, Pop, ReturnCall,
           Clear, FireTimer, ReturnTimer, CheckDone, Create, RequestTermination, Join,
           EndDestroy, SetTimer, CancelTimer, Stop, Begin, Finish, Enter, Call,
           BeginPush, EndPush, Leave, Tick, NonEmpty
  <2>3. raced' \in BOOLEAN
    BY DEF TypeOK, Next, LoopStep, Client, Worker, vars, Run, Pop, ReturnCall, Clear,
           FireTimer, ReturnTimer, CheckDone, Create, RequestTermination, Join,
           EndDestroy, SetTimer, CancelTimer, Stop, Begin, Finish, Enter, Call,
           BeginPush, EndPush, Leave, Tick
  <2>4. QED
    BY <2>1, <2>2, <2>3
<1>3a. processedMsg' \in Msgs \cup {NoMsg} /\ dying' \in Msgs \cup {NoMsg}
  <2>1. queue # <<>> => Head(queue) \in Msgs
    BY PopFront DEF TypeOK
  <2>2. QED
    BY <2>1
       DEF TypeOK, Next, LoopStep, Client, Worker, vars, loopVars, dtorVars, Run, Pop,
           ReturnCall, Clear, FireTimer, ReturnTimer, CheckDone, Create,
           RequestTermination, Join, EndDestroy, SetTimer, CancelTimer, Stop, Begin,
           Finish, Enter, Call, BeginPush, EndPush, Leave, Tick
<1>4. /\ pc' \in LoopPCs /\ back' \in Callback
  BY DEF TypeOK, Next, LoopStep, Client, Worker, vars, pcVars, Run, Pop, ReturnCall,
         AfterCall, Clear, FireTimer, ReturnTimer, CheckDone, Create,
         RequestTermination, Join, EndDestroy, SetTimer, CancelTimer, Stop, Begin,
         Finish, Enter, Call, BeginPush, EndPush, Leave, Tick, LoopPCs, Callback
<1>5. /\ d' \in [Msgs -> BOOLEAN] /\ destroyed' \in [Msgs -> BOOLEAN]
      /\ life' \in [Msgs -> {"unborn", "live", "dead"}]
  BY DEF TypeOK, Next, LoopStep, Client, Worker, vars, msgVars, Run, Pop, ReturnCall,
         Clear, Release, FireTimer, ReturnTimer, CheckDone, Create,
         RequestTermination, Join, EndDestroy, SetTimer, CancelTimer, Stop, Begin,
         Finish, Enter, Call, BeginPush, EndPush, Leave, Tick
<1>6. wpc' \in [Msgs -> WorkPCs]
  BY DEF TypeOK, Next, LoopStep, Client, Worker, vars, workVars, Run, Pop, ReturnCall,
         Clear, FireTimer, ReturnTimer, CheckDone, Create, RequestTermination, Join,
         EndDestroy, SetTimer, CancelTimer, Stop, Goto, Begin, Finish, Enter, Call,
         BeginPush, EndPush, Leave, Tick, WorkPCs
<1>7. found' \in Seq(Msgs) /\ pushed' \in [Msgs -> Seq(Msgs)]
  <2>1. <<>> \in Seq(Msgs)
    OBVIOUS
  <2>2. QED
    BY <2>1
       DEF TypeOK, Next, LoopStep, Client, Worker, vars, workVars, dtorVars, Run, Pop,
           ReturnCall, Clear, FireTimer, ReturnTimer, CheckDone, Create,
           RequestTermination, Join, EndDestroy, SetTimer, CancelTimer, Stop, Begin,
           Finish, Enter, Call, BeginPush, EndPush, Leave, Tick
<1>8. QED
  BY <1>1, <1>2, <1>3, <1>4, <1>5, <1>6, <1>7, <1>3a DEF TypeOK

-----------------------------------------------------------------------------
(* Where the loop thread is fits the messages it handles and destroys:     *)
(* processedMsg is set exactly where the code uses it (RunLoop.cpp:12-44,  *)
(* 72-80).                                                                 *)
LEMMA ControlStep == Inv /\ [Next]_vars => ControlInv'
<1> SUFFICES ASSUME Inv, [Next]_vars PROVE ControlInv'
  OBVIOUS
<1>1. TypeOK /\ ControlInv /\ MsgsAssumption
  BY MsgsAssumption DEF Inv
<1>2. CASE Run \/ LoopStep
  BY <1>1, <1>2
     DEF ControlInv, LoopStep, Run, Pop, ReturnCall, AfterCall, Clear, FireTimer,
         ReturnTimer, CheckDone, msgVars, dtorVars, workVars, loopVars, TypeOK
<1>3. CASE Client
  <2>1. CASE Stop
    BY <1>1, <2>1 DEF ControlInv, Stop, Callback, pcVars, msgVars, dtorVars, workVars
  <2>2. ASSUME NEW m \in Msgs, Create(m) PROVE ControlInv'
    BY <1>1, <2>2 DEF ControlInv, Create, Callback, pcVars, dtorVars
  <2>3. ASSUME NEW m \in Msgs, RequestTermination(m) PROVE ControlInv'
    BY <1>1, <2>3 DEF ControlInv, RequestTermination, Callback, TypeOK
  <2>4. ASSUME NEW t \in Timers, CancelTimer(t) PROVE ControlInv'
    BY <1>1, <2>4 DEF ControlInv, CancelTimer, Callback, pcVars, msgVars, dtorVars
  <2>5. ASSUME NEW t \in Timers, NEW delay \in Delays, SetTimer(t, delay)
        PROVE  ControlInv'
    BY <1>1, <2>5 DEF ControlInv, SetTimer, Callback, pcVars, msgVars, dtorVars
  <2>6. QED
    BY <1>3, <2>1, <2>2, <2>3, <2>4, <2>5 DEF Client
<1>4. CASE Join
  BY <1>1, <1>4 DEF ControlInv, Join, Joined, msgVars, workVars, TypeOK
<1>5. CASE EndDestroy
  BY <1>1, <1>5 DEF ControlInv, EndDestroy, TypeOK, Callback
<1>6. ASSUME NEW m \in Msgs, Worker(m) PROVE ControlInv'
  <2>1. /\ UNCHANGED <<processedMsg, pc, dying, life, destroyed>>
        /\ wpc[m] # "exited" /\ \A n \in Msgs : n # m => wpc'[n] = wpc[n]
    BY <1>1, <1>6
       DEF Worker, Goto, Begin, Finish, Enter, Call, BeginPush, EndPush, Leave,
           loopVars, msgVars, pcVars, dtorVars, TypeOK
  <2>2. QED
    BY <1>1, <2>1 DEF ControlInv
<1>7. CASE Tick \/ UNCHANGED vars
  BY <1>1, <1>7
     DEF ControlInv, Tick, vars, loopVars, msgVars, pcVars, dtorVars, workVars
<1>8. QED
  BY <1>2, <1>3, <1>4, <1>5, <1>6, <1>7 DEF Next

(* A worker thread exists while its message does, and has ended when its   *)
(* destructor returns (ActiveMsg.h:104-114).                               *)
LEMMA LifeStep == Inv /\ [Next]_vars => LifeInv'
<1> SUFFICES ASSUME Inv, [Next]_vars, NEW m \in Msgs
             PROVE  /\ life'[m] = "unborn" <=> wpc'[m] = "none"
                    /\ life'[m] = "unborn" => ~d'[m] /\ ~destroyed'[m]
                    /\ life'[m] = "live" /\ destroyed'[m] =>
                         pc' \in {"join", "erase"} /\ dying' = m
                    /\ life'[m] = "dead" => destroyed'[m] /\ wpc'[m] = "exited"
                    /\ destroyed'[m] => ~HoldsMsg(m)'
  BY DEF LifeInv
<1>1. TypeOK /\ ControlInv /\ LifeInv
  BY DEF Inv
<1>2. CASE Run \/ LoopStep
  BY <1>1, <1>2
     DEF LifeInv, LoopStep, Run, Pop, ReturnCall, Clear, Release, FireTimer, ReturnTimer,
         CheckDone, msgVars, dtorVars, workVars, TypeOK, HoldsMsg
<1>3. CASE Client
  <2>1. CASE Stop
    BY <1>1, <2>1 DEF LifeInv, Stop, pcVars, msgVars, dtorVars, workVars, HoldsMsg
  <2>2. ASSUME NEW n \in Msgs, Create(n) PROVE LifeInv'
    BY <1>1, <2>2 DEF LifeInv, Create, Callback, pcVars, dtorVars, HoldsMsg, TypeOK
  <2>3. ASSUME NEW n \in Msgs, RequestTermination(n) PROVE LifeInv'
    BY <1>1, <2>3
       DEF LifeInv, RequestTermination, Release, Callback, workVars, HoldsMsg, TypeOK
  <2>4. ASSUME NEW t \in Timers, CancelTimer(t) PROVE LifeInv'
    BY <1>1, <2>4
       DEF LifeInv, CancelTimer, pcVars, msgVars, dtorVars, workVars, HoldsMsg
  <2>5. ASSUME NEW t \in Timers, NEW delay \in Delays, SetTimer(t, delay)
        PROVE  LifeInv'
    BY <1>1, <2>5
       DEF LifeInv, SetTimer, pcVars, msgVars, dtorVars, workVars, HoldsMsg
  <2>6. QED
    BY <1>3, <2>1, <2>2, <2>3, <2>4, <2>5 DEF Client, LifeInv
<1>4. CASE Join
  BY <1>1, <1>4 DEF LifeInv, Join, msgVars, workVars, TypeOK, HoldsMsg
<1>5. CASE EndDestroy
  BY <1>1, <1>5
     DEF LifeInv, ControlInv, EndDestroy, TypeOK, Callback, workVars, HoldsMsg
<1>6. ASSUME NEW n \in Msgs, Worker(n) PROVE LifeInv'
  <2>1. /\ UNCHANGED <<pc, dying, life, destroyed>>
        /\ wpc[n] \notin {"none", "exited"} /\ wpc'[n] # "none"
        /\ destroyed[n] => ~HoldsMsg(n)'
        /\ \A o \in Msgs : o # n => wpc'[o] = wpc[o] /\ d'[o] = d[o]
    BY <1>1, <1>6
       DEF Worker, Goto, Begin, Finish, Enter, Call, BeginPush, EndPush, Leave,
           loopVars, msgVars, pcVars, dtorVars, TypeOK, LifeInv, HoldsMsg
  <2>2. QED
    BY <1>1, <2>1 DEF LifeInv, HoldsMsg
<1>7. CASE Tick \/ UNCHANGED vars
  BY <1>1, <1>7
     DEF LifeInv, Tick, vars, msgVars, pcVars, dtorVars, workVars, HoldsMsg
<1>8. QED
  BY <1>2, <1>3, <1>4, <1>5, <1>6, <1>7 DEF Next, LifeInv

(* One worker at a time is inside RunLoop::enqueue, with the mutex of rl.c *)
(* (RunLoop.cpp:65-70).                                                    *)
LEMMA MutexStep == Inv /\ [Next]_vars => MutexInv'
<1> SUFFICES ASSUME Inv, [Next]_vars PROVE MutexInv'
  OBVIOUS
<1>1. TypeOK /\ MutexInv
  BY DEF Inv
<1>2. ASSUME NEW m \in Msgs, Worker(m) PROVE MutexInv'
  <2>1. /\ \A o \in Msgs : o # m => wpc'[o] = wpc[o]
        /\ Pushing(m)' => \A o \in Msgs : ~Pushing(o)
    BY <1>1, <1>2
       DEF Worker, Goto, Begin, Finish, Enter, Call, BeginPush, EndPush, Leave, TypeOK,
           Pushing
  <2>2. QED
    BY <1>1, <2>1 DEF MutexInv, Pushing
<1>3. ASSUME NEW m \in Msgs, Create(m) PROVE MutexInv'
  BY <1>1, <1>3 DEF Create, MutexInv, Pushing, TypeOK
<1>4. ASSUME UNCHANGED wpc PROVE MutexInv'
  BY <1>1, <1>4 DEF MutexInv, Pushing
<1>5. QED
  BY <1>2, <1>3, <1>4
     DEF Next, LoopStep, Client, vars, workVars, Run, Pop, ReturnCall, Clear, FireTimer,
         ReturnTimer, CheckDone, RequestTermination, Join, EndDestroy, SetTimer,
         CancelTimer, Stop, Tick

(* A push signals the loop; a pop leaves the flag telling of the rest.     *)
LEMMA WakeStep == Inv /\ [Next]_vars => WakeInv'
<1> SUFFICES ASSUME Inv, [Next]_vars PROVE WakeInv'
  OBVIOUS
<1>1. TypeOK /\ WakeInv /\ queue \in Seq(Msgs) /\ found \in Seq(Msgs)
  BY DEF Inv, TypeOK
<1>2. CASE Pop
  BY <1>1, <1>2 DEF WakeInv, NoLostWakeup, Pop, NonEmpty
<1>3. CASE Join
  BY <1>1, <1>3 DEF WakeInv, NoLostWakeup, Join
<1>4. CASE EndDestroy
  <2>1. dying \in Range(found) => found # <<>>
    BY DEF Range
  <2>2. pc' # "erase"
    BY <1>1, <1>4 DEF EndDestroy, TypeOK, Callback
  <2>3. QED
    BY <1>1, <1>4, <2>1, <2>2 DEF WakeInv, NoLostWakeup, EndDestroy, Dequeued
<1>5. ASSUME NEW m \in Msgs, EndPush(m) PROVE WakeInv'
  <2>1. pushed[m] \in Seq(Msgs)
    BY <1>1 DEF TypeOK
  <2>2. queue' # <<>>
    BY <1>5, <2>1, PushBack DEF EndPush, Pushed
  <2>3. QED
    BY <1>5, <2>2 DEF WakeInv, NoLostWakeup, EndPush, NonEmpty
<1>6. ASSUME UNCHANGED <<queue, cd, found>>, pc' = "erase" => pc = "erase" PROVE WakeInv'
  BY <1>1, <1>6 DEF WakeInv, NoLostWakeup
<1>7. QED
  BY <1>2, <1>3, <1>4, <1>5, <1>6
     DEF Next, LoopStep, Client, Worker, vars, loopVars, pcVars, dtorVars, Run,
         ReturnCall, AfterCall, Clear, FireTimer, ReturnTimer, CheckDone, Create,
         RequestTermination, SetTimer, CancelTimer, Stop, Begin, Finish, Enter, Call,
         BeginPush, Leave, Tick

(* Two threads meet in the deque only when there have been two messages.   *)
LEMMA RacesStep == Inv /\ [Next]_vars => RacesNeedTwo'
<1> SUFFICES ASSUME Inv, [Next]_vars, raced' PROVE RacesNeedTwo'
  BY DEF RacesNeedTwo
<1>1. TypeOK /\ RacesNeedTwo /\ ControlInv /\ LifeInv
  BY DEF Inv
<1>2. \A m \in Msgs : life[m] # "unborn" => life'[m] # "unborn"
  BY <1>1
     DEF Next, LoopStep, Client, Worker, vars, msgVars, Run, Pop, ReturnCall, Clear,
         FireTimer, ReturnTimer, CheckDone, Create, RequestTermination, Join,
         EndDestroy, SetTimer, CancelTimer, Stop, Begin, Finish, Enter, Call,
         BeginPush, EndPush, Leave, Tick, TypeOK
<1>3. CASE raced
  BY <1>1, <1>2, <1>3 DEF RacesNeedTwo
<1>4. CASE ~raced
  <2>1. CASE Join
    <3>1. PICK m \in Msgs : Pushing(m)
      BY <1>4, <2>1 DEF Join
    <3>2. dying \in Msgs /\ m # dying /\ life[m] # "unborn" /\ life[dying] # "unborn"
      BY <1>1, <2>1, <3>1 DEF Join, Joined, ControlInv, LifeInv, Pushing
    <3>3. QED
      BY <1>2, <3>2 DEF RacesNeedTwo
  <2>2. ASSUME NEW m \in Msgs, BeginPush(m) PROVE RacesNeedTwo'
    <3>1. pc = "erase" /\ wpc[m] = "calling"
      BY <1>4, <2>2 DEF BeginPush, Goto
    <3>2. dying \in Msgs /\ m # dying /\ life[m] # "unborn" /\ life[dying] # "unborn"
      BY <1>1, <3>1 DEF ControlInv, LifeInv
    <3>3. QED
      BY <1>2, <3>2 DEF RacesNeedTwo
  <2>3. ASSUME UNCHANGED raced PROVE FALSE
    BY <1>4, <2>3
  <2>4. QED
    BY <2>1, <2>2, <2>3
       DEF Next, LoopStep, Client, Worker, vars, Run, Pop, ReturnCall, Clear, FireTimer,
           ReturnTimer, CheckDone, Create, RequestTermination, EndDestroy, SetTimer,
           CancelTimer, Stop, Begin, Finish, Enter, Call, EndPush, Leave, Tick
<1>5. QED
  BY <1>3, <1>4

(* The timer list stays in the order of the fire times, through sets,      *)
(* cancels, firing and the passing of time (RunLoop.cpp:45-54, 82-94).     *)
LEMMA TimerStep == Inv /\ [Next]_vars => TimerInv'
<1> SUFFICES ASSUME Inv, [Next]_vars PROVE TimerInv'
  OBVIOUS
<1>1. TypeOK /\ TimerInv /\ timers \in Seq(Timers) /\ rem \in [Timers -> Int]
  BY DEF Inv, TypeOK
<1>2. /\ Len(timers) \in Nat /\ DOMAIN timers = 1 .. Len(timers)
      /\ \A i \in 1 .. Len(timers) : timers[i] \in Timers
  BY <1>1, LenProperties
<1>3. CASE FireTimer
  <2>1. timers # <<>> /\ timers' = Tail(timers) /\ rem' = [rem EXCEPT ![Head(timers)] = 0]
    BY <1>3 DEF FireTimer, TimerDue
  <2>2. /\ Tail(timers) \in Seq(Timers) /\ Distinct(Tail(timers))
        /\ Head(timers) \notin Range(Tail(timers)) /\ Ordered(Tail(timers), rem)
    BY <1>1, <2>1, PopFront, OrderedPopFront DEF TimerInv
  <2>3. QED
    BY <1>1, <2>1, <2>2, OrderedOther DEF TimerInv
<1>4. ASSUME NEW t \in Timers, NEW delay \in Delays, SetTimer(t, delay) PROVE TimerInv'
  BY <1>1, <1>4, ScheduleProperties DEF SetTimer, TimerInv
<1>5. ASSUME NEW t \in Timers, CancelTimer(t) PROVE TimerInv'
  <2>1. timers' = Erase(timers, t) /\ rem' = [rem EXCEPT ![t] = 0]
    BY <1>5 DEF CancelTimer
  <2>2. /\ Erase(timers, t) \in Seq(Timers) /\ Distinct(Erase(timers, t))
        /\ t \notin Range(Erase(timers, t)) /\ Ordered(Erase(timers, t), rem)
    BY <1>1, EraseProperties, OrderedErase DEF TimerInv
  <2>3. QED
    BY <1>1, <2>1, <2>2, OrderedOther DEF TimerInv
<1>6. CASE Tick
  <2>1. timers' = timers
    BY <1>6 DEF Tick
  <2>2. \A i \in 1 .. Len(timers) :
            rem'[timers[i]] = IF rem[timers[i]] > -Slack
                              THEN rem[timers[i]] - 1 ELSE rem[timers[i]]
    BY <1>1, <1>2, <1>6, InRange DEF Tick
  <2>3. ASSUME NEW i \in 1 .. Len(timers), NEW j \in 1 .. Len(timers), i < j
        PROVE  rem'[timers[i]] <= rem'[timers[j]]
    <3>1. rem[timers[i]] <= rem[timers[j]]
      BY <1>1, <2>3 DEF TimerInv, Ordered
    <3>2. rem[timers[i]] \in Int /\ rem[timers[j]] \in Int /\ Slack \in Int
      BY <1>1, <1>2, TimeAssumption
    <3>3. QED
      BY <2>2, <3>1, <3>2
  <2>4. QED
    BY <1>1, <2>1, <2>3 DEF TimerInv, Ordered
<1>7. ASSUME UNCHANGED timerVars PROVE TimerInv'
  BY <1>1, <1>7 DEF TimerInv, timerVars
<1>8. QED
  BY <1>3, <1>4, <1>5, <1>6, <1>7
     DEF Next, LoopStep, Client, Worker, vars, Run, Pop, ReturnCall, Clear, ReturnTimer,
         CheckDone, Create, RequestTermination, Join, EndDestroy, Stop, Begin, Finish,
         Enter, Call, BeginPush, EndPush, Leave

-----------------------------------------------------------------------------
(* A broken deque is not repaired.                                         *)
LEMMA RacedStep == [Next]_vars /\ ~raced' => ~raced
  BY DEF Next, LoopStep, Client, Worker, vars, Run, Pop, ReturnCall, Clear, FireTimer,
         ReturnTimer, CheckDone, Create, RequestTermination, Join, EndDestroy, SetTimer,
         CancelTimer, Stop, Begin, Finish, Enter, Call, BeginPush, EndPush, Leave, Tick

(* While no two threads were inside it at once, the deque holds each       *)
(* message once, and what a push or an erase found there is what is there  *)
(* when it ends.                                                           *)
LEMMA DequeStep == Inv /\ [Next]_vars /\ ~raced' => DequeInv'
<1> SUFFICES ASSUME Inv, [Next]_vars, ~raced' PROVE DequeInv'
  OBVIOUS
<1>1. /\ TypeOK /\ MutexInv /\ ControlInv /\ DequeInv /\ PlaceInv
      /\ queue \in Seq(Msgs) /\ ~raced
  BY RacedStep DEF Inv, TypeOK
<1>2. CASE Pop
  <2>1. (\A m \in Msgs : ~Pushing(m)') /\ pc' # "erase"
    BY <1>2 DEF Pop, workVars, Pushing
  <2>2. Distinct(queue')
    <3>1. CASE queue = <<>>
      BY <1>1, <1>2, <3>1 DEF Pop, DequeInv
    <3>2. CASE queue # <<>>
      BY <1>1, <1>2, <3>2, PopFront DEF Pop, DequeInv
    <3>3. QED
      BY <3>1, <3>2
  <2>3. QED
    BY <2>1, <2>2 DEF DequeInv
<1>3. CASE Join
  <2>1. \A m \in Msgs : ~Pushing(m)'
    BY <1>3 DEF Join, workVars, Pushing
  <2>2. QED
    BY <1>1, <1>3, <2>1 DEF Join, DequeInv
<1>4. CASE EndDestroy
  <2>1. (\A m \in Msgs : ~Pushing(m)') /\ pc' # "erase"
    BY <1>1, <1>4 DEF EndDestroy, DequeInv, workVars, Pushing, TypeOK, Callback
  <2>2. Distinct(queue')
    BY <1>1, <1>4, EraseProperties DEF EndDestroy, Dequeued, DequeInv
  <2>3. QED
    BY <2>1, <2>2 DEF DequeInv
<1>5. ASSUME NEW m \in Msgs, BeginPush(m) PROVE DequeInv'
  <2>1. /\ pc' # "erase" /\ queue' = queue
        /\ pushed' = [pushed EXCEPT ![m] = queue]
        /\ \A n \in Msgs : n # m => ~Pushing(n)'
    BY <1>1, <1>5 DEF BeginPush, Goto, Pushing, pcVars, TypeOK
  <2>2. QED
    BY <1>1, <2>1 DEF DequeInv, TypeOK
<1>6. ASSUME NEW m \in Msgs, EndPush(m) PROVE DequeInv'
  <2>1. Pushing(m) /\ pushed[m] = queue /\ pc # "erase" /\ pc' = pc
    BY <1>1, <1>6 DEF EndPush, Goto, Pushing, DequeInv, pcVars
  <2>2. \A n \in Msgs : ~Pushing(n)'
    BY <1>1, <1>6, <2>1 DEF EndPush, Goto, Pushing, MutexInv, TypeOK
  <2>3. m \notin Range(queue)
    BY <1>1, <2>1 DEF PlaceInv, Queued, Pushing, Filling
  <2>4. Distinct(queue')
    BY <1>1, <1>6, <2>1, <2>3, PushBack DEF EndPush, Pushed, DequeInv
  <2>5. QED
    BY <2>1, <2>2, <2>4 DEF DequeInv
<1>7. ASSUME UNCHANGED <<queue, pushed, found>>, pc' = "erase" => pc = "erase",
             \A m \in Msgs : Pushing(m)' => Pushing(m)
      PROVE  DequeInv'
  BY <1>1, <1>7 DEF DequeInv
<1>8. (Run \/ ReturnCall \/ Clear \/ FireTimer \/ ReturnTimer \/ CheckDone \/ Client
       \/ Tick \/ UNCHANGED vars)
      => /\ UNCHANGED <<queue, pushed, found>>
         /\ pc' = "erase" => pc = "erase"
         /\ \A m \in Msgs : Pushing(m)' => Pushing(m)
  BY <1>1
     DEF Client, vars, Run, ReturnCall, AfterCall, Clear, FireTimer, ReturnTimer,
         CheckDone, Create, RequestTermination, SetTimer, CancelTimer, Stop, Tick,
         workVars, dtorVars, pcVars, Pushing, TypeOK
<1>9. ASSUME NEW n \in Msgs, Begin(n) \/ Finish(n) \/ Enter(n) \/ Call(n) \/ Leave(n)
      PROVE  /\ UNCHANGED <<queue, pushed, found>>
             /\ pc' = "erase" => pc = "erase"
             /\ \A m \in Msgs : Pushing(m)' => Pushing(m)
  BY <1>1, <1>9
     DEF Begin, Finish, Enter, Call, Leave, Goto, dtorVars, pcVars, Pushing, TypeOK
<1>10. QED
  BY <1>2, <1>3, <1>4, <1>5, <1>6, <1>7, <1>8, <1>9 DEF Next, LoopStep, Worker

(* Where a message is, and that its condition tells it.                    *)
LEMMA PlaceStep ==
    Inv /\ [Next]_vars /\ ~raced' => PlaceInv' /\ CalledMeansPending'
<1> SUFFICES ASSUME Inv, [Next]_vars, ~raced' PROVE PlaceInv' /\ CalledMeansPending'
  OBVIOUS
<1> DEFINE Goal == PlaceInv' /\ CalledMeansPending'
<1>1. /\ TypeOK /\ MutexInv /\ ControlInv /\ LifeInv /\ DequeInv /\ PlaceInv
      /\ CalledMeansPending /\ queue \in Seq(Msgs) /\ ~raced
      /\ NoMsg \notin Msgs
  BY RacedStep, MsgsAssumption DEF Inv, TypeOK
<1> DEFINE Same ==
        /\ UNCHANGED <<queue, wpc, d, destroyed, life>>
        /\ processedMsg' = NoMsg \/ processedMsg' = processedMsg
        /\ \A m \in Msgs : InService(m)' <=> InService(m)
<1>2. ASSUME Same PROVE Goal
  BY <1>1, <1>2 DEF PlaceInv, CalledMeansPending, Queued, Filling, Live
<1>3. CASE Run \/ ReturnCall \/ FireTimer \/ ReturnTimer \/ CheckDone
  <2>1. Same
    BY <1>1, <1>3
       DEF Run, ReturnCall, AfterCall, FireTimer, ReturnTimer, CheckDone, InService,
           loopVars, workVars, msgVars
  <2>2. QED
    BY <1>2, <2>1
<1>4. CASE Pop
  <2>1. UNCHANGED <<wpc, d, destroyed, life>> /\ \A m \in Msgs : ~InService(m)
    BY <1>4 DEF Pop, workVars, msgVars, InService
  <2>2. CASE queue = <<>>
    <3>1. Same
      BY <1>4, <2>1, <2>2 DEF Pop, InService
    <3>2. QED
      BY <1>2, <3>1
  <2>3. CASE queue # <<>>
    <3> DEFINE h == Head(queue)
    <3>1. /\ h \in Msgs /\ Queued(h)
          /\ \A m \in Msgs : Queued(m)' <=> Queued(m) /\ m # h
      BY <1>1, <1>4, <2>3, PopFront DEF Pop, Queued, DequeInv
    <3>2. processedMsg' = h /\ \A m \in Msgs : InService(m)' <=> m = h
      BY <1>1, <1>4, <2>3, <3>1 DEF Pop, InService
    <3> HIDE DEF h
    <3>3. QED
      BY <1>1, <2>1, <3>1, <3>2 DEF PlaceInv, CalledMeansPending, Filling, Live
  <2>4. QED
    BY <2>2, <2>3
<1>5. CASE Clear
  <2>1. /\ UNCHANGED <<queue, wpc, destroyed, life, processedMsg>>
        /\ processedMsg \in Msgs /\ ~HoldsMsg(processedMsg)
        /\ d' = [d EXCEPT ![processedMsg] = FALSE]
        /\ InService(processedMsg) /\ \A m \in Msgs : ~InService(m)'
        /\ \A m \in Msgs : InService(m) => m = processedMsg
    BY <1>1, <1>5 DEF Clear, Release, InService, loopVars, workVars, ControlInv
  <2>2. QED
    BY <1>1, <2>1
       DEF PlaceInv, CalledMeansPending, Queued, Filling, Live, HoldsMsg, TypeOK
<1>6. CASE Client
  <2>1. CASE Stop
    <3>1. Same
      BY <2>1 DEF Stop, InService, workVars, msgVars, pcVars
    <3>2. QED
      BY <1>2, <3>1
  <2>2. ASSUME NEW n \in Msgs, Create(n) PROVE Goal
    <3>1. /\ UNCHANGED <<queue, d, destroyed, processedMsg>>
          /\ life[n] = "unborn" /\ life' = [life EXCEPT ![n] = "live"]
          /\ wpc' = [wpc EXCEPT ![n] = "run"]
          /\ \A m \in Msgs : InService(m)' <=> InService(m)
      BY <2>2 DEF Create, InService, pcVars
    <3>2. ~d[n] /\ ~Queued(n) /\ ~InService(n)
      BY <1>1, <3>1 DEF LifeInv, PlaceInv, InService
    <3>3. QED
      BY <1>1, <3>1, <3>2
         DEF PlaceInv, CalledMeansPending, Queued, Filling, Live, TypeOK
  <2>3. ASSUME NEW n \in Msgs, RequestTermination(n) PROVE Goal
    <3>1. /\ UNCHANGED <<queue, wpc, life, processedMsg>>
          /\ destroyed' = [destroyed EXCEPT ![n] = TRUE]
          /\ d' = [d EXCEPT ![n] = FALSE]
          /\ \A m \in Msgs : InService(m)' <=> InService(m)
      BY <2>3
         DEF RequestTermination, Release, InService, loopVars, workVars, Callback
    <3>2. QED
      BY <1>1, <3>1 DEF PlaceInv, CalledMeansPending, Queued, Filling, Live, TypeOK
  <2>4. ASSUME NEW t \in Timers, CancelTimer(t) PROVE Goal
    <3>1. Same
      BY <2>4 DEF CancelTimer, InService, loopVars, workVars, msgVars, pcVars
    <3>2. QED
      BY <1>2, <3>1
  <2>5. ASSUME NEW t \in Timers, NEW delay \in Delays, SetTimer(t, delay) PROVE Goal
    <3>1. Same
      BY <2>5 DEF SetTimer, InService, loopVars, workVars, msgVars, pcVars
    <3>2. QED
      BY <1>2, <3>1
  <2>6. QED
    BY <1>6, <2>1, <2>2, <2>3, <2>4, <2>5 DEF Client
<1>7. CASE Join
  <2>1. /\ UNCHANGED <<queue, wpc, d, destroyed, life, dying>>
        /\ processedMsg' = NoMsg \/ processedMsg' = processedMsg
        /\ dying \in Msgs /\ destroyed[dying] /\ ~InService(dying)'
        /\ \A m \in Msgs : m # dying => (InService(m)' <=> InService(m))
    BY <1>1, <1>7 DEF Join, InService, workVars, msgVars, ControlInv
  <2>2. PlaceInv'
    BY <1>1, <2>1 DEF PlaceInv, Queued, Filling
  <2>3. CalledMeansPending'
    <3>1. SUFFICES ASSUME NEW m \in Msgs, Live(m)'
                   PROVE  d[m] <=> \/ wpc[m] \in {"calling", "pushing"}
                                   \/ Queued(m) \/ InService(m)'
      BY <2>1 DEF CalledMeansPending, Queued
    <3>2. m # dying /\ Live(m)
      BY <2>1, <3>1 DEF Live
    <3>3. QED
      BY <1>1, <2>1, <3>2 DEF CalledMeansPending
  <2>4. QED
    BY <2>2, <2>3
<1>8. CASE EndDestroy
  <2>1. /\ UNCHANGED <<wpc, d, destroyed, processedMsg>>
        /\ dying \in Msgs /\ processedMsg # dying
        /\ life' = [life EXCEPT ![dying] = "dead"]
        /\ \A m \in Msgs : InService(m)' <=> InService(m)
    BY <1>1, <1>8 DEF EndDestroy, InService, workVars, ControlInv, TypeOK, Callback
  <2>2. \A m \in Msgs : Queued(m)' <=> Queued(m) /\ m # dying
    BY <1>1, <1>8, EraseProperties DEF EndDestroy, Dequeued, DequeInv, Queued
  <2>3. QED
    BY <1>1, <2>1, <2>2 DEF PlaceInv, CalledMeansPending, Filling, Live, TypeOK
<1>9. ASSUME NEW n \in Msgs, Worker(n) PROVE Goal
  <2>1. /\ UNCHANGED <<processedMsg, life, destroyed>>
        /\ \A m \in Msgs : InService(m)' <=> InService(m)
        /\ \A m \in Msgs : m # n => wpc'[m] = wpc[m] /\ d'[m] = d[m]
    BY <1>1, <1>9
       DEF Worker, Begin, Finish, Enter, Call, BeginPush, EndPush, Leave, Goto,
           InService, loopVars, msgVars, pcVars, TypeOK
  <2>2. life[n] # "unborn"
    BY <1>1, <1>9
       DEF Worker, Begin, Finish, Enter, Call, BeginPush, EndPush, Leave, Goto, LifeInv
  <2>3. CASE Begin(n) \/ Finish(n) \/ BeginPush(n) \/ Leave(n)
    <3>1. /\ queue' = queue /\ d' = d
          /\ Filling(n)' <=> Filling(n)
          /\ wpc'[n] \in {"calling", "pushing"} <=> wpc[n] \in {"calling", "pushing"}
      BY <1>1, <2>3
         DEF Begin, Finish, BeginPush, Leave, Goto, Filling, msgVars, TypeOK
    <3>2. QED
      BY <1>1, <2>1, <3>1 DEF PlaceInv, CalledMeansPending, Queued, Filling, Live
  <2>4. CASE Enter(n)
    <3>1. /\ queue' = queue /\ d' = d /\ ~d[n] /\ wpc[n] = "enter"
          /\ wpc'[n] = IF destroyed[n] THEN "exited" ELSE "inside"
      BY <1>1, <2>4 DEF Enter, Free, Goto, msgVars, TypeOK
    <3>2. CASE destroyed[n]
      BY <1>1, <2>1, <3>1, <3>2 DEF PlaceInv, CalledMeansPending, Queued, Filling, Live
    <3>3. CASE ~destroyed[n]
      <4>1. Live(n) /\ ~Queued(n) /\ ~InService(n)
        BY <1>1, <2>2, <3>1, <3>3 DEF Live, LifeInv, CalledMeansPending, TypeOK
      <4>2. QED
        BY <1>1, <2>1, <3>1, <3>3, <4>1
           DEF PlaceInv, CalledMeansPending, Queued, Filling, Live
    <3>4. QED
      BY <3>2, <3>3
  <2>5. CASE Call(n)
    <3>1. queue' = queue /\ wpc[n] = "inside" /\ wpc'[n] = "calling" /\ d'[n]
      BY <1>1, <2>5 DEF Call, Goto, TypeOK
    <3>2. QED
      BY <1>1, <2>1, <3>1 DEF PlaceInv, CalledMeansPending, Queued, Filling, Live
  <2>6. CASE EndPush(n)
    <3>1. /\ wpc[n] = "pushing" /\ wpc'[n] = "leaving" /\ d' = d
          /\ queue' = Append(queue, n)
      BY <1>1, <2>6 DEF EndPush, Pushed, Goto, TypeOK, msgVars, DequeInv, Pushing
    <3>2. \A m \in Msgs : Queued(m)' <=> Queued(m) \/ m = n
      BY <1>1, <3>1, PushBack DEF Queued
    <3>3. life[n] = "live" /\ ~InService(n) /\ ~Queued(n)
      BY <1>1, <2>2, <3>1 DEF LifeInv, PlaceInv, Filling, TypeOK
    <3>4. QED
      BY <1>1, <2>1, <3>1, <3>2, <3>3 DEF PlaceInv, CalledMeansPending, Filling, Live
  <2>7. QED
    BY <1>9, <2>3, <2>4, <2>5, <2>6 DEF Worker
<1>10. CASE Tick \/ UNCHANGED vars
  <2>1. Same
    BY <1>10 DEF Tick, vars, InService, loopVars, workVars, msgVars, pcVars
  <2>2. QED
    BY <1>2, <2>1
<1>11. QED
  BY <1>3, <1>4, <1>5, <1>6, <1>7, <1>8, <1>9, <1>10 DEF Next, LoopStep

-----------------------------------------------------------------------------
(* Inv is an inductive invariant of the run loop.                          *)
THEOREM Invariance == Spec => []Inv
<1>1. Init => Inv
  BY InitInv
<1>2. Inv /\ [Next]_vars => Inv'
  BY TypeStep, CountStep, ControlStep, LifeStep, MutexStep, WakeStep, RacesStep,
     TimerStep, DequeStep, PlaceStep
     DEF Inv
<1>3. QED
  BY <1>1, <1>2, PTL DEF Spec

(* Every variable keeps its type; msgCnt, which is unsigned in the code,   *)
(* never goes below zero (RunLoop.h:36, 46-55).                            *)
THEOREM TypeCorrect == Spec => []TypeOK
<1>1. Inv => TypeOK
  BY DEF Inv
<1>2. QED
  BY <1>1, Invariance, PTL

(* A worker and its delegate never use the fields they share at once.      *)
THEOREM ExclusionHolds == Spec => []Exclusion
<1>1. Inv => Exclusion
  BY DEF Inv, Exclusion, PlaceInv, Filling
<1>2. QED
  BY <1>1, Invariance, PTL

(* No post is lost and none is delivered twice.                            *)
THEOREM PostsAreKeptHolds == Spec => []PostsAreKept
<1>1. Inv => PostsAreKept
  BY DEF Inv, PostsAreKept
<1>2. QED
  BY <1>1, Invariance, PTL

(* The loop never finds a message that was destroyed.                      *)
THEOREM NoUseAfterDestroyHolds == Spec => []NoUseAfterDestroy
<1>1. Inv => NoUseAfterDestroy
  BY DEF Inv, NoUseAfterDestroy, PlaceInv, LifeInv
<1>2. QED
  BY <1>1, Invariance, PTL

(* The loop's condition is true whenever its queue is not empty.           *)
THEOREM NoLostWakeupHolds == Spec => []NoLostWakeup
<1>1. Inv => NoLostWakeup
  BY DEF Inv, WakeInv
<1>2. QED
  BY <1>1, Invariance, PTL

(* A deque is only broken when there have been two messages.               *)
THEOREM RacesNeedTwoHolds == Spec => []RacesNeedTwo
<1>1. Inv => RacesNeedTwo
  BY DEF Inv
<1>2. QED
  BY <1>1, Invariance, PTL

(* run() ends by itself only when nothing is registered.                   *)
THEOREM EndsOnlyWhenIdleHolds == Spec => EndsOnlyWhenIdle
<1>1. ASSUME Inv, [Next]_vars, pc = "timers", pc' = "user", running
      PROVE  timers = <<>> /\ \A m \in Msgs : life[m] # "live"
  <2>1. CheckDone
    BY <1>1
       DEF Next, LoopStep, Client, Worker, vars, pcVars, Run, Pop, ReturnCall, AfterCall,
           Clear, FireTimer, ReturnTimer, Create, RequestTermination, Join, EndDestroy,
           SetTimer, CancelTimer, Stop, Begin, Finish, Enter, Call, BeginPush, EndPush,
           Leave, Tick, Callback
  <2>2. timers = <<>> /\ msgCnt = 0
    BY <1>1, <2>1 DEF CheckDone, StaysRunning, Idle
  <2>3. LiveMsgs = {}
    BY <1>1, <2>2, FS_EmptySet DEF Inv, CountInv
  <2>4. QED
    BY <2>2, <2>3 DEF LiveMsgs
<1>2. QED
  BY <1>1, Invariance, PTL DEF Spec, EndsOnlyWhenIdle

(* Timers fire when they are due, in the order they are due, once each     *)
(* time they are set.                                                      *)
THEOREM FiresInOrderHolds == Spec => FiresInOrder
<1>1. ASSUME Inv, [Next]_vars, pc = "timers", pc' = "ontimer"
      PROVE  \E t \in Range(timers) :
                 /\ rem[t] <= 0 /\ t \notin Range(timers')
                 /\ \A u \in Range(timers) : rem[t] <= rem[u]
  <2>1. FireTimer
    BY <1>1
       DEF Next, LoopStep, Client, Worker, vars, pcVars, Run, Pop, ReturnCall, AfterCall,
           Clear, ReturnTimer, CheckDone, Create, RequestTermination, Join, EndDestroy,
           SetTimer, CancelTimer, Stop, Begin, Finish, Enter, Call, BeginPush, EndPush,
           Leave, Tick, Callback
  <2>2. /\ timers # <<>> /\ timers' = Tail(timers) /\ rem[Head(timers)] <= 0
        /\ timers \in Seq(Timers) /\ rem \in [Timers -> Int]
        /\ Distinct(timers) /\ Ordered(timers, rem)
    BY <1>1, <2>1 DEF FireTimer, TimerDue, Inv, TypeOK, TimerInv
  <2>3. /\ Head(timers) \in Range(timers) /\ Head(timers) \notin Range(timers')
        /\ \A u \in Range(timers) : rem[Head(timers)] <= rem[u]
    BY <2>2, PopFront, OrderedPopFront
  <2>4. QED
    BY <2>2, <2>3
<1>2. QED
  BY <1>1, Invariance, PTL DEF Spec, FiresInOrder

-----------------------------------------------------------------------------
(* The mailbox.  The run loop implements it: every step is a step of the   *)
(* mailbox or none, until two threads meet in the deque.  What a step does *)
(* to a message is told by four facts about it, from which its phase       *)
(* follows.                                                                *)

(* The step leaves m where the mailbox has it.                             *)
Same(m) ==
    /\ life'[m] = life[m]
    /\ Filling(m)' <=> Filling(m)
    /\ InService(m)' <=> InService(m)
    /\ Queued(m)' <=> Queued(m)

LEMMA PhaseOf ==
    ASSUME TypeOK, NEW m \in Msgs
    PROVE  /\ life[m] = "unborn" => phaseBar[m] = "none"
           /\ life[m] = "dead" => phaseBar[m] = "gone"
           /\ life[m] = "live" =>
                /\ Filling(m) => phaseBar[m] = "filling"
                /\ ~Filling(m) /\ InService(m) => phaseBar[m] = "handling"
                /\ ~Filling(m) /\ ~InService(m) /\ Queued(m) => phaseBar[m] = "posted"
                /\ ~Filling(m) /\ ~InService(m) /\ ~Queued(m) => phaseBar[m] = "free"
           /\ phaseBar[m] = "handling" => InService(m)
BY DEF TypeOK, phaseBar, Filling

LEMMA PhaseOfNext ==
    ASSUME TypeOK', NEW m \in Msgs
    PROVE  /\ life'[m] = "unborn" => phaseBar'[m] = "none"
           /\ life'[m] = "dead" => phaseBar'[m] = "gone"
           /\ life'[m] = "live" =>
                /\ Filling(m)' => phaseBar'[m] = "filling"
                /\ ~Filling(m)' /\ InService(m)' => phaseBar'[m] = "handling"
                /\ ~Filling(m)' /\ ~InService(m)' /\ Queued(m)' => phaseBar'[m] = "posted"
                /\ ~Filling(m)' /\ ~InService(m)' /\ ~Queued(m)' => phaseBar'[m] = "free"
BY DEF TypeOK, phaseBar, Filling

LEMMA SamePhase ==
    ASSUME NEW m \in Msgs, Same(m)
    PROVE  phaseBar'[m] = phaseBar[m]
BY DEF Same, phaseBar, Filling

(* A step that leaves every message where it is is none of the mailbox's.  *)
LEMMA Stutters ==
    ASSUME queue' = queue, \A m \in Msgs : Same(m)
    PROVE  UNCHANGED Abstract!mailbox
<1>1. \A m \in Msgs : phaseBar'[m] = phaseBar[m]
  BY SamePhase
<1>2. phaseBar' = phaseBar
  BY <1>1 DEF phaseBar
<1> QED
  BY <1>2 DEF Abstract!mailbox

(* One that leaves all but m where they are moves m.                       *)
LEMMA Moves ==
    ASSUME NEW m \in Msgs, \A n \in Msgs : n # m => Same(n)
    PROVE  phaseBar' = [phaseBar EXCEPT ![m] = phaseBar'[m]]
<1>1. \A n \in Msgs : n # m => phaseBar'[n] = phaseBar[n]
  BY SamePhase
<1> QED
  BY <1>1 DEF phaseBar

(* What the steps below may use of the state.                              *)
Sound == Inv /\ DequeInv /\ PlaceInv /\ CalledMeansPending

LEMMA SoundUntilRaced == Inv /\ ~raced => Sound
BY DEF Inv, Sound

MailboxStep == Abstract!MailboxNext \/ UNCHANGED Abstract!mailbox

-----------------------------------------------------------------------------
(* The loop takes the oldest message, hands it to its callback and frees   *)
(* it (RunLoop.cpp:31-43).                                                 *)
LEMMA LoopIsAbstract ==
    ASSUME Sound, TypeOK', Run \/ LoopStep
    PROVE  MailboxStep
<1>1. /\ TypeOK /\ ControlInv /\ LifeInv /\ DequeInv /\ PlaceInv
      /\ queue \in Seq(Msgs) /\ NoMsg \notin Msgs
  BY MsgsAssumption DEF Sound, Inv, TypeOK
<1>2. UNCHANGED <<life, wpc>>
  BY DEF LoopStep, Run, Pop, ReturnCall, Clear, FireTimer, ReturnTimer, CheckDone,
         msgVars, workVars
<1>3. CASE Run \/ ReturnCall \/ FireTimer \/ ReturnTimer \/ CheckDone
  <2>1. queue' = queue /\ \A m \in Msgs : Same(m)
    BY <1>1, <1>2, <1>3
       DEF Run, ReturnCall, AfterCall, FireTimer, ReturnTimer, CheckDone, InService,
           loopVars, Same, Filling, Queued
  <2> QED
    BY <2>1, Stutters DEF MailboxStep
<1>4. CASE Pop
  <2>1. \A m \in Msgs : ~InService(m)
    BY <1>4 DEF Pop, InService
  <2>2. CASE queue = <<>>
    <3>1. queue' = queue /\ \A m \in Msgs : Same(m)
      BY <1>2, <1>4, <2>1, <2>2 DEF Pop, InService, Same, Filling, Queued
    <3> QED
      BY <3>1, Stutters DEF MailboxStep
  <2>3. CASE queue # <<>>
    <3>0. PICK h \in Msgs : h = Head(queue)
      BY <1>1, <2>3, PopFront
    <3>1. Queued(h) /\ \A m \in Msgs : Queued(m)' <=> Queued(m) /\ m # h
      BY <1>1, <1>4, <2>3, <3>0, PopFront DEF Pop, Queued, DequeInv
    <3>2. \A m \in Msgs : InService(m)' <=> m = h
      BY <1>1, <1>4, <2>3, <3>0 DEF Pop, InService
    <3>3. queue' = Tail(queue)
      BY <1>4, <2>3 DEF Pop
    <3>4. life[h] = "live" /\ ~Filling(h) /\ ~InService(h) /\ ~Filling(h)'
      BY <1>1, <1>2, <3>1 DEF PlaceInv, Filling
    <3>5. phaseBar[h] = "posted" /\ phaseBar'[h] = "handling"
      BY <1>1, <1>2, <3>1, <3>2, <3>4, PhaseOf, PhaseOfNext
    <3>6. phaseBar' = [phaseBar EXCEPT ![h] = phaseBar'[h]]
      BY <1>2, <2>1, <3>1, <3>2, Moves DEF Same, Filling
    <3>7. \A m \in Msgs : phaseBar[m] # "handling"
      BY <1>1, <2>1, PhaseOf
    <3> QED
      BY <2>3, <3>0, <3>3, <3>5, <3>6, <3>7
         DEF MailboxStep, Abstract!MailboxNext, Abstract!Handle, Abstract!Move
  <2> QED
    BY <2>2, <2>3
<1>5. CASE Clear
  <2>0. PICK p \in Msgs : p = processedMsg
    BY <1>1, <1>5 DEF Clear, ControlInv
  <2>1. /\ queue' = queue /\ InService(p)
        /\ \A m \in Msgs : ~InService(m)' /\ (m # p => ~InService(m))
    BY <1>1, <1>5, <2>0 DEF Clear, InService, loopVars
  <2>2. life[p] = "live" /\ ~Filling(p) /\ ~Filling(p)' /\ ~Queued(p) /\ ~Queued(p)'
    BY <1>1, <1>2, <2>0, <2>1 DEF PlaceInv, Filling, Queued
  <2>3. phaseBar[p] = "handling" /\ phaseBar'[p] = "free"
    BY <1>1, <1>2, <2>1, <2>2, PhaseOf, PhaseOfNext
  <2>4. phaseBar' = [phaseBar EXCEPT ![p] = phaseBar'[p]]
    BY <1>2, <2>1, Moves DEF Same, Filling, Queued
  <2> QED
    BY <2>1, <2>3, <2>4
       DEF MailboxStep, Abstract!MailboxNext, Abstract!Done, Abstract!Move
<1> QED
  BY <1>3, <1>4, <1>5 DEF LoopStep

(* Creating a message opens its slot, destroying it closes it, and frees   *)
(* it first when it is in service (RunLoop.cpp:72-80); timers and stop()   *)
(* are not the mailbox's.                                                  *)
LEMMA ClientIsAbstract ==
    ASSUME Sound, TypeOK', Client \/ Join \/ EndDestroy
    PROVE  MailboxStep
<1>1. /\ TypeOK /\ ControlInv /\ LifeInv /\ DequeInv /\ PlaceInv
      /\ queue \in Seq(Msgs) /\ NoMsg \notin Msgs
  BY MsgsAssumption DEF Sound, Inv, TypeOK
<1>2. ASSUME UNCHANGED <<life, wpc, queue, processedMsg>>,
             \A m \in Msgs : InService(m)' <=> InService(m)
      PROVE  MailboxStep
  BY <1>2, Stutters DEF MailboxStep, Same, Filling, Queued
<1>3. CASE Stop
  BY <1>2, <1>3 DEF Stop, InService, workVars, msgVars, pcVars
<1>4. ASSUME NEW t \in Timers, CancelTimer(t) PROVE MailboxStep
  BY <1>2, <1>4 DEF CancelTimer, InService, loopVars, workVars, msgVars, pcVars
<1>5. ASSUME NEW t \in Timers, NEW delay \in Delays, SetTimer(t, delay)
      PROVE  MailboxStep
  BY <1>2, <1>5 DEF SetTimer, InService, loopVars, workVars, msgVars, pcVars
<1>6. ASSUME NEW m \in Msgs, RequestTermination(m) PROVE MailboxStep
  BY <1>2, <1>6 DEF RequestTermination, InService, loopVars, workVars, Callback
<1>7. ASSUME NEW m \in Msgs, Create(m) PROVE MailboxStep
  <2>1. /\ queue' = queue /\ life[m] = "unborn" /\ wpc[m] = "none"
        /\ life' = [life EXCEPT ![m] = "live"] /\ wpc' = [wpc EXCEPT ![m] = "run"]
        /\ \A n \in Msgs : InService(n)' <=> InService(n)
    BY <1>1, <1>7 DEF Create, InService, pcVars, LifeInv
  <2>2. /\ ~Queued(m)' /\ ~InService(m)' /\ ~Filling(m)' /\ life'[m] = "live"
    BY <1>1, <2>1 DEF PlaceInv, InService, Queued, Filling, TypeOK
  <2>3. phaseBar[m] = "none" /\ phaseBar'[m] = "free"
    BY <1>1, <2>1, <2>2, PhaseOf, PhaseOfNext
  <2>4. phaseBar' = [phaseBar EXCEPT ![m] = phaseBar'[m]]
    BY <1>1, <2>1, Moves DEF Same, Filling, Queued, TypeOK
  <2> QED
    BY <2>1, <2>3, <2>4
       DEF MailboxStep, Abstract!MailboxNext, Abstract!Open, Abstract!Move
<1>8. CASE Join
  <2>0. PICK m \in Msgs : m = dying
    BY <1>1, <1>8 DEF Join, ControlInv
  <2>1. /\ UNCHANGED <<life, wpc, queue>> /\ life[m] = "live"
        /\ wpc[m] = "exited" /\ ~InService(m)'
        /\ \A n \in Msgs : n # m => (InService(n)' <=> InService(n))
    BY <1>1, <1>8, <2>0 DEF Join, Joined, InService, workVars, msgVars, ControlInv
  <2>2. CASE InService(m)
    <3>1. /\ ~Filling(m) /\ ~Filling(m)' /\ ~Queued(m) /\ ~Queued(m)'
          /\ life'[m] = "live"
      BY <1>1, <2>1, <2>2 DEF PlaceInv, Filling, Queued
    <3>2. phaseBar[m] = "handling" /\ phaseBar'[m] = "free"
      BY <1>1, <2>1, <2>2, <3>1, PhaseOf, PhaseOfNext
    <3>3. phaseBar' = [phaseBar EXCEPT ![m] = phaseBar'[m]]
      BY <2>1, Moves DEF Same, Filling, Queued
    <3> QED
      BY <2>1, <3>2, <3>3
         DEF MailboxStep, Abstract!MailboxNext, Abstract!Done, Abstract!Move
  <2>3. CASE ~InService(m)
    BY <2>1, <2>3, Stutters DEF MailboxStep, Same, Filling, Queued
  <2> QED
    BY <2>2, <2>3
<1>9. CASE EndDestroy
  <2>0. PICK m \in Msgs : m = dying
    BY <1>1, <1>9 DEF EndDestroy, ControlInv
  <2>1. /\ wpc' = wpc /\ life[m] = "live"
        /\ wpc[m] = "exited" /\ processedMsg # m
        /\ life' = [life EXCEPT ![m] = "dead"]
        /\ \A n \in Msgs : InService(n)' <=> InService(n)
    BY <1>1, <1>9, <2>0 DEF EndDestroy, InService, workVars, ControlInv, TypeOK, Callback
  <2>2. queue' = Erase(queue, m)
    BY <1>1, <1>9, <2>0, EraseProperties DEF EndDestroy, Dequeued, DequeInv
  <2>3. \A n \in Msgs : Queued(n)' <=> Queued(n) /\ n # m
    BY <1>1, <2>2, EraseProperties DEF DequeInv, Queued
  <2>4. phaseBar[m] \in {"free", "posted"} /\ phaseBar'[m] = "gone"
    <3>1. ~Filling(m) /\ ~InService(m) /\ life'[m] = "dead"
      BY <1>1, <2>1 DEF Filling, InService, TypeOK
    <3> QED
      BY <1>1, <2>1, <3>1, PhaseOf, PhaseOfNext
  <2>5. phaseBar' = [phaseBar EXCEPT ![m] = phaseBar'[m]]
    BY <1>1, <2>1, <2>3, Moves DEF Same, Filling, TypeOK
  <2> QED
    <3>1. Abstract!Erase(queue, m) = Erase(queue, m)
      BY DEF Abstract!Erase, Abstract!IndexOf, Abstract!Range, Erase, IndexOf, Range
    <3>2. Abstract!Close(m)
      BY <2>2, <2>4, <2>5, <3>1 DEF Abstract!Close
    <3> QED
      BY <3>2 DEF MailboxStep, Abstract!MailboxNext
<1> QED
  BY <1>3, <1>4, <1>5, <1>6, <1>7, <1>8, <1>9 DEF Client

(* A worker fills its message and posts it at the back of the queue        *)
(* (ActiveMsg.h:65-84, RunLoop.cpp:63-70).                                 *)
LEMMA WorkerIsAbstract ==
    ASSUME Sound, TypeOK', NEW m \in Msgs, Worker(m)
    PROVE  MailboxStep
<1>1. /\ TypeOK /\ LifeInv /\ DequeInv /\ PlaceInv /\ CalledMeansPending
      /\ queue \in Seq(Msgs)
  BY DEF Sound, Inv, TypeOK
<1>2. /\ life' = life /\ \A n \in Msgs : InService(n)' <=> InService(n)
      /\ \A n \in Msgs : n # m => wpc'[n] = wpc[n]
  BY <1>1
     DEF Worker, Begin, Finish, Enter, Call, BeginPush, EndPush, Leave, Goto,
         InService, loopVars, msgVars, pcVars, TypeOK
<1>3. ASSUME queue' = queue, Filling(m)' <=> Filling(m) PROVE MailboxStep
  BY <1>2, <1>3, Stutters DEF MailboxStep, Same, Filling, Queued
<1>4. CASE Begin(m) \/ Finish(m) \/ Call(m) \/ BeginPush(m) \/ Leave(m)
  <2>1. queue' = queue /\ (Filling(m)' <=> Filling(m))
    BY <1>1, <1>4 DEF Begin, Finish, Call, BeginPush, Leave, Goto, Filling, TypeOK
  <2> QED
    BY <1>3, <2>1
<1>5. CASE Enter(m)
  <2>1. /\ queue' = queue /\ ~d[m] /\ wpc[m] = "enter"
        /\ wpc'[m] = IF destroyed[m] THEN "exited" ELSE "inside"
    BY <1>1, <1>5 DEF Enter, Free, Goto, TypeOK
  <2>2. CASE destroyed[m]
    BY <1>3, <2>1, <2>2 DEF Filling
  <2>3. CASE ~destroyed[m]
    <3>1. life[m] = "live"
      BY <1>1, <2>1 DEF LifeInv, TypeOK
    <3>2. ~Filling(m) /\ ~Queued(m) /\ ~InService(m) /\ Filling(m)'
      BY <1>1, <2>1, <2>3, <3>1 DEF CalledMeansPending, Live, Filling
    <3>3. phaseBar[m] = "free" /\ phaseBar'[m] = "filling"
      BY <1>1, <1>2, <3>1, <3>2, PhaseOf, PhaseOfNext
    <3>4. phaseBar' = [phaseBar EXCEPT ![m] = phaseBar'[m]]
      BY <1>2, <2>1, Moves DEF Same, Filling, Queued
    <3> QED
      BY <2>1, <3>3, <3>4
         DEF MailboxStep, Abstract!MailboxNext, Abstract!Fill, Abstract!Move
  <2> QED
    BY <2>2, <2>3
<1>6. CASE EndPush(m)
  <2>1. wpc[m] = "pushing" /\ wpc'[m] = "leaving" /\ queue' = Append(queue, m)
    BY <1>1, <1>6 DEF EndPush, Pushed, Goto, TypeOK, DequeInv, Pushing
  <2>2. \A n \in Msgs : Queued(n)' <=> Queued(n) \/ n = m
    BY <1>1, <2>1, PushBack DEF Queued
  <2>3. life[m] = "live" /\ Filling(m) /\ ~Filling(m)' /\ ~InService(m)
    BY <1>1, <2>1 DEF LifeInv, PlaceInv, Filling, TypeOK
  <2>4. phaseBar[m] = "filling" /\ phaseBar'[m] = "posted"
    BY <1>1, <1>2, <2>2, <2>3, PhaseOf, PhaseOfNext
  <2>5. phaseBar' = [phaseBar EXCEPT ![m] = phaseBar'[m]]
    BY <1>2, <2>2, Moves DEF Same, Filling
  <2> QED
    BY <2>1, <2>4, <2>5
       DEF MailboxStep, Abstract!MailboxNext, Abstract!Post, Abstract!Move
<1> QED
  BY <1>4, <1>5, <1>6 DEF Worker

LEMMA StepIsAbstract ==
    ASSUME Sound, TypeOK', [Next]_vars
    PROVE  MailboxStep
<1>1. ASSUME Tick \/ UNCHANGED vars PROVE MailboxStep
  <2>1. /\ UNCHANGED <<life, wpc, queue>>
        /\ \A m \in Msgs : InService(m)' <=> InService(m)
    BY <1>1 DEF Tick, vars, InService, loopVars, workVars, msgVars, pcVars
  <2> QED
    BY <2>1, Stutters DEF MailboxStep, Same, Filling, Queued
<1> QED
  BY <1>1, LoopIsAbstract, ClientIsAbstract, WorkerIsAbstract DEF Next

-----------------------------------------------------------------------------
(* Until two threads meet in the deque, the loop, its messages and their   *)
(* workers are the mailbox that the resolver and the sockets rely on.      *)
THEOREM MailboxImplemented == Spec => ImplementsMailbox
<1>1. Init => Abstract!MailboxInit
  BY DEF Init, Abstract!MailboxInit, phaseBar
<1>2. Inv /\ Inv' /\ [Next]_vars =>
          [raced' \/ Abstract!MailboxNext]_(Abstract!mailbox)
  <2> SUFFICES ASSUME Inv, Inv', [Next]_vars, ~raced'
               PROVE  Abstract!MailboxNext \/ UNCHANGED Abstract!mailbox
    OBVIOUS
  <2>1. Sound /\ TypeOK'
    BY SoundUntilRaced, RacedStep DEF Inv
  <2> QED
    BY <2>1, StepIsAbstract DEF MailboxStep
<1> QED
  BY <1>1, <1>2, Invariance, PTL DEF Spec, ImplementsMailbox
=============================================================================
