------------------------------ MODULE AddrInfo ------------------------------
(***************************************************************************)
(* The resolver pool of AsyncAddrInfo.cpp: requests for the addresses of a *)
(* host and service, created and destroyed on the loop thread, and the     *)
(* worker threads that call getaddrinfo for them.                          *)
(*                                                                         *)
(* A worker and the loop thread share the result fields of the worker,     *)
(* under its ActiveMsg, which here is a slot of the Mailbox (the run loop  *)
(* implements it: RunLoop!ImplementsMailbox), and the worker's queue of    *)
(* work, under the condition has_work_or_quit, here hasWork.               *)
(*                                                                         *)
(* A request is known to the code by its address only, so it is here: when *)
(* the request at an address is destroyed another may be made there, and   *)
(* a worker that kept the address cannot tell them apart.                  *)
(***************************************************************************)
EXTENDS Mailbox, FiniteSets

CONSTANTS Reqs,     \* the addresses of the AsyncAddrInfo objects
          MaxUses,  \* bound: MaxUses[r]: how many requests are made at r
          Keys,     \* the HostService values
          KeysAt,   \* bound: KeysAt[r]: those that are asked for at r
          Null      \* no request, no key

Workers == Slots    \* the Worker objects; the code makes 2 (line 187)

ASSUME NullAssumption == Null \notin Reqs /\ Null \notin Keys
ASSUME ReqsAssumption ==
    MaxUses \in [Reqs -> Nat] /\ KeysAt \in [Reqs -> SUBSET Keys]
ASSUME WorkersAssumption == IsFiniteSet(Workers)

VARIABLES
    key,        \* key[r]: the host and service of the request at r, if one is
    uses,       \* uses[r]: how many requests were made at r
    answers,    \* answers[r]: how often its delegate was called
    waiting,    \* Impl::waiting_addrs
    free,       \* Impl::free_workers
    working,    \* Impl::working_workers
    addr,       \* Worker::addr
    need,       \* Worker::need_work
    hasWork,    \* Worker::has_work_or_quit.d_
    work,       \* local_work of the worker thread
    res,        \* Worker::res_work, with the res that goes with it
    destroyed,  \* ActiveMsg::destroyed of the worker
    wpc,        \* where the worker thread is
    pc,         \* where the loop thread is
    cur,        \* the request whose delegate is called, unless destroyed
    curW,       \* the worker whose onCall or destructor runs
    abandoned,  \* a request was destroyed while a worker had it
    misused,    \* a destroyed request was used
    late        \* a worker without a request has answered one

reqVars    == <<key, uses, answers>>
poolVars   == <<waiting, free, working>>
workVars   == <<addr, need, hasWork>>
threadVars == <<work, res, wpc, destroyed>>
loopVars   == <<pc, cur, curW>>
ghosts     == <<abandoned, misused, late>>
vars == <<mailbox, reqVars, poolVars, workVars, threadVars, loopVars, ghosts>>

(* A request is at r, between its constructor and its destructor.          *)
Alive(r) == key[r] # Null

(* The user's code runs: around the run loop, or in a delegate's callback. *)
UserRuns == pc \in {"user", "delegate"}

-----------------------------------------------------------------------------
(* What plausible mistakes would make of operators below.                  *)
ReturnsNobody(s, r) == {}
NobodyNext(ws)      == FALSE
AnyAnswer(w)        == TRUE
FillAnyTime(w)      == phase' = [phase EXCEPT ![w] = "filling"] /\ UNCHANGED fifo
NotPopped(w)        == need[w]

-----------------------------------------------------------------------------
Init ==
    /\ MailboxInit
    /\ key = [r \in Reqs |-> Null]
    /\ uses = [r \in Reqs |-> 0] /\ answers = [r \in Reqs |-> 0]
    /\ waiting = <<>> /\ free = <<>> /\ working = <<>>
    /\ addr = [w \in Workers |-> Null] /\ need = [w \in Workers |-> <<>>]
    /\ hasWork = [w \in Workers |-> FALSE]
    /\ work = [w \in Workers |-> Null] /\ res = [w \in Workers |-> Null]
    /\ destroyed = [w \in Workers |-> FALSE]
    /\ wpc = [w \in Workers |-> "none"]
    /\ pc = "user" /\ cur = Null /\ curW = Null
    /\ abandoned = FALSE /\ misused = FALSE /\ late = FALSE

(* assign_work gives the oldest request to the worker at the back of       *)
(* free_workers; ws, fs and os are the requests, the free workers and the  *)
(* working ones it finds.                                                  *)
Assignable(ws) == ws # <<>>

(* Worker::start_work queues the key (that of a request just made is       *)
(* there) and sets the condition.                                          *)
AssignWork(ws, fs, os) ==
    IF Assignable(ws) /\ fs # <<>>
    THEN LET w == Last(fs) r == Head(ws) IN
         /\ waiting' = Tail(ws) /\ free' = Front(fs) /\ working' = Append(os, w)
         /\ addr' = [addr EXCEPT ![w] = r]
         /\ need' = [need EXCEPT ![w] = Append(@, key'[r])]
         /\ hasWork' = [hasWork EXCEPT ![w] = TRUE]
    ELSE /\ waiting' = ws /\ free' = fs /\ working' = os
         /\ UNCHANGED <<addr, need, hasWork>>

(* The first assign_work constructs the workers and starts their threads.  *)
(* They are all alike: one order of the vector stands for the others.      *)
Started == free \o working # <<>>

NewWorkers == CHOOSE ws \in [1 .. Cardinality(Workers) -> Workers] : Range(ws) = Workers

StartWorkers ==
    IF Started
    THEN UNCHANGED <<phase, wpc>>
    ELSE /\ phase' = [w \in Workers |-> "free"]
         /\ wpc' = [w \in Workers |-> "idle"]

(* return_worker_with: every working worker that has r becomes free.       *)
(* cancel_work (line 55) clears its parameter, not the worker's addr.      *)
With(s, r) == {i \in 1 .. Len(s) : addr[s[i]] = r}

(* A worker has at most one request, so the loop of lines 164-172 finds at *)
(* most one: the last of the vector takes its place.                       *)
Without(s, r) ==
    IF With(s, r) = {} THEN s
    ELSE LET i == CHOOSE i \in With(s, r) : TRUE
         IN  Front([s EXCEPT ![i] = Last(s)])

Returned(r) ==
    IF With(working, r) = {} THEN free
    ELSE Append(free, working[CHOOSE i \in With(working, r) : TRUE])

-----------------------------------------------------------------------------
(* The loop thread.                                                        *)

(* The constructor of a request, at an address where none is.              *)
StartResolve(r) ==
    /\ UserRuns /\ ~Alive(r) /\ uses[r] < MaxUses[r]
    /\ \E k \in KeysAt[r] : key' = [key EXCEPT ![r] = k]
    /\ uses' = [uses EXCEPT ![r] = @ + 1]
    /\ StartWorkers
    /\ AssignWork(Append(waiting, r), IF Started THEN free ELSE NewWorkers, working)
    /\ UNCHANGED <<fifo, answers, work, res, destroyed, loopVars, ghosts>>

(* The destructor of a request.                                            *)
CancelResolve(r) ==
    /\ UserRuns /\ Alive(r)
    /\ key' = [key EXCEPT ![r] = Null] /\ answers' = [answers EXCEPT ![r] = 0]
    /\ IF r \in Range(waiting)
       THEN waiting' = Erase(waiting, r) /\ UNCHANGED <<free, working, abandoned>>
       ELSE /\ free' = Returned(r) /\ working' = Without(working, r)
            /\ abandoned' = (abandoned \/ With(working, r) # {})
            /\ UNCHANGED waiting
    /\ cur' = IF cur = r THEN Null ELSE cur
    /\ UNCHANGED <<mailbox, uses, workVars, threadVars, pc, curW,
                   misused, late>>

(* The result of w answers the request it has.                             *)
Answers(w) == key[addr[w]] = res[w]

(* The loop calls Worker::onCall.  addr may be that of a request that is   *)
(* gone.  If none has been made there since, the code reads it anyway, and *)
(* what it does next is undefined (here nothing more); if one has, it is   *)
(* taken for the old one, although it waits or another worker has it.      *)
OnCall(w) ==
    /\ pc = "user" /\ Handle(w)
    /\ curW' = w
    /\ misused' = (misused \/ (addr[w] # Null /\ ~Alive(addr[w])))
    /\ IF addr[w] # Null /\ Alive(addr[w]) /\ Answers(w)
       THEN /\ pc' = "delegate" /\ cur' = addr[w]
            /\ answers' = [answers EXCEPT ![addr[w]] = @ + 1]
            /\ free' = Returned(addr[w]) /\ working' = Without(working, addr[w])
            /\ late' = (late \/ w \notin Range(working))
       ELSE pc' = "after" /\ UNCHANGED <<cur, answers, free, working, late>>
    /\ UNCHANGED <<key, uses, waiting, workVars, threadVars, abandoned>>

(* The delegate's callback returns, and Impl::on_resolved with it.         *)
ReturnDelegate ==
    /\ pc = "delegate"
    /\ pc' = "after" /\ cur' = Null
    /\ UNCHANGED <<mailbox, reqVars, threadVars, curW, ghosts>>
    /\ AssignWork(waiting, free, working)

ReturnCall ==
    /\ pc = "after" /\ Done(curW)
    /\ pc' = "user" /\ curW' = Null
    /\ UNCHANGED <<reqVars, poolVars, workVars, threadVars, cur, ghosts>>

(* The pool is destroyed with the program's static objects: ~Worker of     *)
(* each worker, first requestTermination,                                  *)
Quit(w) ==
    /\ pc \in {"user", "exit"}
    /\ \A r \in Reqs : ~Alive(r)
    /\ wpc[w] # "none" /\ ~destroyed[w] /\ phase[w] # "filling"
    /\ destroyed' = [destroyed EXCEPT ![w] = TRUE]
    /\ pc' = "quit" /\ curW' = w
    /\ UNCHANGED <<mailbox, reqVars, poolVars, workVars, work, res, wpc, cur, ghosts>>

(* then the condition is set, and its mutex held                           *)
LockQuit ==
    /\ pc = "quit"
    /\ hasWork' = [hasWork EXCEPT ![curW] = TRUE]
    /\ pc' = "join"
    /\ UNCHANGED <<mailbox, reqVars, poolVars, addr, need, threadVars, cur, curW, ghosts>>

(* until the thread has ended and the members are destroyed.               *)
JoinQuit ==
    /\ pc = "join" /\ wpc[curW] = "exited"
    /\ Close(curW)
    /\ pc' = "exit" /\ curW' = Null
    /\ UNCHANGED <<reqVars, poolVars, workVars, threadVars, cur, ghosts>>

-----------------------------------------------------------------------------
(* The worker threads: Worker::run.                                        *)

Popped(w) == Tail(need[w])
More(ns)  == ns # <<>>

HoldsWork(w) == pc = "join" /\ curW = w    \* ~Worker has has_work_or_quit

TakeWork(w) ==
    /\ wpc[w] = "idle" /\ hasWork[w] /\ ~HoldsWork(w)
    /\ IF destroyed[w]
       THEN wpc' = [wpc EXCEPT ![w] = "exited"] /\ UNCHANGED <<work, need, hasWork>>
       ELSE /\ wpc' = [wpc EXCEPT ![w] = "resolving"]
            /\ work' = [work EXCEPT ![w] = Head(need[w])]
            /\ need' = [need EXCEPT ![w] = Popped(w)]
            /\ hasWork' = [hasWork EXCEPT ![w] = More(need'[w])]
    /\ UNCHANGED <<mailbox, reqVars, poolVars, addr, res, destroyed, loopVars, ghosts>>

(* getaddrinfo returns, and the ActiveCall waits for the loop to be done   *)
(* with the last result, or throws.                                        *)
TakeSlot(w) == Fill(w)

FillResult(w) ==
    /\ wpc[w] = "resolving" /\ ~destroyed[w] /\ TakeSlot(w)
    /\ res' = [res EXCEPT ![w] = work[w]] /\ work' = [work EXCEPT ![w] = Null]
    /\ wpc' = [wpc EXCEPT ![w] = "filling"]
    /\ UNCHANGED <<reqVars, poolVars, workVars, destroyed, loopVars, ghosts>>

Throw(w) ==
    /\ wpc[w] = "resolving" /\ destroyed[w]
    /\ wpc' = [wpc EXCEPT ![w] = "exited"] /\ work' = [work EXCEPT ![w] = Null]
    /\ UNCHANGED <<mailbox, reqVars, poolVars, workVars, res, destroyed, loopVars,
                   ghosts>>

PostResult(w) ==
    /\ wpc[w] = "filling" /\ Post(w)
    /\ wpc' = [wpc EXCEPT ![w] = "idle"]
    /\ UNCHANGED <<reqVars, poolVars, workVars, work, res, destroyed, loopVars, ghosts>>

Worker(w) == TakeWork(w) \/ FillResult(w) \/ Throw(w) \/ PostResult(w)

-----------------------------------------------------------------------------
LoopStep ==
    \/ ReturnDelegate \/ ReturnCall \/ LockQuit \/ JoinQuit
    \/ \E w \in Workers : OnCall(w)

Next ==
    \/ \E r \in Reqs : StartResolve(r) \/ CancelResolve(r)
    \/ \E w \in Workers : Quit(w) \/ Worker(w)
    \/ LoopStep

Spec == Init /\ [][Next]_vars

(* getaddrinfo returns, callbacks return, the loop and the threads run.    *)
FairSpec ==
    /\ Spec /\ WF_vars(LoopStep) /\ \A w \in Workers : WF_vars(Worker(w))

-----------------------------------------------------------------------------
(* The type of the variables.  The two vectors hold each worker once, or   *)
(* none is started.                                                        *)
TypeOK ==
    /\ MailboxTypeOK
    /\ key \in [Reqs -> Keys \cup {Null}]
    /\ uses \in [Reqs -> Nat] /\ answers \in [Reqs -> Nat]
    /\ waiting \in Seq(Reqs)
    /\ Range(free \o working) \in {{}, Workers} /\ Distinct(free \o working)
    /\ addr \in [Workers -> Reqs \cup {Null}] /\ need \in [Workers -> Seq(Keys)]
    /\ hasWork \in [Workers -> BOOLEAN] /\ destroyed \in [Workers -> BOOLEAN]
    /\ work \in [Workers -> Keys \cup {Null}] /\ res \in [Workers -> Keys \cup {Null}]
    /\ wpc \in [Workers -> {"none", "idle", "resolving", "filling", "exited"}]
    /\ pc \in {"user", "delegate", "after", "quit", "join", "exit"}
    /\ cur \in Reqs \cup {Null} /\ curW \in Workers \cup {Null}

(* Worker::run takes the front of need_work without looking (line 96): it  *)
(* is not empty when the condition is true and the worker is not to quit.  *)
NoEmptyFront ==
    \A w \in Workers : hasWork[w] /\ ~destroyed[w] => need[w] # <<>>

(* A request is in the waiting list or with one working worker and never   *)
(* in two places, nothing destroyed is there, and nothing unanswered is    *)
(* missing, whatever late results answer (lines 79-82).  What is answered  *)
(* is gone from there, as long as no late result has answered a request    *)
(* that its worker did not have.                                           *)
Conserved ==
    /\ TypeOK /\ NoEmptyFront
    /\ \A r \in Reqs :
           LET places == {i \in 1 .. Len(waiting) : waiting[i] = r}
               n == Cardinality(places) + Cardinality(With(working, r))
           IN  /\ n <= 1
               /\ ~Alive(r) => n = 0
               /\ Alive(r) /\ answers[r] = 0 => n = 1
               /\ ~late /\ answers[r] > 0 => n = 0

(* A delegate gets the addresses of its own request's host, whatever the   *)
(* worker resolved before, for this request or another one that was at its *)
(* address (line 79).                                                      *)
RightAnswer == pc = "delegate" /\ cur # Null => res[curW] = key[cur]

(* The result stays what it is while the delegate looks at it, although    *)
(* the worker may already be given the next request (lines 128-132).       *)
ResultStable == [][pc = "delegate" => res'[curW] = res[curW]]_vars

(* No dead request is used and no worker answers without having a request, *)
(* as long as no request is destroyed while a worker has it; and a request *)
(* gets one answer, as long as no such late one comes.                     *)
OneAnswer ==
    /\ ~abandoned => ~misused /\ ~late
    /\ ~late => \A r \in Reqs : answers[r] <= 1

(* A request gets its answer, as long as none was taken from a worker:     *)
(* cancel_resolve does not assign the worker it makes free.                *)
Served ==
    \A r \in Reqs :
        Alive(r) ~> (answers[r] > 0 \/ ~Alive(r) \/ abandoned)

(* Line 60: only a getaddrinfo that does not return keeps ~Worker from     *)
(* ending; lines 93-95: has_work_or_quit lets the thread out.              *)
QuitEnds == pc = "join" ~> pc # "join"
=============================================================================
