------------------------------ MODULE CondVar ------------------------------
(***************************************************************************)
(* CondVar and CondLock (Condition.h) over a pthread mutex and condition   *)
(* variable (Mutex.h, POSIX.cpp): a mutex that is taken only when a flag   *)
(* has a wanted value, or when a deadline has passed.                      *)
(*                                                                         *)
(* A thread takes the lock in one of the three ways CondLock's             *)
(* constructors offer; a waiter gives a deadline or none, each time anew.  *)
(* The pthread calls are modelled from what the code relies on: wait       *)
(* releases the mutex and sleeps in one step, may end without a signal,    *)
(* and takes the mutex again; signal wakes one sleeper, and is lost when   *)
(* there is none.                                                          *)
(***************************************************************************)
EXTENDS Integers, FiniteSets

CONSTANTS Waiters,    \* threads that take the lock when the flag is Wanted
          Setters,    \* threads that take the lock whatever the flag is
          Wanted,     \* Wanted[t]: the value the waiter t waits for
          Nobody      \* the mutex has no owner

Threads == Waiters \cup Setters

ASSUME RolesAssumption ==
    /\ Waiters \cap Setters = {} /\ Nobody \notin Threads
    /\ Wanted \in [Waiters -> BOOLEAN]

VARIABLES
    d,        \* CondVar::d_
    owner,    \* the owner of CondVar::m_
    asleep,   \* the threads in pthread_cond_wait that nothing has woken
    timed,    \* the waiters that gave a deadline for this wait
    expired,  \* expired[t]: pthread_cond_timedwait returned ETIMEDOUT to t
    tpc       \* tpc[t]: where the thread t is

deadlines == <<timed, expired>>
condVars == <<d, owner, asleep, deadlines, tpc>>

(* "out" of the lock; "asks" for the mutex; "tests" the flag with it;      *)
(* "sleeps", or is about to take the mutex again; "in" the critical        *)
(* section; "set": has written the flag there and signals it next.         *)
ThreadPCs == {"out", "asks", "tests", "sleeps", "in", "set"}

CondTypeOK ==
    /\ d \in BOOLEAN /\ owner \in Threads \cup {Nobody}
    /\ asleep \in SUBSET Waiters /\ timed \in SUBSET Waiters
    /\ expired \in [Threads -> BOOLEAN]
    /\ tpc \in [Threads -> ThreadPCs]
    /\ \A t \in asleep : tpc[t] = "sleeps"
    /\ \A t \in Threads : tpc[t] \in {"tests", "in", "set"} <=> owner = t

-----------------------------------------------------------------------------
(* What plausible mistakes would make of operators below.                  *)
NotTestedAgain(t) == "in"
WakesNobody(t)    == UNCHANGED asleep

-----------------------------------------------------------------------------
CondInit ==
    /\ d \in BOOLEAN /\ owner = Nobody /\ asleep = {}
    /\ timed = {} /\ expired = [t \in Threads |-> FALSE]
    /\ tpc = [t \in Threads |-> "out"]

Goto(t, from, to) == tpc[t] = from /\ tpc' = [tpc EXCEPT ![t] = to]

(* A constructor of CondLock: Lock::Lock calls pthread_mutex_lock.         *)
Begin(t) ==
    /\ Goto(t, "out", "asks")
    /\ timed' \in {timed \ {t}, (timed \cup {t}) \cap Waiters}
    /\ expired' = [expired EXCEPT ![t] = FALSE]
    /\ UNCHANGED <<d, owner, asleep>>

Take(t) == owner = Nobody /\ owner' = t

Lock(t) ==
    /\ Goto(t, "asks", IF t \in Waiters THEN "tests" ELSE "in") /\ Take(t)
    /\ UNCHANGED <<d, asleep, deadlines>>

(* CondLock::wait: the loop's condition.                                   *)
Satisfied(t) == d = Wanted[t]

Enter(t) ==
    /\ Satisfied(t) \/ expired[t]
    /\ Goto(t, "tests", "in")
    /\ UNCHANGED <<d, owner, asleep, deadlines>>

(* pthread_cond_wait and pthread_cond_timedwait: the mutex is released.    *)
Sleep(t) ==
    /\ ~Satisfied(t) /\ ~expired[t]
    /\ Goto(t, "tests", "sleeps") /\ owner' = Nobody
    /\ asleep' = asleep \cup {t}
    /\ UNCHANGED <<d, deadlines>>

(* The deadline passes, or the wait ends for no reason.                    *)
Expire(t) ==
    /\ t \in asleep \cap timed
    /\ expired' = [expired EXCEPT ![t] = TRUE] /\ asleep' = asleep \ {t}
    /\ UNCHANGED <<d, owner, timed, tpc>>

WakeForNothing(t) ==
    /\ t \in asleep /\ asleep' = asleep \ {t}
    /\ UNCHANGED <<d, owner, deadlines, tpc>>

(* A thread that was woken has the mutex again, and tests the flag; one    *)
(* whose deadline has passed returns without a test.                       *)
AfterWait(t) == IF expired[t] THEN "in" ELSE "tests"

Resume(t) ==
    /\ t \notin asleep /\ Goto(t, "sleeps", AfterWait(t)) /\ Take(t)
    /\ UNCHANGED <<d, asleep, deadlines>>

(* CondLock::set writes the flag and then signals.                         *)
Write(t, val) ==
    /\ Goto(t, "in", "set") /\ d' = val
    /\ UNCHANGED <<owner, asleep, deadlines>>

(* pthread_cond_signal.                                                    *)
Wake(t) ==
    \/ asleep = {} /\ UNCHANGED asleep
    \/ \E u \in asleep : asleep' = asleep \ {u}

Signal(t) ==
    /\ Goto(t, "set", "in") /\ Wake(t)
    /\ UNCHANGED <<d, owner, deadlines>>

(* The destructor of the CondLock.                                         *)
Unlock(t) ==
    /\ Goto(t, "in", "out") /\ owner' = Nobody
    /\ UNCHANGED <<d, asleep, deadlines>>

Step(t) ==
    \/ Lock(t) \/ Resume(t) \/ Signal(t) \/ Unlock(t)
    \/ t \in Waiters /\ (Enter(t) \/ Sleep(t))

CondNext ==
    \E t \in Threads :
        \/ Begin(t) \/ Step(t) \/ Expire(t) \/ WakeForNothing(t)
        \/ \E val \in BOOLEAN : Write(t, val)

CondSpec == CondInit /\ [][CondNext]_condVars

(* The system runs a thread that can run, and gives it the mutex when it   *)
(* stays free; nothing is assumed of who gets a mutex many ask for, of the *)
(* deadlines, or of how often threads come back.                           *)
FairSpec == CondSpec /\ \A t \in Threads : WF_condVars(Step(t))

-----------------------------------------------------------------------------
(* The lock is the guarded lock: what a thread has while it tests the flag *)
(* is not the lock yet.                                                    *)
holderBar ==
    IF owner # Nobody /\ tpc[owner] \in {"in", "set"} THEN owner ELSE Nobody

Abstract == INSTANCE GuardedLock WITH flag <- d, holder <- holderBar

ImplementsGuardedLock == Abstract!LockSpec

(* No waiter is left asleep on a flag that has its value, although set     *)
(* wakes a single thread (POSIX.cpp:85-87): somebody is about to signal.   *)
(* It holds of one waiter, which is all the code ever has on a CondVar.    *)
NoSleeperForgotten ==
    CondTypeOK /\ \A t \in asleep : d = Wanted[t] => \E u \in Threads : tpc[u] = "set"

(* A thread that wants the flag as it is, and as it stays, gets the lock   *)
(* once the others keep away from it.                                      *)
FlagEndsWait ==
    \A t \in Waiters :
        <>[](d = Wanted[t] /\ \A u \in Threads \ {t} : tpc[u] = "out")
            => []<>(tpc[t] \in {"in", "set", "out"})
=============================================================================
