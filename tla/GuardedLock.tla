---------------------------- MODULE GuardedLock ----------------------------
(***************************************************************************)
(* What a CondLock promises (Condition.h): a lock with a flag.  One thread *)
(* holds it at a time; a waiter gets it only when the flag has the value   *)
(* it wants, or when it gave a deadline for its wait; only the holder      *)
(* changes the flag.  Module RunLoop takes its steps to be the times one   *)
(* thread holds such a lock.                                               *)
(***************************************************************************)
CONSTANTS Waiters, Setters, Wanted, Nobody

VARIABLES flag, holder, timed

lock == <<flag, holder, timed>>

LockInit == flag \in BOOLEAN /\ holder = Nobody /\ timed = {}

(* A waiter begins to wait, with a deadline or without one.                *)
Ask(t) ==
    /\ holder # t /\ timed' \in {timed \ {t}, timed \cup {t}}
    /\ UNCHANGED <<flag, holder>>

Acquire(t) ==
    /\ holder = Nobody /\ holder' = t
    /\ t \in Setters \/ flag = Wanted[t] \/ t \in timed
    /\ UNCHANGED <<flag, timed>>

Set(t, val) == holder = t /\ flag' = val /\ UNCHANGED <<holder, timed>>

Leave(t) == holder = t /\ holder' = Nobody /\ UNCHANGED <<flag, timed>>

LockNext ==
    \/ \E t \in Waiters : Ask(t)
    \/ \E t \in Waiters \cup Setters :
           Acquire(t) \/ Leave(t) \/ \E val \in BOOLEAN : Set(t, val)

LockSpec == LockInit /\ [][LockNext]_lock
=============================================================================
