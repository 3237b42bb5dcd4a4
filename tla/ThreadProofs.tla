--------------------------- MODULE ThreadProofs ---------------------------
(***************************************************************************)
(* Proofs about the modules whose threads share memory and nothing else.   *)
(* CondVar: for any number of threads it implements the guarded lock, and  *)
(* for one waiter no signal is missed.  SharedPtr: for any finite sets of  *)
(* handles the counters count, who holds a SharedPtr holds a live object,  *)
(* and what nobody uses is reclaimed.                                      *)
(***************************************************************************)
EXTENDS CondVar, SharedPtr, FiniteSetTheorems, TLAPS

-----------------------------------------------------------------------------
(* CondVar.                                                                *)

(* A wait ends by a deadline only when one was given.                      *)
ExpiredInv == \A t \in Threads : expired[t] => t \in timed

LockInv == CondTypeOK /\ ExpiredInv

LEMMA InitLockInv == CondInit => LockInv
BY RolesAssumption DEF CondInit, LockInv, CondTypeOK, ExpiredInv, ThreadPCs

(* Types, and with them mutual exclusion: the owner of the mutex is the    *)
(* one thread that is where a thread has it.                               *)
LEMMA LockInvStep == LockInv /\ [CondNext]_condVars => LockInv'
<1> SUFFICES ASSUME LockInv, [CondNext]_condVars PROVE LockInv'
  OBVIOUS
<1> USE RolesAssumption DEF LockInv, CondTypeOK, ExpiredInv, ThreadPCs, Threads, Goto, deadlines
<1>1. ASSUME NEW t \in Threads, Begin(t) PROVE LockInv'
  BY <1>1 DEF Begin
<1>2. ASSUME NEW t \in Threads, Lock(t) PROVE LockInv'
  BY <1>2 DEF Lock, Take
<1>3. ASSUME NEW t \in Threads, Resume(t) PROVE LockInv'
  BY <1>3 DEF Resume, Take, AfterWait
<1>4. ASSUME NEW t \in Threads, Signal(t) PROVE LockInv'
  BY <1>4 DEF Signal, Wake
<1>5. ASSUME NEW t \in Threads, Unlock(t) PROVE LockInv'
  BY <1>5 DEF Unlock
<1>6. ASSUME NEW t \in Waiters, Enter(t) PROVE LockInv'
  BY <1>6 DEF Enter
<1>7. ASSUME NEW t \in Waiters, Sleep(t) PROVE LockInv'
  BY <1>7 DEF Sleep
<1>8. ASSUME NEW t \in Threads, Expire(t) PROVE LockInv'
  BY <1>8 DEF Expire
<1>9. ASSUME NEW t \in Threads, WakeForNothing(t) PROVE LockInv'
  BY <1>9 DEF WakeForNothing
<1>10. ASSUME NEW t \in Threads, NEW val \in BOOLEAN, Write(t, val) PROVE LockInv'
  BY <1>10 DEF Write
<1>11. CASE UNCHANGED condVars
  BY <1>11 DEF condVars
<1> QED
  BY <1>1, <1>2, <1>3, <1>4, <1>5, <1>6, <1>7, <1>8, <1>9, <1>10, <1>11 DEF CondNext, Step

LEMMA LockInvariant == CondSpec => []LockInv
BY InitLockInv, LockInvStep, PTL DEF CondSpec

-----------------------------------------------------------------------------
(* Every step of the threads is a step of the guarded lock, or none.       *)
LEMMA StepIsAbstract ==
    LockInv /\ LockInv' /\ [CondNext]_condVars => [Abstract!LockNext]_(Abstract!lock)
<1> SUFFICES ASSUME LockInv, LockInv', [CondNext]_condVars
             PROVE  Abstract!LockNext \/ UNCHANGED Abstract!lock
  OBVIOUS
<1> USE RolesAssumption
    DEF LockInv, CondTypeOK, ExpiredInv, Threads, Goto, deadlines, holderBar, Abstract!lock
<1>1. ASSUME NEW t \in Waiters, Begin(t) PROVE Abstract!Ask(t)
  BY <1>1 DEF Begin, Abstract!Ask
<1>2. ASSUME NEW t \in Setters, Begin(t) PROVE UNCHANGED Abstract!lock
  BY <1>2 DEF Begin
<1>3. ASSUME NEW t \in Waiters, Lock(t) PROVE UNCHANGED Abstract!lock
  BY <1>3 DEF Lock, Take
<1>4. ASSUME NEW t \in Setters, Lock(t) PROVE Abstract!Acquire(t)
  BY <1>4 DEF Lock, Take, Abstract!Acquire
<1>5. ASSUME NEW t \in Waiters, Enter(t) PROVE Abstract!Acquire(t)
  BY <1>5 DEF Enter, Satisfied, Abstract!Acquire
<1>6. ASSUME NEW t \in Waiters, Sleep(t) PROVE UNCHANGED Abstract!lock
  BY <1>6 DEF Sleep
<1>7. ASSUME NEW t \in Threads, Expire(t) \/ WakeForNothing(t) PROVE UNCHANGED Abstract!lock
  BY <1>7 DEF Expire, WakeForNothing
<1>8. ASSUME NEW t \in Threads, Resume(t), expired[t] PROVE Abstract!Acquire(t)
  BY <1>8 DEF Resume, AfterWait, Take, Abstract!Acquire
<1>9. ASSUME NEW t \in Threads, Resume(t), ~expired[t] PROVE UNCHANGED Abstract!lock
  BY <1>9 DEF Resume, AfterWait, Take
<1>10. ASSUME NEW t \in Threads, NEW val \in BOOLEAN, Write(t, val) PROVE Abstract!Set(t, val)
  BY <1>10 DEF Write, Abstract!Set
<1>11. ASSUME NEW t \in Threads, Signal(t) PROVE UNCHANGED Abstract!lock
  BY <1>11 DEF Signal
<1>12. ASSUME NEW t \in Threads, Unlock(t) PROVE Abstract!Leave(t)
  BY <1>12 DEF Unlock, Abstract!Leave
<1>13. CASE UNCHANGED condVars
  BY <1>13 DEF condVars
<1>14. CASE CondNext
  <2>1. PICK t \in Threads :
            \/ Begin(t) \/ Step(t) \/ Expire(t) \/ WakeForNothing(t)
            \/ \E val \in BOOLEAN : Write(t, val)
    BY <1>14 DEF CondNext
  <2>2. CASE Begin(t)
    BY <2>2, <1>1, <1>2 DEF Abstract!LockNext
  <2>3. CASE Lock(t)
    BY <2>3, <1>3, <1>4 DEF Abstract!LockNext
  <2>4. CASE Resume(t)
    BY <2>4, <1>8, <1>9 DEF Abstract!LockNext
  <2>5. CASE Signal(t)
    BY <2>5, <1>11
  <2>6. CASE Unlock(t)
    BY <2>6, <1>12 DEF Abstract!LockNext
  <2>7. CASE t \in Waiters /\ (Enter(t) \/ Sleep(t))
    BY <2>7, <1>5, <1>6 DEF Abstract!LockNext
  <2>8. CASE Expire(t) \/ WakeForNothing(t)
    BY <2>8, <1>7
  <2>9. CASE \E val \in BOOLEAN : Write(t, val)
    BY <2>9, <1>10 DEF Abstract!LockNext
  <2> QED
    BY <2>1, <2>2, <2>3, <2>4, <2>5, <2>6, <2>7, <2>8, <2>9 DEF Step
<1> QED
  BY <1>13, <1>14

(* A CondLock is what the other modules take it for: one holder, that got  *)
(* the lock with the flag it wanted or past a deadline it gave.            *)
THEOREM GuardedLockImplemented == CondSpec => ImplementsGuardedLock
<1>1. CondInit => Abstract!LockInit
  BY DEF CondInit, Abstract!LockInit, holderBar
<1> QED
  BY <1>1, LockInvariant, StepIsAbstract, PTL
  DEF CondSpec, ImplementsGuardedLock, Abstract!LockSpec

-----------------------------------------------------------------------------
(* The code has one waiter on each condition: the loop on its own, the     *)
(* thread of a worker on those of its message and of its work.             *)
OneWaiter == \A t, u \in Waiters : t = u

LEMMA SleeperStep ==
    ASSUME OneWaiter, LockInv, LockInv', NoSleeperForgotten, [CondNext]_condVars
    PROVE  NoSleeperForgotten'
<1> USE RolesAssumption
    DEF OneWaiter, LockInv, CondTypeOK, NoSleeperForgotten, Threads, Goto, deadlines
<1>1. ASSUME NEW t \in Threads, Begin(t) \/ Lock(t) \/ Resume(t) \/ Unlock(t)
      PROVE  NoSleeperForgotten'
  BY <1>1 DEF Begin, Lock, Resume, Unlock, Take, AfterWait
<1>2. ASSUME NEW t \in Threads, Signal(t) PROVE NoSleeperForgotten'
  <2>1. asleep' = {}
    BY <1>2 DEF Signal, Wake
  <2> QED
    BY <2>1
<1>3. ASSUME NEW t \in Waiters, Enter(t) \/ Sleep(t) PROVE NoSleeperForgotten'
  BY <1>3 DEF Enter, Sleep, Satisfied
<1>4. ASSUME NEW t \in Threads, Expire(t) \/ WakeForNothing(t) PROVE NoSleeperForgotten'
  BY <1>4 DEF Expire, WakeForNothing
<1>5. ASSUME NEW t \in Threads, NEW val \in BOOLEAN, Write(t, val) PROVE NoSleeperForgotten'
  BY <1>5 DEF Write
<1>6. CASE UNCHANGED condVars
  BY <1>6 DEF condVars
<1> QED
  BY <1>1, <1>2, <1>3, <1>4, <1>5, <1>6 DEF CondNext, Step

(* With one waiter a single signal is enough, whatever the others do.      *)
THEOREM NoSleeperForgottenHolds ==
    ASSUME OneWaiter
    PROVE  CondSpec => []NoSleeperForgotten
<1>1. CondInit => NoSleeperForgotten
  BY InitLockInv DEF CondInit, NoSleeperForgotten, LockInv
<1>2. LockInv /\ LockInv' /\ NoSleeperForgotten /\ [CondNext]_condVars => NoSleeperForgotten'
  BY SleeperStep
<1> QED
  BY <1>1, <1>2, LockInvariant, PTL DEF CondSpec
-----------------------------------------------------------------------------
(* SharedPtr.                                                              *)

(* Before the object there is nothing, and a block has an object.          *)
LifeInv ==
    /\ object = "none" <=> block = "none"
    /\ object = "none" => Handles = {} /\ lost = 0

(* A lock() that saw itself alone came after the last SharedPtr; one that  *)
(* saw a reference, and no other lock(), keeps the object alive by its     *)
(* own count.                                                              *)
ProbeInv ==
    Counting =>
        \A w \in Probing :
            /\ seen[w] = 1 => object = "deleted"
            /\ ~overlapped /\ seen[w] # 1 => object = "alive"

(* A block that is there has a count above 0.                              *)
BlockInv == Counting => wc # 0

PtrInv == TypeOK /\ CountsMatch /\ HeldIsAlive /\ Reclaimed /\ LifeInv /\ ProbeInv /\ BlockInv

-----------------------------------------------------------------------------
(* Sets of handles and how they grow and shrink.                           *)
LEMMA NumberOf ==
    ASSUME NEW S, IsFiniteSet(S)
    PROVE  Cardinality(S) \in Nat /\ (Cardinality(S) = 0 <=> S = {})
BY FS_CardinalityType, FS_EmptySet

LEMMA OneMore ==
    ASSUME NEW S, IsFiniteSet(S), NEW x, x \notin S
    PROVE  Cardinality(S \cup {x}) = Cardinality(S) + 1
BY FS_AddElement

LEMMA OneLess ==
    ASSUME NEW S, IsFiniteSet(S), NEW x \in S
    PROVE  Cardinality(S \ {x}) = Cardinality(S) - 1
BY FS_RemoveElement

LEMMA FiniteHandles == IsFiniteSet(Held) /\ IsFiniteSet(Probing) /\ IsFiniteSet(Handles)
<1>1. IsFiniteSet(Held)
  BY HandlesAssumption, FS_Subset, Held \subseteq Strong DEF Held
<1>2. IsFiniteSet(Probing)
  BY HandlesAssumption, FS_Subset, Probing \subseteq Weak DEF Probing
<1>3. IsFiniteSet(Strong \cup Weak)
  BY HandlesAssumption, FS_Union
<1>4. IsFiniteSet(Handles)
  BY <1>3, FS_Subset, Handles \subseteq (Strong \cup Weak) DEF Handles
<1> QED
  BY <1>1, <1>2, <1>4

(* What the counters compare with, as numbers.                             *)
NumHeld    == Cardinality(Held)
NumProbing == Cardinality(Probing)
NumHandles == Cardinality(Handles)

NumbersOK ==
    /\ NumHeld \in Nat /\ NumProbing \in Nat /\ NumHandles \in Nat
    /\ NumHeld = 0 <=> Held = {}
    /\ NumProbing = 0 <=> Probing = {}
    /\ NumHandles = 0 <=> Handles = {}

LEMMA Numbers == NumbersOK
BY FiniteHandles, NumberOf DEF NumbersOK, NumHeld, NumProbing, NumHandles

LEMMA NumbersNext == NumbersOK'
BY Numbers, PTL

-----------------------------------------------------------------------------
LEMMA InitPtrInv == Init => PtrInv
<1> SUFFICES ASSUME Init PROVE PtrInv
  OBVIOUS
<1>1. Held = {} /\ Probing = {} /\ Handles = {}
  BY DEF Init, Held, Probing, Handles
<1> QED
  BY <1>1 DEF Init, PtrInv, CountsMatch, TypeOK, Counting, HeldIsAlive, Reclaimed,
              ObjectReclaimed, BlockReclaimed, LifeInv, ProbeInv, BlockInv

(* A step changes each set of handles by one at most, and the counters    *)
(* with it.                                                                *)
LEMMA PtrInvStep == PtrInv /\ [Next]_vars => PtrInv'
<1> SUFFICES ASSUME PtrInv, [Next]_vars PROVE PtrInv'
  OBVIOUS
<1>a. Counting => sc = NumHeld + NumProbing /\ wc = NumHandles - lost
  BY DEF PtrInv, CountsMatch, NumHeld, NumProbing, NumHandles
<1> USE DEF PtrInv, TypeOK
<1>1. ASSUME NEW s \in Strong, New(s) PROVE PtrInv'
  <2>0. Held = {} /\ Probing = {} /\ Handles = {}
    BY <1>1 DEF New, LifeInv, Held, Probing, Handles
  <2>1. Held' = Held \cup {s} /\ s \notin Held
    BY <1>1, <2>0, HandlesAssumption DEF New, Hold, Held
  <2>2. Probing' = Probing
    BY <1>1, HandlesAssumption DEF New, Hold, Probing
  <2>3. Handles' = Handles \cup {s} /\ s \notin Handles
    BY <1>1, <2>0, HandlesAssumption DEF New, Hold, Handles
  <2>4. NumHeld' = NumHeld + 1 /\ NumProbing' = NumProbing /\ NumHandles' = NumHandles + 1
    BY <2>1, <2>2, <2>3, FiniteHandles, OneMore, OneLess DEF NumHeld, NumProbing, NumHandles
  <2>5. TypeOK' /\ BlockInv' /\ LifeInv'
    BY <1>1, <1>a, <2>0, <2>4, Numbers DEF New, Hold, NumbersOK, Counting, LifeInv, BlockInv
  <2>6. (Counting => sc = NumHeld + NumProbing /\ wc = NumHandles - lost)'
    BY <1>1, <1>a, <2>0, <2>4, Numbers DEF New, Hold, NumbersOK, Counting, LifeInv
  <2>7. HeldIsAlive' /\ ObjectReclaimed' /\ ProbeInv'
    BY <1>1, <1>a, <2>0, <2>1, <2>2, <2>4, <2>6, Numbers, NumbersNext
    DEF New, Hold, NumbersOK, Counting, HeldIsAlive, Reclaimed, ObjectReclaimed, LifeInv, ProbeInv
  <2>8. BlockReclaimed'
    BY <1>1, <1>a, <2>0, <2>3, <2>4, <2>5, <2>6, Numbers, NumbersNext
    DEF New, Hold, NumbersOK, Counting, Reclaimed, BlockReclaimed, LifeInv, BlockInv
  <2> QED
    BY <2>5, <2>6, <2>7, <2>8 DEF Reclaimed, CountsMatch, NumHeld, NumProbing, NumHandles
<1>2. ASSUME NEW s \in Strong, NEW t \in Strong, CopyStrong(s, t) PROVE PtrInv'
  <2>0. s \in Held /\ s \in Handles /\ object # "none"
    BY <1>2 DEF CopyStrong, Held, Probing, Handles, LifeInv
  <2>1. Held' = Held \cup {t} /\ t \notin Held
    BY <1>2, HandlesAssumption DEF CopyStrong, Hold, AttachedStrong, AttachedWeak, Held
  <2>2. Probing' = Probing
    BY <1>2, HandlesAssumption DEF CopyStrong, Hold, AttachedStrong, AttachedWeak, Probing
  <2>3. Handles' = Handles \cup {t} /\ t \notin Handles
    BY <1>2, HandlesAssumption DEF CopyStrong, Hold, AttachedStrong, AttachedWeak, Handles
  <2>4. NumHeld' = NumHeld + 1 /\ NumProbing' = NumProbing /\ NumHandles' = NumHandles + 1
    BY <2>1, <2>2, <2>3, FiniteHandles, OneMore, OneLess DEF NumHeld, NumProbing, NumHandles
  <2>5. TypeOK' /\ BlockInv' /\ LifeInv'
    BY <1>2, <1>a, <2>0, <2>4, Numbers DEF CopyStrong, Hold, AttachedStrong, AttachedWeak, NumbersOK, Counting, LifeInv, BlockInv
  <2>6. (Counting => sc = NumHeld + NumProbing /\ wc = NumHandles - lost)'
    BY <1>2, <1>a, <2>0, <2>4, Numbers DEF CopyStrong, Hold, AttachedStrong, AttachedWeak, NumbersOK, Counting, LifeInv
  <2>7. HeldIsAlive' /\ ObjectReclaimed' /\ ProbeInv'
    BY <1>2, <1>a, <2>0, <2>1, <2>2, <2>4, <2>6, Numbers, NumbersNext
    DEF CopyStrong, Hold, AttachedStrong, AttachedWeak, NumbersOK, Counting, HeldIsAlive, Reclaimed, ObjectReclaimed, LifeInv, ProbeInv
  <2>8. BlockReclaimed'
    BY <1>2, <1>a, <2>0, <2>3, <2>4, <2>5, <2>6, Numbers, NumbersNext
    DEF CopyStrong, Hold, AttachedStrong, AttachedWeak, NumbersOK, Counting, Reclaimed, BlockReclaimed, LifeInv, BlockInv
  <2> QED
    BY <2>5, <2>6, <2>7, <2>8 DEF Reclaimed, CountsMatch, NumHeld, NumProbing, NumHandles
<1>3. ASSUME NEW s \in Strong, NEW w \in Weak, Watch(s, w) PROVE PtrInv'
  <2>0. s \in Held /\ s \in Handles /\ object # "none"
    BY <1>3 DEF Watch, Held, Probing, Handles, LifeInv
  <2>1. Held' = Held
    BY <1>3, HandlesAssumption DEF Watch, Set, AttachedWeak, Held
  <2>2. Probing' = Probing
    BY <1>3, HandlesAssumption DEF Watch, Set, AttachedWeak, Probing
  <2>3. Handles' = Handles \cup {w} /\ w \notin Handles
    BY <1>3, HandlesAssumption DEF Watch, Set, AttachedWeak, Handles
  <2>4. NumHeld' = NumHeld /\ NumProbing' = NumProbing /\ NumHandles' = NumHandles + 1
    BY <2>1, <2>2, <2>3, FiniteHandles, OneMore, OneLess DEF NumHeld, NumProbing, NumHandles
  <2>5. TypeOK' /\ BlockInv' /\ LifeInv'
    BY <1>3, <1>a, <2>0, <2>4, Numbers DEF Watch, Set, AttachedWeak, NumbersOK, Counting, LifeInv, BlockInv
  <2>6. (Counting => sc = NumHeld + NumProbing /\ wc = NumHandles - lost)'
    BY <1>3, <1>a, <2>0, <2>4, Numbers DEF Watch, Set, AttachedWeak, NumbersOK, Counting, LifeInv
  <2>7. HeldIsAlive' /\ ObjectReclaimed' /\ ProbeInv'
    BY <1>3, <1>a, <2>0, <2>1, <2>2, <2>4, <2>6, Numbers, NumbersNext
    DEF Watch, Set, AttachedWeak, NumbersOK, Counting, HeldIsAlive, Reclaimed, ObjectReclaimed, LifeInv, ProbeInv
  <2>8. BlockReclaimed'
    BY <1>3, <1>a, <2>0, <2>3, <2>4, <2>5, <2>6, Numbers, NumbersNext
    DEF Watch, Set, AttachedWeak, NumbersOK, Counting, Reclaimed, BlockReclaimed, LifeInv, BlockInv
  <2> QED
    BY <2>5, <2>6, <2>7, <2>8 DEF Reclaimed, CountsMatch, NumHeld, NumProbing, NumHandles
<1>4. ASSUME NEW v \in Weak, NEW w \in Weak, CopyWeak(v, w) PROVE PtrInv'
  <2>0. v \in Handles /\ object # "none"
    BY <1>4 DEF CopyWeak, Held, Probing, Handles, LifeInv
  <2>1. Held' = Held
    BY <1>4, HandlesAssumption DEF CopyWeak, Set, AttachedWeak, Held
  <2>2. Probing' = Probing
    BY <1>4, HandlesAssumption DEF CopyWeak, Set, AttachedWeak, Probing
  <2>3. Handles' = Handles \cup {w} /\ w \notin Handles
    BY <1>4, HandlesAssumption DEF CopyWeak, Set, AttachedWeak, Handles
  <2>4. NumHeld' = NumHeld /\ NumProbing' = NumProbing /\ NumHandles' = NumHandles + 1
    BY <2>1, <2>2, <2>3, FiniteHandles, OneMore, OneLess DEF NumHeld, NumProbing, NumHandles
  <2>5. TypeOK' /\ BlockInv' /\ LifeInv'
    BY <1>4, <1>a, <2>0, <2>4, Numbers DEF CopyWeak, Set, AttachedWeak, NumbersOK, Counting, LifeInv, BlockInv
  <2>6. (Counting => sc = NumHeld + NumProbing /\ wc = NumHandles - lost)'
    BY <1>4, <1>a, <2>0, <2>4, Numbers DEF CopyWeak, Set, AttachedWeak, NumbersOK, Counting, LifeInv
  <2>7. HeldIsAlive' /\ ObjectReclaimed' /\ ProbeInv'
    BY <1>4, <1>a, <2>0, <2>1, <2>2, <2>4, <2>6, Numbers, NumbersNext
    DEF CopyWeak, Set, AttachedWeak, NumbersOK, Counting, HeldIsAlive, Reclaimed, ObjectReclaimed, LifeInv, ProbeInv
  <2>8. BlockReclaimed'
    BY <1>4, <1>a, <2>0, <2>3, <2>4, <2>5, <2>6, Numbers, NumbersNext
    DEF CopyWeak, Set, AttachedWeak, NumbersOK, Counting, Reclaimed, BlockReclaimed, LifeInv, BlockInv
  <2> QED
    BY <2>5, <2>6, <2>7, <2>8 DEF Reclaimed, CountsMatch, NumHeld, NumProbing, NumHandles
<1>5. ASSUME NEW s \in Strong, DropStrong(s) PROVE PtrInv'
  <2>0. s \in Held /\ s \in Handles /\ object # "none"
    BY <1>5 DEF DropStrong, Held, Probing, Handles, LifeInv
  <2>1. Held' = Held \ {s} /\ s \in Held
    BY <1>5, HandlesAssumption DEF DropStrong, Hold, DetachStrong, LastOut, Held
  <2>2. Probing' = Probing
    BY <1>5, HandlesAssumption DEF DropStrong, Hold, DetachStrong, LastOut, Probing
  <2>3. Handles' = Handles
    BY <1>5, HandlesAssumption DEF DropStrong, Hold, DetachStrong, LastOut, Handles
  <2>4. NumHeld' = NumHeld - 1 /\ NumProbing' = NumProbing /\ NumHandles' = NumHandles
    BY <2>1, <2>2, <2>3, FiniteHandles, OneMore, OneLess DEF NumHeld, NumProbing, NumHandles
  <2>5. TypeOK' /\ BlockInv' /\ LifeInv'
    BY <1>5, <1>a, <2>0, <2>4, Numbers DEF DropStrong, Hold, DetachStrong, LastOut, NumbersOK, Counting, LifeInv, BlockInv
  <2>6. (Counting => sc = NumHeld + NumProbing /\ wc = NumHandles - lost)'
    BY <1>5, <1>a, <2>0, <2>4, Numbers DEF DropStrong, Hold, DetachStrong, LastOut, NumbersOK, Counting, LifeInv
  <2>7. HeldIsAlive' /\ ObjectReclaimed' /\ ProbeInv'
    <3>1. block \in {"allocated", "freed"} /\ (block = "freed" => lost > 0)
      BY <2>0 DEF LifeInv, Reclaimed, BlockReclaimed
    <3>2. UNCHANGED <<block, lost, overlapped, seen>>
      BY <1>5 DEF DropStrong
    <3>3. CASE block = "freed"
      BY <3>1, <3>2, <3>3 DEF HeldIsAlive, ObjectReclaimed, ProbeInv, Counting
    <3>4. CASE block = "allocated"
      <4>1. sc' = NumHeld' + NumProbing' /\ NumHeld' \in Nat /\ NumProbing' \in Nat
        BY <2>6, <3>2, <3>4, NumbersNext DEF Counting, NumbersOK
      <4>2. sc' = sc - 1 /\ object' = IF sc' = 0 THEN "deleted" ELSE object
        BY <1>5, <3>4 DEF DropStrong, DetachStrong, LastOut, Counting
      <4>3. sc' = 0 <=> Held' = {} /\ Probing' = {}
        <5>1. /\ NumHeld' = 0 <=> Held' = {}
              /\ NumProbing' = 0 <=> Probing' = {}
          BY NumbersNext DEF NumbersOK
        <5>2. PICK a \in Nat, b \in Nat :
                a = NumHeld' /\ b = NumProbing' /\ sc' = a + b
          BY <4>1
        <5>3. a + b = 0 <=> a = 0 /\ b = 0
          OBVIOUS
        <5> QED
          BY <5>1, <5>2, <5>3
      <4>4. HeldIsAlive' /\ ObjectReclaimed'
        BY <2>1, <3>2, <3>4, <4>2, <4>3 DEF HeldIsAlive, ObjectReclaimed
      <4>5. \A v \in Probing : sc' # 0
        BY <2>2, <4>3
      <4>6. ProbeInv'
        BY <2>2, <3>2, <3>4, <4>2, <4>5 DEF ProbeInv, Counting
      <4> QED
        BY <4>4, <4>6
    <3> QED
      BY <3>1, <3>3, <3>4
  <2>8. BlockReclaimed'
    BY <1>5, <1>a, <2>0, <2>3, <2>4, <2>5, <2>6, Numbers, NumbersNext
    DEF DropStrong, Hold, DetachStrong, LastOut, NumbersOK, Counting, Reclaimed, BlockReclaimed, LifeInv, BlockInv
  <2> QED
    BY <2>5, <2>6, <2>7, <2>8 DEF Reclaimed, CountsMatch, NumHeld, NumProbing, NumHandles
<1>6. ASSUME NEW s \in Strong, DropRest(s) PROVE PtrInv'
  <2>0. s \in Handles /\ object # "none"
    BY <1>6 DEF DropRest, Held, Probing, Handles, LifeInv
  <2>1. Held' = Held
    BY <1>6, HandlesAssumption DEF DropRest, Hold, DetachWeak, LastWeakOut, Held
  <2>2. Probing' = Probing
    BY <1>6, HandlesAssumption DEF DropRest, Hold, DetachWeak, LastWeakOut, Probing
  <2>3. Handles' = Handles \ {s} /\ s \in Handles
    BY <1>6, HandlesAssumption DEF DropRest, Hold, DetachWeak, LastWeakOut, Handles
  <2>4. NumHeld' = NumHeld /\ NumProbing' = NumProbing /\ NumHandles' = NumHandles - 1
    BY <2>1, <2>2, <2>3, FiniteHandles, OneMore, OneLess DEF NumHeld, NumProbing, NumHandles
  <2>5. TypeOK' /\ BlockInv' /\ LifeInv'
    BY <1>6, <1>a, <2>0, <2>4, Numbers DEF DropRest, Hold, DetachWeak, LastWeakOut, NumbersOK, Counting, LifeInv, BlockInv
  <2>6. (Counting => sc = NumHeld + NumProbing /\ wc = NumHandles - lost)'
    BY <1>6, <1>a, <2>0, <2>4, Numbers DEF DropRest, Hold, DetachWeak, LastWeakOut, NumbersOK, Counting, LifeInv
  <2>7. HeldIsAlive' /\ ObjectReclaimed' /\ ProbeInv'
    BY <1>6, <1>a, <2>0, <2>1, <2>2, <2>4, <2>6, Numbers, NumbersNext
    DEF DropRest, Hold, DetachWeak, LastWeakOut, NumbersOK, Counting, HeldIsAlive, Reclaimed, ObjectReclaimed, LifeInv, ProbeInv
  <2>8. BlockReclaimed'
    BY <1>6, <1>a, <2>0, <2>3, <2>4, <2>5, <2>6, Numbers, NumbersNext
    DEF DropRest, Hold, DetachWeak, LastWeakOut, NumbersOK, Counting, Reclaimed, BlockReclaimed, LifeInv, BlockInv
  <2> QED
    BY <2>5, <2>6, <2>7, <2>8 DEF Reclaimed, CountsMatch, NumHeld, NumProbing, NumHandles
<1>7. ASSUME NEW w \in Weak, DropWeak(w) PROVE PtrInv'
  <2>0. w \in Handles /\ object # "none"
    BY <1>7 DEF DropWeak, Held, Probing, Handles, LifeInv
  <2>1. Held' = Held
    BY <1>7, HandlesAssumption DEF DropWeak, Set, DetachWeak, LastWeakOut, Held
  <2>2. Probing' = Probing
    BY <1>7, HandlesAssumption DEF DropWeak, Set, DetachWeak, LastWeakOut, Probing
  <2>3. Handles' = Handles \ {w} /\ w \in Handles
    BY <1>7, HandlesAssumption DEF DropWeak, Set, DetachWeak, LastWeakOut, Handles
  <2>4. NumHeld' = NumHeld /\ NumProbing' = NumProbing /\ NumHandles' = NumHandles - 1
    BY <2>1, <2>2, <2>3, FiniteHandles, OneMore, OneLess DEF NumHeld, NumProbing, NumHandles
  <2>5. TypeOK' /\ BlockInv' /\ LifeInv'
    BY <1>7, <1>a, <2>0, <2>4, Numbers DEF DropWeak, Set, DetachWeak, LastWeakOut, NumbersOK, Counting, LifeInv, BlockInv
  <2>6. (Counting => sc = NumHeld + NumProbing /\ wc = NumHandles - lost)'
    BY <1>7, <1>a, <2>0, <2>4, Numbers DEF DropWeak, Set, DetachWeak, LastWeakOut, NumbersOK, Counting, LifeInv
  <2>7. HeldIsAlive' /\ ObjectReclaimed' /\ ProbeInv'
    BY <1>7, <1>a, <2>0, <2>1, <2>2, <2>4, <2>6, Numbers, NumbersNext
    DEF DropWeak, Set, DetachWeak, LastWeakOut, NumbersOK, Counting, HeldIsAlive, Reclaimed, ObjectReclaimed, LifeInv, ProbeInv
  <2>8. BlockReclaimed'
    BY <1>7, <1>a, <2>0, <2>3, <2>4, <2>5, <2>6, Numbers, NumbersNext
    DEF DropWeak, Set, DetachWeak, LastWeakOut, NumbersOK, Counting, Reclaimed, BlockReclaimed, LifeInv, BlockInv
  <2> QED
    BY <2>5, <2>6, <2>7, <2>8 DEF Reclaimed, CountsMatch, NumHeld, NumProbing, NumHandles
<1>8. ASSUME NEW w \in Weak, Probe(w) PROVE PtrInv'
  <2>0. w \in Handles /\ object # "none"
    BY <1>8 DEF Probe, Held, Probing, Handles, LifeInv
  <2>1. Held' = Held
    BY <1>8, HandlesAssumption DEF Probe, Set, AttachedStrong, Held
  <2>2. Probing' = Probing \cup {w} /\ w \notin Probing
    BY <1>8, HandlesAssumption DEF Probe, Set, AttachedStrong, Probing
  <2>3. Handles' = Handles
    BY <1>8, HandlesAssumption DEF Probe, Set, AttachedStrong, Handles
  <2>4. NumHeld' = NumHeld /\ NumProbing' = NumProbing + 1 /\ NumHandles' = NumHandles
    BY <2>1, <2>2, <2>3, FiniteHandles, OneMore, OneLess DEF NumHeld, NumProbing, NumHandles
  <2>5. TypeOK' /\ BlockInv' /\ LifeInv'
    BY <1>8, <1>a, <2>0, <2>4, Numbers DEF Probe, Set, AttachedStrong, NumbersOK, Counting, LifeInv, BlockInv
  <2>6. (Counting => sc = NumHeld + NumProbing /\ wc = NumHandles - lost)'
    BY <1>8, <1>a, <2>0, <2>4, Numbers DEF Probe, Set, AttachedStrong, NumbersOK, Counting, LifeInv
  <2>7. HeldIsAlive' /\ ObjectReclaimed' /\ ProbeInv'
    <3>1. HeldIsAlive' /\ ObjectReclaimed'
      BY <1>8, <2>1, <2>2, <2>4
      DEF Probe, Counting, HeldIsAlive, Reclaimed, ObjectReclaimed
    <3>2. ASSUME Counting PROVE seen'[w] = NumHeld + NumProbing + 1
      BY <1>8, <1>a, <3>2, Numbers DEF Probe, AttachedStrong, NumbersOK
    <3>3. ASSUME Counting, seen'[w] = 1 PROVE object = "deleted"
      BY <2>0, <3>2, <3>3, Numbers DEF NumbersOK, Counting, Reclaimed, ObjectReclaimed
    <3>4. ASSUME Counting, ~overlapped', seen'[w] # 1 PROVE object = "alive"
      <4>1. ~overlapped /\ Probing = {}
        BY <1>8, <3>4 DEF Probe
      <4>2. Held # {}
        BY <3>2, <3>4, <4>1, Numbers DEF NumbersOK
      <4> QED
        BY <3>4, <4>1, <4>2 DEF Counting, HeldIsAlive
    <3>5. ASSUME Counting, NEW v \in Probing
          PROVE  seen'[v] = seen[v] /\ v # w /\ overlapped'
      BY <1>8, <2>2, <3>5 DEF Probe, Probing
    <3> QED
      BY <1>8, <2>2, <3>1, <3>3, <3>4, <3>5 DEF Probe, Counting, ProbeInv
  <2>8. BlockReclaimed'
    BY <1>8, <1>a, <2>0, <2>3, <2>4, <2>5, <2>6, Numbers, NumbersNext
    DEF Probe, Set, AttachedStrong, NumbersOK, Counting, Reclaimed, BlockReclaimed, LifeInv, BlockInv
  <2> QED
    BY <2>5, <2>6, <2>7, <2>8 DEF Reclaimed, CountsMatch, NumHeld, NumProbing, NumHandles
<1>9. ASSUME NEW s \in Strong, NEW w \in Weak, Grant(w, s) PROVE PtrInv'
  <2>0. w \in Probing /\ w \in Handles /\ object # "none"
    BY <1>9 DEF Grant, Held, Probing, Handles, LifeInv
  <2>1. Held' = Held \cup {s} /\ s \notin Held
    BY <1>9, HandlesAssumption DEF Grant, Set, Hold, Held
  <2>2. Probing' = Probing \ {w} /\ w \in Probing
    BY <1>9, HandlesAssumption DEF Grant, Set, Hold, Probing
  <2>3. Handles' = Handles \cup {s} /\ s \notin Handles
    BY <1>9, HandlesAssumption DEF Grant, Set, Hold, Handles
  <2>4. NumHeld' = NumHeld + 1 /\ NumProbing' = NumProbing - 1 /\ NumHandles' = NumHandles + 1
    BY <2>1, <2>2, <2>3, FiniteHandles, OneMore, OneLess DEF NumHeld, NumProbing, NumHandles
  <2>5. TypeOK' /\ BlockInv' /\ LifeInv'
    BY <1>9, <1>a, <2>0, <2>4, Numbers DEF Grant, Set, Hold, NumbersOK, Counting, LifeInv, BlockInv
  <2>6. (Counting => sc = NumHeld + NumProbing /\ wc = NumHandles - lost)'
    BY <1>9, <1>a, <2>0, <2>4, Numbers DEF Grant, Set, Hold, NumbersOK, Counting, LifeInv
  <2>7. HeldIsAlive' /\ ObjectReclaimed' /\ ProbeInv'
    BY <1>9, <1>a, <2>0, <2>1, <2>2, <2>4, <2>6, Numbers, NumbersNext
    DEF Grant, Set, Hold, NumbersOK, Counting, HeldIsAlive, Reclaimed, ObjectReclaimed, LifeInv, ProbeInv
  <2>8. BlockReclaimed'
    BY <1>9, <1>a, <2>0, <2>3, <2>4, <2>5, <2>6, Numbers, NumbersNext
    DEF Grant, Set, Hold, NumbersOK, Counting, Reclaimed, BlockReclaimed, LifeInv, BlockInv
  <2> QED
    BY <2>5, <2>6, <2>7, <2>8 DEF Reclaimed, CountsMatch, NumHeld, NumProbing, NumHandles
<1>10. ASSUME NEW w \in Weak, Refuse(w) PROVE PtrInv'
  <2>0. w \in Probing /\ w \in Handles /\ object # "none"
    BY <1>10 DEF Refuse, Held, Probing, Handles, LifeInv
  <2>1. Held' = Held
    BY <1>10, HandlesAssumption DEF Refuse, Set, Uncounted, Held
  <2>2. Probing' = Probing \ {w} /\ w \in Probing
    BY <1>10, HandlesAssumption DEF Refuse, Set, Uncounted, Probing
  <2>3. Handles' = Handles
    BY <1>10, HandlesAssumption DEF Refuse, Set, Uncounted, Handles
  <2>4. NumHeld' = NumHeld /\ NumProbing' = NumProbing - 1 /\ NumHandles' = NumHandles
    BY <2>1, <2>2, <2>3, FiniteHandles, OneMore, OneLess DEF NumHeld, NumProbing, NumHandles
  <2>5. TypeOK' /\ BlockInv' /\ LifeInv'
    BY <1>10, <1>a, <2>0, <2>4, Numbers DEF Refuse, Set, Uncounted, NumbersOK, Counting, LifeInv, BlockInv
  <2>6. (Counting => sc = NumHeld + NumProbing /\ wc = NumHandles - lost)'
    BY <1>10, <1>a, <2>0, <2>4, Numbers DEF Refuse, Set, Uncounted, NumbersOK, Counting, LifeInv
  <2>7. HeldIsAlive' /\ ObjectReclaimed' /\ ProbeInv'
    <3>1. UNCHANGED <<object, block, lost, overlapped>> /\ seen[w] = 1
      BY <1>10 DEF Refuse
    <3>2. HeldIsAlive'
      BY <2>1, <3>1 DEF HeldIsAlive
    <3>3. \A v \in Probing' : v \in Probing /\ seen'[v] = seen[v]
      BY <1>10, <2>2 DEF Refuse, Probing
    <3>4. ProbeInv'
      BY <3>1, <3>3 DEF ProbeInv, Counting
    <3>5. block \in {"allocated", "freed"} /\ (block = "freed" => lost > 0)
      BY <2>0 DEF LifeInv, Reclaimed, BlockReclaimed
    <3>6. ObjectReclaimed'
      BY <2>0, <3>1, <3>5 DEF ObjectReclaimed, ProbeInv, Counting
    <3> QED
      BY <3>2, <3>4, <3>6
  <2>8. BlockReclaimed'
    BY <1>10, <1>a, <2>0, <2>3, <2>4, <2>5, <2>6, Numbers, NumbersNext
    DEF Refuse, Set, Uncounted, NumbersOK, Counting, Reclaimed, BlockReclaimed, LifeInv, BlockInv
  <2> QED
    BY <2>5, <2>6, <2>7, <2>8 DEF Reclaimed, CountsMatch, NumHeld, NumProbing, NumHandles
<1>11. CASE UNCHANGED vars
  BY <1>11 DEF vars, CountsMatch, counters, handles, Counting, HeldIsAlive, Reclaimed, ObjectReclaimed,
               BlockReclaimed, LifeInv, ProbeInv, BlockInv, Held, Probing, Handles
<1> QED
  BY <1>1, <1>2, <1>3, <1>4, <1>5, <1>6, <1>7, <1>8, <1>9, <1>10, <1>11 DEF Next

LEMMA PtrInvariant == Spec => []PtrInv
BY InitPtrInv, PtrInvStep, PTL DEF Spec

(* sc counts the SharedPtrs and the lock()s under way, wc the handles but  *)
(* for those a lock() made (SharedPtr.h:33-38).                            *)
THEOREM CountsMatchHolds == Spec => []CountsMatch
BY PtrInvariant, PTL DEF PtrInv

(* Unless two lock()s overlapped or the control block was freed under it,  *)
(* a SharedPtr has an object that is alive: HeldIsAlive (WeakPtr.h:95-98,  *)
(* SharedPtr.h:33-38).                                                     *)
THEOREM HeldIsAliveHolds == Spec => []HeldIsAlive
BY PtrInvariant, PTL DEF PtrInv

(* The control block goes with its last handle, and earlier only when a    *)
(* lock() has lost a reference; the object is deleted once its last        *)
(* SharedPtr and its last lock() have gone, unless the block went first in *)
(* that way: Reclaimed (WeakPtr.h:99, SharedPtr.h:33-38).                  *)
THEOREM ReclaimedHolds == Spec => []Reclaimed
BY PtrInvariant, PTL DEF PtrInv
=============================================================================
