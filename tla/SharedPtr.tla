----------------------------- MODULE SharedPtr -----------------------------
(***************************************************************************)
(* One object under SharedPtr (SharedPtr.h) and WeakPtr (WeakPtr.h): the   *)
(* two counters of its control block, and the handles of several threads   *)
(* that count in it.                                                       *)
(*                                                                         *)
(* Every interlocked operation of a counter is a step, with two            *)
(* exceptions nobody can tell: the two increments of a copy, whose source  *)
(* keeps both counters above 0, and what lock() does once it has seen      *)
(* another reference.                                                      *)
(***************************************************************************)
EXTENDS Integers, FiniteSets

CONSTANTS Strong,   \* SharedPtr variables, each used by one thread at a time
          Weak      \* WeakPtr variables, the same

ASSUME HandlesAssumption ==
    IsFiniteSet(Strong) /\ IsFiniteSet(Weak) /\ Strong \cap Weak = {}

VARIABLES
    sc,          \* Counters::sc
    wc,          \* Counters::wc
    object,      \* the object: "none", "alive" or "deleted"
    block,       \* the Counters: "none", "allocated" or "freed"
    strong,      \* "empty", "held", or "detached": its destructor is half way
    weak,        \* "empty", "set", or "probed": lock() is half way
    seen,        \* seen[w]: the c of the lock() on w
    lost,        \* how many references lock() has not counted in wc
    overlapped   \* two lock()s on the object were half way at once

counters == <<sc, wc, lost>>
handles  == <<strong, weak, seen, overlapped>>
vars == <<counters, object, block, handles>>

Held    == {s \in Strong : strong[s] = "held"}
Probing == {w \in Weak : weak[w] = "probed"}
Handles == {s \in Strong : strong[s] # "empty"} \cup {w \in Weak : weak[w] # "empty"}

-----------------------------------------------------------------------------
(* What plausible mistakes would make of operators below.                  *)
CountedAsOne(n)  == n = 1
FreedTooEarly(n) == n <= 1
NotCounted       == wc

-----------------------------------------------------------------------------
Init ==
    /\ sc = 0 /\ wc = 0 /\ lost = 0
    /\ object = "none" /\ block = "none"
    /\ strong = [s \in Strong |-> "empty"]
    /\ weak = [w \in Weak |-> "empty"] /\ seen = [w \in Weak |-> 0]
    /\ overlapped = FALSE

(* What is in a control block that was freed is no longer a counter: the   *)
(* variables keep what they had, and what is read from it is chosen, so a  *)
(* destructor may find itself the last or not.                             *)
Counting == block = "allocated"

Hold(s, how) == strong' = [strong EXCEPT ![s] = how]
Set(w, how)  == weak' = [weak EXCEPT ![w] = how]

(* WeakPtr::attach and SharedPtr::attach.                                  *)
AttachedWeak   == IF Counting THEN wc + 1 ELSE wc
AttachedStrong == IF Counting THEN sc + 1 ELSE sc

(* The counter that comes to 0 deletes what it counts for.                 *)
LastOut(n) == n = 0

DetachStrong ==
    /\ sc' = IF Counting THEN sc - 1 ELSE sc
    /\ object' \in IF Counting THEN {IF LastOut(sc - 1) THEN "deleted" ELSE object}
                               ELSE {object, "deleted"}

LastWeakOut(n) == n = 0

DetachWeak ==
    /\ wc' = IF Counting THEN wc - 1 ELSE wc
    /\ block' = IF Counting /\ LastWeakOut(wc - 1) THEN "freed" ELSE block

-----------------------------------------------------------------------------
(* The constructor that takes over a new object, used once.                *)
New(s) ==
    /\ object = "none"
    /\ object' = "alive" /\ block' = "allocated" /\ sc' = 1 /\ wc' = 1
    /\ Hold(s, "held")
    /\ UNCHANGED <<lost, weak, seen, overlapped>>

(* The copy constructors, and WeakPtr(SharedPtr&).                         *)
CopyStrong(s, t) ==
    /\ strong[s] = "held" /\ strong[t] = "empty"
    /\ Hold(t, "held")
    /\ sc' = AttachedStrong /\ wc' = AttachedWeak
    /\ UNCHANGED <<lost, object, block, weak, seen, overlapped>>

Watch(s, w) ==
    /\ strong[s] = "held" /\ weak[w] = "empty"
    /\ Set(w, "set") /\ wc' = AttachedWeak
    /\ UNCHANGED <<sc, lost, object, block, strong, seen, overlapped>>

CopyWeak(v, w) ==
    /\ weak[v] # "empty" /\ weak[w] = "empty"
    /\ Set(w, "set") /\ wc' = AttachedWeak
    /\ UNCHANGED <<sc, lost, object, block, strong, seen, overlapped>>

(* ~SharedPtr: its own detach, and then the destructor of its WeakPtr.     *)
DropStrong(s) ==
    /\ strong[s] = "held" /\ Hold(s, "detached")
    /\ DetachStrong
    /\ UNCHANGED <<wc, lost, block, weak, seen, overlapped>>

DropRest(s) ==
    /\ strong[s] = "detached" /\ Hold(s, "empty")
    /\ DetachWeak
    /\ UNCHANGED <<sc, lost, object, weak, seen, overlapped>>

DropWeak(w) ==
    /\ weak[w] = "set" /\ Set(w, "empty")
    /\ DetachWeak
    /\ UNCHANGED <<sc, lost, object, strong, seen, overlapped>>

(* WeakPtr::lock counts itself first,                                      *)
Probe(w) ==
    /\ weak[w] = "set" /\ Set(w, "probed")
    /\ sc' = AttachedStrong
    /\ \E c \in IF Counting THEN {sc'} ELSE {1, 2} :
           seen' = [seen EXCEPT ![w] = c]
    /\ overlapped' = (overlapped \/ Probing # {})
    /\ UNCHANGED <<wc, lost, object, block, strong>>

(* and returns a SharedPtr when it is not the only one: the private        *)
(* constructor (SharedPtr.h:33) replaces the control block its WeakPtr was *)
(* attached to and does not attach to the new one.  The copies that follow *)
(* even out: sc counts the result in the place of the lock(), and wc does  *)
(* not count it at all.                                                    *)
Grant(w, s) ==
    /\ weak[w] = "probed" /\ seen[w] # 1 /\ strong[s] = "empty"
    /\ Set(w, "set") /\ Hold(s, "held")
    /\ seen' = [seen EXCEPT ![w] = 0]
    /\ lost' = IF Counting THEN lost + 1 ELSE lost
    /\ UNCHANGED <<sc, wc, object, block, overlapped>>

(* The decrement at the end of lock(), which deletes nothing.              *)
Uncounted == IF Counting THEN sc - 1 ELSE sc

Refuse(w) ==
    /\ weak[w] = "probed" /\ seen[w] = 1
    /\ Set(w, "set") /\ sc' = Uncounted
    /\ seen' = [seen EXCEPT ![w] = 0]
    /\ UNCHANGED <<wc, lost, object, block, strong, overlapped>>

Next ==
    \/ \E s \in Strong : New(s) \/ DropStrong(s) \/ DropRest(s)
    \/ \E s, t \in Strong : CopyStrong(s, t)
    \/ \E w \in Weak : DropWeak(w) \/ Probe(w) \/ Refuse(w)
    \/ \E v, w \in Weak : CopyWeak(v, w)
    \/ \E s \in Strong, w \in Weak : Watch(s, w) \/ Grant(w, s)

Spec == Init /\ [][Next]_vars

-----------------------------------------------------------------------------
(* The type of the variables.                                              *)
TypeOK ==
    /\ sc \in Nat /\ wc \in Nat /\ lost \in Nat /\ overlapped \in BOOLEAN
    /\ object \in {"none", "alive", "deleted"}
    /\ block \in {"none", "allocated", "freed"}
    /\ strong \in [Strong -> {"empty", "held", "detached"}]
    /\ weak \in [Weak -> {"empty", "set", "probed"}] /\ seen \in [Weak -> Nat]

(* The counters count: sc the SharedPtrs and the lock()s under way, wc     *)
(* every handle, but for those that came out of a lock()                   *)
(* (SharedPtr.h:33-38).                                                    *)
CountsMatch ==
    /\ TypeOK
    /\ Counting => /\ sc = Cardinality(Held) + Cardinality(Probing)
                   /\ wc = Cardinality(Handles) - lost

(* Who holds a SharedPtr holds an object that is alive, through any        *)
(* interleaving of copies, destructors and lock(), with two exceptions:    *)
(* two lock()s overlapped, where the second may take the count of the      *)
(* first for a reference (WeakPtr.h:95-98), or the control block was freed *)
(* under the handle, which BlockReclaimed has happen only when a lock()    *)
(* has lost a reference (SharedPtr.h:33).                                  *)
HeldIsAlive == Held # {} => object = "alive" \/ overlapped \/ block = "freed"

(* The object does not outlive the last SharedPtr and the last lock(),     *)
(* although the decrement at the end of lock() deletes nothing             *)
(* (WeakPtr.h:99), overlapped or not.  The exception is again a lost       *)
(* reference: when the block was freed before, nobody need delete it.      *)
ObjectReclaimed ==
    object = "alive" /\ Held = {} /\ Probing = {} => block = "freed" /\ lost > 0

(* The control block goes with its last handle: never later, and earlier   *)
(* only when a lock() has succeeded.                                       *)
BlockReclaimed ==
    /\ Handles = {} => block # "allocated"
    /\ block = "freed" /\ lost = 0 => Handles = {}

(* Object and block are deleted when their last users have gone, but for   *)
(* what a lost reference makes of it: the block may go too early, and then *)
(* the object perhaps never.                                               *)
Reclaimed == ObjectReclaimed /\ BlockReclaimed

(* Tests/MemoryTests.h:57, "rassert(wpv.front().lock() == false)" after    *)
(* the last SharedPtr is gone: nobody gets hold of a deleted object.       *)
LockOfDeletedIsNull ==
    [][object = "deleted" =>
         \A s \in Strong : strong'[s] = "held" => strong[s] = "held"]_vars
=============================================================================
