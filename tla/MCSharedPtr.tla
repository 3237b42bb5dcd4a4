---------------------------- MODULE MCSharedPtr ----------------------------
(***************************************************************************)
(* One object with a few handles.  Two WeakPtrs let two lock()s overlap;   *)
(* with one, every lock() runs alone, as in Tests/MemoryTests.h.           *)
(***************************************************************************)
EXTENDS SharedPtr, TLC

(* The handles of a kind are alike.                                        *)
Symmetry == Permutations(Strong) \cup Permutations(Weak)
=============================================================================
