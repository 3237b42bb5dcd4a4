----------------------------- MODULE MCCondVar -----------------------------
(***************************************************************************)
(* A CondVar as the code uses each of its own: one thread waits for a      *)
(* value, now with a deadline and now without, and others set the flag.    *)
(* Nothing is bounded but the number of threads.                           *)
(***************************************************************************)
EXTENDS CondVar

WaitForTrue == [t \in Waiters |-> TRUE]
=============================================================================
