------------------------------- MODULE Values -------------------------------
(***************************************************************************)
(* What Data promises to a program: every variable of that type holds its  *)
(* own bytes, and a DataDeque is a stream of bytes.                        *)
(***************************************************************************)
EXTENDS Deques

CONSTANT Names     \* the variables

VARIABLES value,   \* value[x]: the bytes of x
          stream   \* the bytes in the deque

ValuesInit == value = [x \in Names |-> <<>>] /\ stream = <<>>

Becoming(x, bytes) == value' = [value EXCEPT ![x] = bytes] /\ UNCHANGED stream

(* What was in x goes to y.                                                *)
Moving(x, y) ==
    value' = [value EXCEPT ![x] = <<>>, ![y] = value[x]] /\ UNCHANGED stream

Putting(x) == stream' = stream \o value[x] /\ UNCHANGED value

Getting(x, n) ==
    /\ value' = [value EXCEPT ![x] = FirstOf(n, stream)]
    /\ stream' = AllAfter(n, stream)
=============================================================================
