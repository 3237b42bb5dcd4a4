----------------------------- MODULE MCStreams -----------------------------
(* Five bytes against one, on a network that holds less than a record.     *)
EXTENDS Streams

MCSource == [s \in Sides |-> IF s = "CLIENT" THEN <<1, 2, 3, 4, 5>> ELSE <<6>>]
=============================================================================
