---------------------------- MODULE MCSockets ----------------------------
(***************************************************************************)
(* The sockets of a program.  Bounds: the SocketWorkers (Slots), how many  *)
(* sockets are made at each pointer (two at one of them) and the kinds of  *)
(* events (Edges): reads and writes take the same way, in this order.      *)
(***************************************************************************)
EXTENDS Sockets

CONSTANTS p1, p2

MCPtrs    == {p1, p2}
MCEdges   == [p \in MCPtrs |-> IF p = p1 THEN {"err", "write"} ELSE {"read"}]
MCMaxUses == [p \in MCPtrs |-> IF p = p1 THEN 2 ELSE 1]
=============================================================================
