------------------------------ MODULE MCServer ------------------------------
(* Four interfaces, and descriptors for three sockets.                     *)
EXTENDS Server

MCList == <<"IPv4", "UNKNOWN", "IPv6", "IPv4">>
=============================================================================
