---------------------------- MODULE MCAddrInfo ----------------------------
(***************************************************************************)
(* The resolver pool with the code's two workers.  The .cfg says how many  *)
(* addresses and keys there are, and how many requests are made at each    *)
(* address, one after the other.                                           *)
(***************************************************************************)
EXTENDS AddrInfo, TLC

CONSTANTS r1, r3,   \* two of the addresses
          k1        \* one of the keys

TwiceAtR3 == [r \in Reqs |-> IF r = r3 THEN 2 ELSE 1]

(* The keys are alike: no behaviour is lost when that of r1 is k1, since   *)
(* there is one request at r1.                                             *)
FirstKeyAtR1 == [r \in Reqs |-> IF r = r1 THEN {k1} ELSE Keys]
=============================================================================
