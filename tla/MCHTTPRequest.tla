--------------------------- MODULE MCHTTPRequest ---------------------------
(***************************************************************************)
(* A connection of a few bytes, in every order and every cutting.  Bounds: *)
(* what the peer sends (MaxBytes), what one read takes (ReadSize) and the  *)
(* limit of the headers, which the .cfg makes small enough to be met.      *)
(***************************************************************************)
EXTENDS HTTPRequest
=============================================================================
