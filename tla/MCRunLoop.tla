----------------------------- MODULE MCRunLoop -----------------------------
(***************************************************************************)
(* The run loop on small instances.  Bounds: every message is created at   *)
(* most once (in RunLoop); a remaining time is kept above -Slack (in       *)
(* RunLoop); the sets of messages, timers and delays are the .cfg's.       *)
(***************************************************************************)
EXTENDS RunLoop
=============================================================================
