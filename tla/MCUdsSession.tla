---------------------------- MODULE MCUdsSession ----------------------------
(* UdsSession for TLC: clients that share a server and its limits. *)
EXTENDS UdsSession
=============================================================================
