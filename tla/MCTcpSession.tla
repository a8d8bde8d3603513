---------------------------- MODULE MCTcpSession ----------------------------
(* TcpSession for TLC: one client, a few calls and connections. *)
EXTENDS TcpSession
=============================================================================
