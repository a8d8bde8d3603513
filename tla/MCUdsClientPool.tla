--------------------------- MODULE MCUdsClientPool ---------------------------
(* UdsClientPool for TLC.  Calls are interchangeable (the mode of each is   *)
(* chosen in Init) and so are clients.                                      *)
EXTENDS UdsClientPool, TLC
Perms == Permutations(Calls) \cup Permutations(Clients)
==============================================================================
