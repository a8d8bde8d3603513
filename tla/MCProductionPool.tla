--------------------------- MODULE MCProductionPool --------------------------
(* ProductionPool for TLC.                                                  *)
EXTENDS ProductionPool, TLC
Perms == Permutations(Calls) \cup Permutations(Clients)
==============================================================================
