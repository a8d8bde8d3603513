------------------------------ MODULE MCBreaker ------------------------------
(* CircuitBreaker for TLC: the shared breaker of three threads (MCBreaker.  *)
(* cfg) and the breaker of a single-threaded runtime (MCBreakerSingle.cfg). *)
EXTENDS CircuitBreaker
==============================================================================
