----------------------------- MODULE HealthChecker -----------------------------
(****************************************************************************)
(* BackgroundHealthChecker of src/discovery.rs and the CancellationToken of *)
(* src/utils.rs that ends its loop.  The services it is given change while  *)
(* it works: each tick finds any of them.                                   *)
(****************************************************************************)
EXTENDS Naturals, FiniteSets

CONSTANT Checked           \* services that may be registered

ASSUME CheckerAssumption == IsFiniteSet(Checked)

VARIABLES
  running,       \* the flag that start() swaps, that nothing takes back
  cancelled,     \* the token
  loop,          \* the spawned task
  polled,        \* it has polled cancelled() in this select, which sleeps on
  todo           \* the services left to check

checkerVars == <<running, cancelled, loop, polled, todo>>

CheckerInit ==
  /\ running = FALSE /\ cancelled = FALSE /\ polled = FALSE
  /\ loop = "off"
  /\ todo = {}

\* A second start does nothing, also when the first loop has ended.
StartChecker ==
  /\ running' = TRUE
  /\ loop' = IF running THEN loop ELSE "select"
  /\ UNCHANGED <<cancelled, polled, todo>>

Cancel ==
  /\ cancelled' = TRUE
  /\ UNCHANGED <<running, loop, polled, todo>>

\* cancelled() finds the flag down and sleeps for 100 ms.
Poll ==
  /\ loop = "select" /\ ~polled /\ ~cancelled
  /\ polled' = TRUE
  /\ UNCHANGED <<running, cancelled, loop, todo>>

PollTimer ==
  /\ polled /\ polled' = FALSE
  /\ UNCHANGED <<running, cancelled, loop, todo>>

\* The other branch, in the same select: list_services.
CheckerTick ==
  /\ loop = "select"
  /\ loop' = "check" /\ polled' = FALSE
  /\ todo' \in SUBSET Checked
  /\ UNCHANGED <<running, cancelled>>

\* check_all_services: the connects of a service are timed, and what they
\* show goes to set_backend_health, which does nothing.
CheckService ==
  /\ loop = "check"
  /\ IF todo = {} THEN loop' = "select" /\ UNCHANGED todo
     ELSE (\E n \in todo : todo' = todo \ {n}) /\ UNCHANGED loop
  /\ UNCHANGED <<running, cancelled, polled>>

Break ==
  /\ loop = "select" /\ cancelled /\ ~polled
  /\ loop' = "ended"
  /\ UNCHANGED <<running, cancelled, polled, todo>>

CheckerNext == StartChecker \/ Cancel \/ Poll \/ PollTimer \/ CheckerTick
               \/ CheckService \/ Break

CheckerSpec == CheckerInit /\ [][CheckerNext]_checkerVars

\* tokio runs the loop and its timers.  A select takes one of its ready
\* branches at random, so that a branch that is ready again and again is taken.
CheckerFairness ==
  /\ WF_checkerVars(PollTimer) /\ WF_checkerVars(CheckService)
  /\ SF_checkerVars(Break)

------------------------------------------------------------------------------
\* Property

(* The loop of a cancelled checker ends, a round of checks being under way  *)
(* or not (discovery.rs:260, utils.rs:192).                                 *)
CheckerStops == cancelled /\ loop # "off" ~> loop = "ended"

==============================================================================
