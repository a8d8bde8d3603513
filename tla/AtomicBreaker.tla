---------------------------- MODULE AtomicBreaker ----------------------------
(****************************************************************************)
(* What src/circuit_breaker.rs promises when no two of its methods overlap: *)
(* record_success, record_failure and state() each take effect in one step. *)
(*                                                                          *)
(* Time is the age of the last failure.  last_failure is an                 *)
(* Option<Instant>; only `last.elapsed() > timeout` is ever asked of it, so *)
(* an age counts the clock ticks since the failure and stays at Timeout + 1 *)
(* once it has passed the timeout.  None is the failure that never was.     *)
(****************************************************************************)
EXTENDS Integers

CONSTANTS Threshold,     \* failures that open the breaker (`threshold`)
          Timeout,       \* ticks an open breaker stays open (`timeout`)
          MaxFailures    \* bound: no failure is recorded beyond this count

VARIABLES state,         \* the CircuitState
          failures,      \* failures since the last recorded success
          lastFailure    \* age of the last recorded failure, or None

breakerVars == <<state, failures, lastFailure>>

States == {"Closed", "Open", "HalfOpen"}

None == -1

\* Ages of an Instant.  `elapsed() > timeout` holds of the last one only.
Ages == 0 .. Timeout + 1

Expired(age) == age = Timeout + 1

\* An instant's age one tick later; a missing instant stays missing.
Older(age) == IF age \in 0 .. Timeout THEN age + 1 ELSE age

------------------------------------------------------------------------------

TypeOK ==
  /\ state \in States
  /\ failures \in 0 .. MaxFailures
  /\ lastFailure \in Ages \cup {None}

Init ==
  /\ state = "Closed"
  /\ failures = 0
  /\ lastFailure = None

(* record_success: the failure count restarts, a half-open breaker closes.  *)
RecordSuccess ==
  /\ failures' = 0
  /\ state' = IF state = "HalfOpen" THEN "Closed" ELSE state
  /\ UNCHANGED lastFailure

(* record_failure: in any state, the threshold reached opens the breaker.   *)
RecordFailure ==
  /\ failures < MaxFailures
  /\ failures' = failures + 1
  /\ lastFailure' = 0
  /\ state' = IF failures + 1 >= Threshold THEN "Open" ELSE state

(* What state() returns: an open breaker whose last failure is older than   *)
(* the timeout is half-open from the moment somebody asks.                  *)
Observed ==
  IF state = "Open" /\ lastFailure # None /\ Expired(lastFailure)
  THEN "HalfOpen"
  ELSE state

(* state(), and with it is_available and can_execute.                       *)
Poll ==
  /\ state' = Observed
  /\ UNCHANGED <<failures, lastFailure>>

(* can_execute lets the caller through in every state but Open.             *)
CanExecute == Observed # "Open"

(* The clock moves on.                                                      *)
Tick ==
  /\ lastFailure' = Older(lastFailure)
  /\ UNCHANGED <<state, failures>>

Next == RecordSuccess \/ RecordFailure \/ Poll \/ Tick

Spec == Init /\ [][Next]_breakerVars

==============================================================================
