---------------------------- MODULE CircuitBreaker ---------------------------
(****************************************************************************)
(* src/circuit_breaker.rs as several threads execute it.  The breaker is    *)
(* shared through an Arc and has no lock of its own: every method is a      *)
(* sequence of single atomic operations and short critical sections on      *)
(* `failures`, `state` and `last_failure`, and each of them is a step here. *)
(* The program counter names the operation a thread performs next.          *)
(*                                                                          *)
(* The only lock held from one step to another is the read guard on         *)
(* last_failure that state() takes in its `if let`: it lives until the      *)
(* write of HalfOpen, and keeps record_failure from storing a newer instant *)
(* meanwhile.  `successes` is written and never read; it is left out.       *)
(****************************************************************************)
EXTENDS Integers

CONSTANTS Threads,       \* the threads that share the breaker
          Threshold, Timeout, MaxFailures     \* as in AtomicBreaker

ASSUME CircuitBreakerAssumption ==
  /\ Threshold \in Nat
  /\ Timeout \in Nat
  /\ MaxFailures \in Nat

VARIABLES state, failures, lastFailure,       \* as in AtomicBreaker
          pc,            \* the operation each thread performs next
          stamp          \* age of the Instant::now() a failing thread took

shared == <<state, failures, lastFailure>>
vars   == <<state, failures, lastFailure, pc, stamp>>

States == {"Closed", "Open", "HalfOpen"}
None == -1
Ages == 0 .. Timeout + 1
Expired(age) == age = Timeout + 1
Older(age) == IF age \in 0 .. Timeout THEN age + 1 ELSE age

Succeeding == {"succ_state"}
Failing    == {"fail_stamp", "fail_write", "fail_load", "fail_open"}
Polling    == {"poll_check", "poll_write"}

Goto(t, l) == pc' = [pc EXCEPT ![t] = l]

Init ==
  /\ state = "Closed"
  /\ failures = 0
  /\ lastFailure = None
  /\ pc = [t \in Threads |-> "idle"]
  /\ stamp = [t \in Threads |-> None]

------------------------------------------------------------------------------
\* Seeded faults: each replaces the action named in PROJECT.json to show that
\* a property notices it.  No specification of this module uses them.

\* A success takes one failure back instead of starting the count again.
SuccessTakesOneBack(t) ==
  /\ pc[t] = "idle"
  /\ failures' = failures - 1
  /\ Goto(t, "succ_state")
  /\ UNCHANGED <<state, lastFailure, stamp>>

\* A success does not touch the failure count.
SuccessKeepsFailures(t) ==
  /\ pc[t] = "idle"
  /\ Goto(t, "succ_state")
  /\ UNCHANGED <<shared, stamp>>

\* A success closes the breaker whatever its state.
SuccessClosesAny(t) ==
  /\ pc[t] = "succ_state"
  /\ state' = "Closed"
  /\ Goto(t, "idle")
  /\ UNCHANGED <<failures, lastFailure, stamp>>

\* The threshold is tested before the failure's instant is stored.
FailTestsFirst(t) ==
  /\ pc[t] = "fail_stamp"
  /\ Goto(t, "fail_load")
  /\ UNCHANGED <<shared, stamp>>

\* state() has dropped its read guard, so the write does not wait for it.
FailWriteUnguarded(t) ==
  /\ pc[t] = "fail_write"
  /\ lastFailure' = stamp[t]
  /\ stamp' = [stamp EXCEPT ![t] = None]
  /\ Goto(t, "fail_load")
  /\ UNCHANGED <<state, failures>>

\* state() answers HalfOpen and does not store it.
PollWriteForgotten(t) ==
  /\ pc[t] = "poll_write"
  /\ Goto(t, "idle")
  /\ UNCHANGED <<shared, stamp>>

------------------------------------------------------------------------------
\* record_success

SuccessReset(t) ==
  /\ pc[t] = "idle"
  /\ failures' = 0
  /\ Goto(t, "succ_state")
  /\ UNCHANGED <<state, lastFailure, stamp>>

\* The write lock is taken for the comparison and the store together.
SuccessState(t) ==
  /\ pc[t] = "succ_state"
  /\ state' = IF state = "HalfOpen" THEN "Closed" ELSE state
  /\ Goto(t, "idle")
  /\ UNCHANGED <<failures, lastFailure, stamp>>

------------------------------------------------------------------------------
\* record_failure

FailCount(t) ==
  /\ pc[t] = "idle"
  /\ failures < MaxFailures
  /\ failures' = failures + 1
  /\ Goto(t, "fail_stamp")
  /\ UNCHANGED <<state, lastFailure, stamp>>

\* The right-hand side, Instant::now(), is evaluated before the lock is taken.
FailStamp(t) ==
  /\ pc[t] = "fail_stamp"
  /\ stamp' = [stamp EXCEPT ![t] = 0]
  /\ Goto(t, "fail_write")
  /\ UNCHANGED shared

\* The write waits for the read guard of a thread that is in state().
FailWrite(t) ==
  /\ pc[t] = "fail_write"
  /\ \A u \in Threads : pc[u] # "poll_write"
  /\ lastFailure' = stamp[t]
  /\ stamp' = [stamp EXCEPT ![t] = None]
  /\ Goto(t, "fail_load")
  /\ UNCHANGED <<state, failures>>

FailLoad(t) ==
  /\ pc[t] = "fail_load"
  /\ Goto(t, IF failures >= Threshold THEN "fail_open" ELSE "idle")
  /\ UNCHANGED <<state, failures, lastFailure, stamp>>

FailOpen(t) ==
  /\ pc[t] = "fail_open"
  /\ state' = "Open"
  /\ Goto(t, "idle")
  /\ UNCHANGED <<failures, lastFailure, stamp>>

------------------------------------------------------------------------------
\* state(), and with it is_available and can_execute

\* The state is copied and the lock released; all but Open is returned at once.
PollRead(t) ==
  /\ pc[t] = "idle"
  /\ Goto(t, IF state = "Open" THEN "poll_check" ELSE "idle")
  /\ UNCHANGED <<state, failures, lastFailure, stamp>>

PollCheck(t) ==
  /\ pc[t] = "poll_check"
  /\ Goto(t, IF lastFailure # None /\ Expired(lastFailure)
             THEN "poll_write" ELSE "idle")
  /\ UNCHANGED <<state, failures, lastFailure, stamp>>

\* HalfOpen is stored whatever the state has become since it was copied.
PollWrite(t) ==
  /\ pc[t] = "poll_write"
  /\ state' = "HalfOpen"
  /\ Goto(t, "idle")
  /\ UNCHANGED <<failures, lastFailure, stamp>>

------------------------------------------------------------------------------

\* The clock moves on for every instant at once.
Tick ==
  /\ lastFailure' = Older(lastFailure)
  /\ stamp' = [t \in Threads |-> Older(stamp[t])]
  /\ UNCHANGED <<state, failures, pc>>

\* A thread in the middle of a method.
Continue(t) ==
  \/ SuccessState(t)
  \/ FailStamp(t) \/ FailWrite(t) \/ FailLoad(t) \/ FailOpen(t)
  \/ PollCheck(t) \/ PollWrite(t)

\* A caller starts a method.
Start(t) == SuccessReset(t) \/ FailCount(t) \/ PollRead(t)

Next == Tick \/ \E t \in Threads : Start(t) \/ Continue(t)

Spec == Init /\ [][Next]_vars

\* Threads that are in a method finish it and time passes; nobody has to call.
Fairness == WF_vars(Tick) /\ \A t \in Threads : WF_vars(Continue(t))

LiveSpec == Spec /\ Fairness

------------------------------------------------------------------------------
\* Properties

(* Every variable keeps its type, and a thread holds a stamp exactly while  *)
(* record_failure is between Instant::now() and the store of it.            *)
TypeOK ==
  /\ state \in States
  /\ failures \in 0 .. MaxFailures
  /\ lastFailure \in Ages \cup {None}
  /\ pc \in [Threads -> {"idle"} \cup Succeeding \cup Failing \cup Polling]
  /\ stamp \in [Threads -> Ages \cup {None}]
  /\ \A t \in Threads : stamp[t] # None <=> pc[t] = "fail_write"

(* state() leaves Open only through last_failure: an open breaker that has  *)
(* no last failure would answer "circuit breaker open" for ever.            *)
OpenHasFailure == state = "Open" => lastFailure # None

(* The step that makes the breaker half-open happens while the last failure *)
(* is older than the timeout, although state() checked that two operations  *)
(* earlier and other threads record failures in between: the read guard     *)
(* state() keeps on last_failure is what makes the check last.              *)
HalfOpenAfterTimeout ==
  [][state # "HalfOpen" /\ state' = "HalfOpen"
     => lastFailure # None /\ Expired(lastFailure)]_vars

(* An open breaker closes only by way of HalfOpen, however a success that   *)
(* was admitted before it opened is recorded late.                          *)
NeverOpenToClosed == [][state = "Open" => state' # "Closed"]_vars

(* If failures stop coming and callers keep finding the breaker open, it    *)
(* does not stay open.                                                      *)
NobodyFails == \A t \in Threads : pc[t] \notin Failing
SomeoneFindsItOpen == \E t \in Threads : pc[t] = "poll_check"

NeverStuckOpen ==
  (<>[]NobodyFails /\ []<>SomeoneFindsItOpen) => []<>(state # "Open")

------------------------------------------------------------------------------
(****************************************************************************)
(* With a single thread (RuntimeType::SingleThread, the default of          *)
(* src/runtime.rs) no two methods overlap and the breaker is AtomicBreaker. *)
(* record_success takes effect at its first step, record_failure when it    *)
(* reads the clock, state() when it finds the timeout elapsed.              *)
(****************************************************************************)
At(l) == {t \in Threads : pc[t] = l}

AbsFailures == failures - (IF At("fail_stamp") # {} THEN 1 ELSE 0)

AbsLastFailure ==
  IF At("fail_write") # {} THEN stamp[CHOOSE t \in At("fail_write") : TRUE]
                           ELSE lastFailure

WillOpen ==
  \/ At("fail_open") # {}
  \/ (At("fail_write") # {} \/ At("fail_load") # {}) /\ failures >= Threshold

AbsState ==
  IF WillOpen THEN "Open"
  ELSE IF At("poll_write") # {} THEN "HalfOpen"
  ELSE IF At("succ_state") # {} /\ state = "HalfOpen" THEN "Closed"
  ELSE state

Atomic == INSTANCE AtomicBreaker
            WITH state <- AbsState, failures <- AbsFailures,
                 lastFailure <- AbsLastFailure

(* Every behaviour of a single-threaded breaker is one of AtomicBreaker: in *)
(* particular it becomes half-open only from Open and opens from Closed or  *)
(* HalfOpen only when the failures since the last success reach threshold.  *)
ImplementsAtomic == Atomic!Spec

==============================================================================
