------------------------ MODULE CircuitBreaker_proofs ------------------------
(****************************************************************************)
(* Theorems about CircuitBreaker, for any set of threads, any threshold and *)
(* any timeout.  The inductive invariant says what the program counters     *)
(* know: a thread past the store of its instant knows there is one, and a   *)
(* thread about to store HalfOpen knows the instant is still too old.       *)
(****************************************************************************)
EXTENDS CircuitBreaker, TLAPS

\* A failure that has stored its instant, and an open breaker, have one.
FailureStored ==
  /\ state = "Open" => lastFailure # None
  /\ \A t \in Threads : pc[t] \in {"fail_load", "fail_open"} => lastFailure # None

\* The read guard: while a thread is about to store HalfOpen, the last failure
\* stays as old as that thread found it.
GuardHolds ==
  \A t \in Threads :
    pc[t] = "poll_write" => lastFailure # None /\ Expired(lastFailure)

IInv == TypeOK /\ FailureStored /\ GuardHolds

------------------------------------------------------------------------------
(* Ages: an instant grows older within the range of ages, a missing one     *)
(* stays missing, an expired one stays expired (Tick).                      *)
LEMMA OlderAges ==
  ASSUME NEW age \in Ages \cup {None}
  PROVE  /\ Older(age) \in Ages \cup {None}
         /\ Older(age) = None <=> age = None
         /\ Expired(age) => Older(age) = age
  BY CircuitBreakerAssumption DEF Older, Ages, None, Expired

(* The breaker starts closed, with every thread outside its methods.        *)
LEMMA InitIInv == Init => IInv
  BY CircuitBreakerAssumption
  DEF Init, IInv, TypeOK, FailureStored, GuardHolds, States, None

(* Every step of a thread and of the clock preserves the types.             *)
LEMMA TypeStep == TypeOK /\ [Next]_vars => TypeOK'
<1> SUFFICES ASSUME TypeOK, [Next]_vars PROVE TypeOK'
  OBVIOUS
<1> USE CircuitBreakerAssumption
    DEF TypeOK, States, Succeeding, Failing, Polling, Goto
<1>1. ASSUME NEW t \in Threads, SuccessReset(t) PROVE TypeOK'
  BY <1>1 DEF SuccessReset
<1>2. ASSUME NEW t \in Threads, SuccessState(t) PROVE TypeOK'
  BY <1>2 DEF SuccessState
<1>3. ASSUME NEW t \in Threads, FailCount(t) PROVE TypeOK'
  BY <1>3 DEF FailCount
<1>4. ASSUME NEW t \in Threads, FailStamp(t) PROVE TypeOK'
  BY <1>4 DEF FailStamp, shared, Ages, None
<1>5. ASSUME NEW t \in Threads, FailWrite(t) PROVE TypeOK'
  BY <1>5 DEF FailWrite
<1>6. ASSUME NEW t \in Threads, FailLoad(t) PROVE TypeOK'
  BY <1>6 DEF FailLoad
<1>7. ASSUME NEW t \in Threads, FailOpen(t) PROVE TypeOK'
  BY <1>7 DEF FailOpen
<1>8. ASSUME NEW t \in Threads, PollRead(t) PROVE TypeOK'
  BY <1>8 DEF PollRead
<1>9. ASSUME NEW t \in Threads, PollCheck(t) PROVE TypeOK'
  BY <1>9 DEF PollCheck
<1>10. ASSUME NEW t \in Threads, PollWrite(t) PROVE TypeOK'
  BY <1>10 DEF PollWrite
<1>11. CASE Tick
  BY <1>11, OlderAges DEF Tick
<1>12. CASE UNCHANGED vars
  BY <1>12 DEF vars
<1> QED
  BY <1>1, <1>2, <1>3, <1>4, <1>5, <1>6, <1>7, <1>8, <1>9, <1>10, <1>11, <1>12
  DEF Next, Start, Continue

(* What the program counters know survives every step.                      *)
LEMMA KnowledgeStep == IInv /\ [Next]_vars => FailureStored' /\ GuardHolds'
<1> SUFFICES ASSUME IInv, [Next]_vars PROVE FailureStored' /\ GuardHolds'
  OBVIOUS
<1> USE DEF IInv, TypeOK, FailureStored, GuardHolds, Goto
<1>1. ASSUME NEW t \in Threads, SuccessReset(t)
      PROVE  FailureStored' /\ GuardHolds'
  BY <1>1 DEF SuccessReset
<1>2. ASSUME NEW t \in Threads, SuccessState(t)
      PROVE  FailureStored' /\ GuardHolds'
  BY <1>2 DEF SuccessState
<1>3. ASSUME NEW t \in Threads, FailCount(t)
      PROVE  FailureStored' /\ GuardHolds'
  BY <1>3 DEF FailCount
<1>4. ASSUME NEW t \in Threads, FailStamp(t)
      PROVE  FailureStored' /\ GuardHolds'
  BY <1>4 DEF FailStamp, shared
<1>5. ASSUME NEW t \in Threads, FailWrite(t)
      PROVE  FailureStored' /\ GuardHolds'
  BY <1>5 DEF FailWrite
<1>6. ASSUME NEW t \in Threads, FailLoad(t)
      PROVE  FailureStored' /\ GuardHolds'
  BY <1>6 DEF FailLoad
<1>7. ASSUME NEW t \in Threads, FailOpen(t)
      PROVE  FailureStored' /\ GuardHolds'
  BY <1>7 DEF FailOpen
<1>8. ASSUME NEW t \in Threads, PollRead(t)
      PROVE  FailureStored' /\ GuardHolds'
  BY <1>8 DEF PollRead
<1>9. ASSUME NEW t \in Threads, PollCheck(t)
      PROVE  FailureStored' /\ GuardHolds'
  BY <1>9 DEF PollCheck
<1>10. ASSUME NEW t \in Threads, PollWrite(t)
       PROVE  FailureStored' /\ GuardHolds'
  BY <1>10 DEF PollWrite
<1>11. CASE Tick
  BY <1>11, OlderAges DEF Tick
<1>12. CASE UNCHANGED vars
  BY <1>12 DEF vars
<1> QED
  BY <1>1, <1>2, <1>3, <1>4, <1>5, <1>6, <1>7, <1>8, <1>9, <1>10, <1>11, <1>12
  DEF Next, Start, Continue

(* The inductive invariant of the breaker.                                  *)
THEOREM BreakerInvariant == Spec => []IInv
<1>1. IInv /\ [Next]_vars => IInv'
  BY TypeStep, KnowledgeStep DEF IInv
<1> QED
  BY InitIInv, <1>1, PTL DEF Spec

(* The types of CircuitBreaker hold in every behaviour of any number of     *)
(* threads (record_success, record_failure, state).                         *)
THEOREM TypeCorrect == Spec => []TypeOK
<1>1. IInv => TypeOK
  BY DEF IInv
<1> QED
  BY BreakerInvariant, <1>1, PTL

(* An open breaker always has a last failure for state() to look at.        *)
THEOREM OpenHasFailureCorrect == Spec => []OpenHasFailure
<1>1. IInv => OpenHasFailure
  BY DEF IInv, FailureStored, OpenHasFailure
<1> QED
  BY BreakerInvariant, <1>1, PTL

(* state() makes the breaker half-open only while its last failure is older *)
(* than the timeout, whatever other threads do between its check and its    *)
(* store.                                                                   *)
THEOREM HalfOpenAfterTimeoutCorrect == Spec => HalfOpenAfterTimeout
<1>1. IInv /\ [Next]_vars
        => [state # "HalfOpen" /\ state' = "HalfOpen"
              => lastFailure # None /\ Expired(lastFailure)]_vars
  <2> SUFFICES ASSUME IInv, Next, state # "HalfOpen", state' = "HalfOpen"
               PROVE  lastFailure # None /\ Expired(lastFailure)
    OBVIOUS
  <2>1. PICK t \in Threads : PollWrite(t)
    BY DEF Next, Start, Continue, SuccessReset, SuccessState, FailCount,
           FailStamp, FailWrite, FailLoad, FailOpen, PollRead, PollCheck, Tick,
           shared
  <2> QED
    BY <2>1 DEF IInv, GuardHolds, PollWrite
<1> QED
  BY BreakerInvariant, <1>1, PTL DEF Spec, HalfOpenAfterTimeout

(* No step closes an open breaker: record_success closes a half-open one.   *)
THEOREM NeverOpenToClosedCorrect == Spec => NeverOpenToClosed
<1>1. [Next]_vars => [state = "Open" => state' # "Closed"]_vars
  BY DEF Next, Start, Continue, SuccessReset, SuccessState, FailCount,
         FailStamp, FailWrite, FailLoad, FailOpen, PollRead, PollCheck,
         PollWrite, Tick, shared, vars
<1> QED
  BY <1>1, PTL DEF Spec, NeverOpenToClosed

------------------------------------------------------------------------------
(****************************************************************************)
(* One thread: the refinement of AtomicBreaker.  With a single thread the   *)
(* mapping depends on where that thread is.                                 *)
(****************************************************************************)
MappedFailures(t) == failures - (IF pc[t] = "fail_stamp" THEN 1 ELSE 0)

MappedLastFailure(t) == IF pc[t] = "fail_write" THEN stamp[t] ELSE lastFailure

MappedState(t) ==
  IF \/ pc[t] = "fail_open"
     \/ pc[t] \in {"fail_write", "fail_load"} /\ failures >= Threshold
  THEN "Open"
  ELSE IF pc[t] = "poll_write" THEN "HalfOpen"
  ELSE IF pc[t] = "succ_state" /\ state = "HalfOpen" THEN "Closed"
  ELSE state

(* The mapping of CircuitBreaker in terms of the only thread.               *)
LEMMA MappingOfOne ==
  ASSUME NEW t, Threads = {t}
  PROVE  /\ AbsFailures = MappedFailures(t)
         /\ AbsLastFailure = MappedLastFailure(t)
         /\ AbsState = MappedState(t)
<1>1. ASSUME NEW l PROVE At(l) = IF pc[t] = l THEN {t} ELSE {}
  BY DEF At
<1>2. (CHOOSE u \in {t} : TRUE) = t
  OBVIOUS
<1>3. AbsFailures = MappedFailures(t)
  BY <1>1 DEF AbsFailures, MappedFailures
<1>4. AbsLastFailure = MappedLastFailure(t)
  BY <1>1, <1>2 DEF AbsLastFailure, MappedLastFailure
<1>5. AbsState = MappedState(t)
  BY <1>1 DEF AbsState, WillOpen, MappedState
<1> QED
  BY <1>3, <1>4, <1>5

(* The same after a step.                                                   *)
LEMMA MappingOfOneNext ==
  ASSUME NEW t, Threads = {t}
  PROVE  /\ AbsFailures' = MappedFailures(t)'
         /\ AbsLastFailure' = MappedLastFailure(t)'
         /\ AbsState' = MappedState(t)'
<1>1. ASSUME NEW l PROVE At(l)' = IF pc'[t] = l THEN {t} ELSE {}
  BY DEF At
<1>2. (CHOOSE u \in {t} : TRUE) = t
  OBVIOUS
<1>3. AbsFailures' = MappedFailures(t)'
  BY <1>1 DEF AbsFailures, MappedFailures
<1>4. AbsLastFailure' = MappedLastFailure(t)'
  BY <1>1, <1>2 DEF AbsLastFailure, MappedLastFailure
<1>5. AbsState' = MappedState(t)'
  BY <1>1 DEF AbsState, WillOpen, MappedState
<1> QED
  BY <1>3, <1>4, <1>5

\* Nobody changes the state between the copy state() took and its check.
CopyIsCurrent == \A t \in Threads : pc[t] \in Polling => state = "Open"

(* What state() copied is still the state, because no other thread runs.    *)
LEMMA CopyStep ==
  ASSUME NEW t, Threads = {t}, TypeOK, CopyIsCurrent, [Next]_vars
  PROVE  CopyIsCurrent'
<1> USE DEF TypeOK, CopyIsCurrent, Polling, Goto
<1>1. CASE Tick
  BY <1>1 DEF Tick
<1>2. CASE Start(t)
  BY <1>2 DEF Start, SuccessReset, FailCount, PollRead
<1>3. CASE Continue(t)
  BY <1>3 DEF Continue, SuccessState, FailStamp, FailWrite, FailLoad, FailOpen,
              PollCheck, PollWrite, shared
<1>4. CASE UNCHANGED vars
  BY <1>4 DEF vars
<1> QED
  BY <1>1, <1>2, <1>3, <1>4 DEF Next

(* Every step of a single-threaded breaker is a step of AtomicBreaker or    *)
(* leaves its variables alone: record_success acts at SuccessReset,         *)
(* record_failure at FailStamp, state() at PollCheck.                       *)
LEMMA AtomicStep ==
  ASSUME NEW t, Threads = {t}, IInv, CopyIsCurrent, [Next]_vars
  PROVE  [Atomic!Next]_(Atomic!breakerVars)
<1> DEFINE f == MappedFailures(t)
           a == MappedLastFailure(t)
           s == MappedState(t)
<1>1. /\ AbsFailures = f /\ AbsLastFailure = a /\ AbsState = s
      /\ AbsFailures' = f' /\ AbsLastFailure' = a' /\ AbsState' = s'
  BY MappingOfOne, MappingOfOneNext
<1>2. /\ pc[t] \in {"idle"} \cup Succeeding \cup Failing \cup Polling
      /\ failures \in 0 .. MaxFailures
      /\ state \in States
      /\ Threshold \in Nat /\ MaxFailures \in Nat
      /\ DOMAIN pc = Threads /\ DOMAIN stamp = Threads
      /\ pc[t] \in Polling => state = "Open"
  BY CircuitBreakerAssumption DEF IInv, TypeOK, CopyIsCurrent
<1> USE DEF MappedFailures, MappedLastFailure, MappedState, Goto,
            Succeeding, Failing, Polling, States
<1> DEFINE Same == f' = f /\ a' = a /\ s' = s
           Success == /\ f' = 0 /\ a' = a
                      /\ s' = IF s = "HalfOpen" THEN "Closed" ELSE s
           Failure == /\ f < MaxFailures /\ f' = f + 1 /\ a' = 0
                      /\ s' = IF f + 1 >= Threshold THEN "Open" ELSE s
           Asked == /\ f' = f /\ a' = a
                    /\ s' = IF s = "Open" /\ a # None /\ Expired(a)
                            THEN "HalfOpen" ELSE s
           Ticked == f' = f /\ a' = Older(a) /\ s' = s
<1>3. ASSUME SuccessReset(t) PROVE Success
  <2>1. pc[t] = "idle" /\ pc'[t] = "succ_state" /\ failures' = 0
    BY <1>2, <1>3 DEF SuccessReset
  <2>2. f' = 0
    BY <2>1
  <2>3. a' = a
    BY <1>3, <2>1 DEF SuccessReset
  <2>4. s' = IF s = "HalfOpen" THEN "Closed" ELSE s
    BY <1>3, <2>1 DEF SuccessReset
  <2> QED
    BY <2>2, <2>3, <2>4
<1>4. ASSUME SuccessState(t) PROVE Same
  BY <1>2, <1>4 DEF SuccessState
<1>5. ASSUME FailCount(t) PROVE Same
  BY <1>2, <1>5 DEF FailCount
<1>6. ASSUME FailStamp(t) PROVE Failure
  BY <1>2, <1>6 DEF FailStamp, shared
<1>7. ASSUME FailWrite(t) PROVE Same
  BY <1>2, <1>7 DEF FailWrite
<1>8. ASSUME FailLoad(t) PROVE Same
  BY <1>2, <1>8 DEF FailLoad
<1>9. ASSUME FailOpen(t) PROVE Same
  BY <1>2, <1>9 DEF FailOpen
<1>10. ASSUME PollRead(t) PROVE Same
  BY <1>2, <1>10 DEF PollRead
<1>11. ASSUME PollCheck(t) PROVE Asked \/ Same
  BY <1>2, <1>11 DEF PollCheck
<1>12. ASSUME PollWrite(t) PROVE Same
  BY <1>2, <1>12 DEF PollWrite
<1>13. ASSUME Tick PROVE Ticked
  BY <1>2, <1>13 DEF Tick
<1>14. ASSUME UNCHANGED vars PROVE Same
  BY <1>14 DEF vars
<1>15. Success \/ Failure \/ Asked \/ Ticked \/ Same
  BY <1>3, <1>4, <1>5, <1>6, <1>7, <1>8, <1>9, <1>10, <1>11, <1>12, <1>13, <1>14
  DEF Next, Start, Continue
<1> QED
  BY <1>1, <1>15
  DEF Atomic!Next, Atomic!RecordSuccess, Atomic!RecordFailure, Atomic!Poll,
      Atomic!Tick, Atomic!Observed, Atomic!breakerVars, Atomic!None,
      Atomic!Expired, Atomic!Older, None, Expired, Older

(* On a single-threaded runtime the breaker implements AtomicBreaker: the   *)
(* only theorem here that needs the number of threads.                      *)
THEOREM SingleThreadRefinement ==
  ASSUME NEW t, Threads = {t}
  PROVE  Spec => ImplementsAtomic
<1>1. Init => Atomic!Init
  BY MappingOfOne
  DEF Init, Atomic!Init, MappedFailures, MappedLastFailure, MappedState,
      Atomic!None, None
<1>2. Init => CopyIsCurrent
  BY DEF Init, CopyIsCurrent, Polling
<1>3. IInv /\ CopyIsCurrent /\ [Next]_vars => CopyIsCurrent'
  BY CopyStep DEF IInv
<1>4. IInv /\ CopyIsCurrent /\ [Next]_vars
        => [Atomic!Next]_(Atomic!breakerVars)
  BY AtomicStep
<1> QED
  BY <1>1, <1>2, <1>3, <1>4, BreakerInvariant, PTL DEF Spec, ImplementsAtomic, Atomic!Spec

==============================================================================
