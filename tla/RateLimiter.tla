----------------------------- MODULE RateLimiter -----------------------------
(****************************************************************************)
(* The rate limiters of src/auth.rs (one window per client) and of          *)
(* src/utils.rs (one window, whose available() also purges it).             *)
(*                                                                          *)
(* A call takes the time first and the lock after: threads decide in an     *)
(* order that need not be that of their instants.  The instants of a window *)
(* are a bag: the code only counts and filters them.                        *)
(****************************************************************************)
EXTENDS Naturals, FiniteSets

CONSTANTS Askers,          \* threads
          Keys,            \* clients of the limiter
          MaxRequests, Window,
          MaxTime          \* bound on the clock

ASSUME LimiterAssumption ==
  MaxRequests \in Nat /\ Window \in Nat \ {0} /\ MaxTime \in Nat

VARIABLES
  clock,
  asking,        \* per thread: the key, the instant and the kind of its call
  requests,      \* the bag of instants kept, per key
  newest,        \* history since the last reset: the newest instant decided
  granted        \* with, and the grants none older than it (a bag as well)

limiterVars == <<clock, asking, requests, newest, granted>>

Instants == 0 .. MaxTime
NoInstants == [i \in Instants |-> 0]
Idle == [key |-> "none", at |-> 0, kind |-> "none"]
Copies(bag, S) == UNION {{i} \X (1 .. bag[i]) : i \in S}
Total(bag, S) == Cardinality(Copies(bag, S))

LimiterInit ==
  /\ clock = 0
  /\ asking = [t \in Askers |-> Idle]
  /\ requests = [k \in Keys |-> NoInstants]
  /\ newest = [k \in Keys |-> 0]
  /\ granted = requests

\* Seeded fault: one request too many.
AdmitsOneMore(n) == n <= MaxRequests

Admits(n) == n < MaxRequests

\* duration_since saturates: an instant that is not past has age 0.
Fresh(i, now) == i > now \/ now - i < Window
Kept(bag, now) == [i \in Instants |-> IF Fresh(i, now) THEN bag[i] ELSE 0]

Tick ==
  /\ clock < MaxTime
  /\ clock' = clock + 1
  /\ UNCHANGED <<asking, requests, newest, granted>>

\* check, try_acquire, available: Instant::now()
TakeTime(t) ==
  /\ asking[t] = Idle
  /\ \E k \in Keys, c \in {"check", "available"} :
       asking' = [asking EXCEPT ![t] = [key |-> k, at |-> clock, kind |-> c]]
  /\ UNCHANGED <<clock, requests, newest, granted>>

\* The rest of the call, under the lock.
Decide(t) ==
  /\ asking[t] # Idle
  /\ LET k == asking[t].key
         now == asking[t].at
         kept == Kept(requests[k], now)
         ok == asking[t].kind = "check" /\ Admits(Total(kept, Instants))
     IN /\ requests' = [requests EXCEPT ![k] =
                          IF ok THEN [kept EXCEPT ![now] = @ + 1] ELSE kept]
        /\ newest' = [newest EXCEPT ![k] = IF now > @ THEN now ELSE @]
        /\ granted' = IF ok /\ now >= newest[k]
                        THEN [granted EXCEPT ![k][now] = @ + 1] ELSE granted
  /\ asking' = [asking EXCEPT ![t] = Idle]
  /\ UNCHANGED clock

Reset(k) ==
  /\ requests' = [requests EXCEPT ![k] = NoInstants]
  /\ newest' = [newest EXCEPT ![k] = 0]
  /\ granted' = [granted EXCEPT ![k] = NoInstants]
  /\ UNCHANGED <<clock, asking>>

LimiterNext ==
  \/ Tick
  \/ \E t \in Askers : TakeTime(t) \/ Decide(t)
  \/ \E k \in Keys : Reset(k)

LimiterSpec == LimiterInit /\ [][LimiterNext]_limiterVars

------------------------------------------------------------------------------
\* Property

(* In no window of time are more than MaxRequests let through, apart from   *)
(* those decided later than a call with a younger instant, whose purge can  *)
(* have made room for them (auth.rs:274, utils.rs:147).                     *)
WindowBound ==
  \A k \in Keys, x \in Instants :
    LET span == {i \in Instants : x <= i /\ i < x + Window}
    IN Total(granted[k], span) <= MaxRequests

==============================================================================
