------------------------------ MODULE Discovery ------------------------------
(****************************************************************************)
(* src/discovery.rs: ServiceDiscovery.  Its checker is in HealthChecker.    *)
(*                                                                          *)
(* register and unregister change the endpoints under the write lock, give  *)
(* it back, and rebuild the three balancers under the read lock: another    *)
(* thread's change can come between.  A list of endpoints is a set here:    *)
(* the balancers keep a set, and nothing else reads order or repetition.    *)
(****************************************************************************)
EXTENDS Naturals, FiniteSets

CONSTANTS Callers,         \* threads that register and unregister
          Services,
          Addresses,
          HostNames        \* the addresses that need a lookup, which may fail

ASSUME DiscoveryAssumption == HostNames \subseteq Addresses

VARIABLES
  dpc, job,         \* per caller: what it does next, its service's name
  listed, step,     \* the addresses it rebuilds from, the balancer it is at
  endpoints,        \* service -> addresses, for the services ever registered
  lbs,              \* strategy -> service -> backends, if one was ever built
  failed            \* history: <<strategy, service>> whose last build failed

discoveryVars == <<dpc, job, listed, step, endpoints, lbs, failed>>

Strategies == 1 .. 3     \* round robin, random, consistent hash

DiscoveryInit ==
  /\ dpc = [t \in Callers |-> "idle"]
  /\ job \in [Callers -> Services]
  /\ listed = [t \in Callers |-> {}]
  /\ step = [t \in Callers |-> 1]
  /\ endpoints = [n \in {} |-> {}]
  /\ lbs = [i \in Strategies |-> [n \in {} |-> {}]]
  /\ failed = {}

\* f with f[n] = v, whether or not n was in its domain
Put(f, n, v) == [m \in DOMAIN f \cup {n} |-> IF m = n THEN v ELSE f[m]]

Readers == {t \in Callers : dpc[t] = "build"}
Discover(n) == IF n \in DOMAIN endpoints THEN endpoints[n] ELSE {}
\* What select and select_with_key choose from, under a strategy.
Backends(i, n) == IF n \in DOMAIN lbs[i] THEN lbs[i][n] ELSE {}

------------------------------------------------------------------------------
\* Seeded faults, for PROJECT.json; no specification uses them.

\* The rebuild works on a copy of the list and holds no lock.
RegisterPastReaders(t) ==
  /\ dpc[t] = "idle"
  /\ \E n \in Services, a \in Addresses :
       /\ endpoints' = Put(endpoints, n, Discover(n) \cup {a})
       /\ job' = [job EXCEPT ![t] = n]
  /\ dpc' = [dpc EXCEPT ![t] = "begin"]
  /\ UNCHANGED <<listed, step, lbs, failed>>

------------------------------------------------------------------------------
\* register, unregister

Register(t) ==
  /\ dpc[t] = "idle"
  /\ Readers = {}
  /\ \E n \in Services, a \in Addresses :
       /\ endpoints' = Put(endpoints, n, Discover(n) \cup {a})
       /\ job' = [job EXCEPT ![t] = n]
  /\ dpc' = [dpc EXCEPT ![t] = "begin"]
  /\ UNCHANGED <<listed, step, lbs, failed>>

Unregister(t) ==
  /\ dpc[t] = "idle"
  /\ Readers = {}
  /\ \E n \in Services, a \in Addresses :
       /\ endpoints' = [m \in DOMAIN endpoints |->
                          endpoints[m] \ (IF m = n THEN {a} ELSE {})]
       /\ job' = [job EXCEPT ![t] = n]
  /\ dpc' = [dpc EXCEPT ![t] = "begin"]
  /\ UNCHANGED <<listed, step, lbs, failed>>

\* rebuild_load_balancers: the read lock is held until the last balancer.
BeginRebuild(t) ==
  /\ dpc[t] = "begin"
  /\ IF job[t] \in DOMAIN endpoints
       THEN /\ dpc' = [dpc EXCEPT ![t] = "build"]
            /\ listed' = [listed EXCEPT ![t] = endpoints[job[t]]]
       ELSE dpc' = [dpc EXCEPT ![t] = "idle"] /\ UNCHANGED listed
  /\ UNCHANGED <<job, step, endpoints, lbs, failed>>

\* One balancer.  A lookup that fails leaves the one there was.
Build(t) ==
  /\ dpc[t] = "build"
  /\ LET i == step[t]
         n == job[t]
     IN \/ /\ lbs' = [lbs EXCEPT ![i] = Put(@, n, listed[t])]
           /\ failed' = failed \ {<<i, n>>}
        \/ /\ listed[t] \cap HostNames # {}
           /\ failed' = failed \cup {<<i, n>>}
           /\ UNCHANGED lbs
  /\ IF step[t] = 3
       THEN /\ dpc' = [dpc EXCEPT ![t] = "idle"]
            /\ listed' = [listed EXCEPT ![t] = {}]
            /\ step' = [step EXCEPT ![t] = 1]
       ELSE step' = [step EXCEPT ![t] = @ + 1] /\ UNCHANGED <<dpc, listed>>
  /\ UNCHANGED <<job, endpoints>>

DiscoveryNext ==
  \E t \in Callers :
    Register(t) \/ Unregister(t) \/ BeginRebuild(t) \/ Build(t)

DiscoverySpec == DiscoveryInit /\ [][DiscoveryNext]_discoveryVars

------------------------------------------------------------------------------
\* Properties

(* Whatever the threads' registrations and removals interleave to, once no  *)
(* rebuild is left to do for a service its balancers choose from exactly    *)
(* its endpoints, except those whose last build failed (discovery.rs:104).  *)
StillToBuild(t, i, n) ==
  /\ job[t] = n
  /\ \/ dpc[t] = "begin"
     \/ dpc[t] = "build" /\ step[t] <= i

BalancersCurrent ==
  \A n \in Services, i \in Strategies :
    \/ <<i, n>> \in failed
    \/ \E t \in Callers : StillToBuild(t, i, n)
    \/ Backends(i, n) = Discover(n)

==============================================================================
