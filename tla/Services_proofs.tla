--------------------------- MODULE Services_proofs ---------------------------
(****************************************************************************)
(* Theorems about the services beside the clients: that balancers follow    *)
(* the endpoints (Discovery), that no window of time has too many requests  *)
(* (RateLimiter), and what the metrics say (ServiceMetrics).                *)
(****************************************************************************)
EXTENDS Discovery, RateLimiter, ServiceMetrics, Integers, FiniteSetTheorems, TLAPS

------------------------------------------------------------------------------
(* Discovery, for any number of threads, services and addresses.             *)

(* The types; the lists that are rebuilt from are the lists there are,      *)
(* because nobody changes an endpoint while somebody reads; and a service   *)
(* with a balancer has endpoints.                                           *)
Shape ==
  /\ dpc \in [Callers -> {"idle", "begin", "build"}]
  /\ job \in [Callers -> Services]
  /\ step \in [Callers -> Strategies]
  /\ DOMAIN listed = Callers
  /\ DOMAIN lbs = Strategies
  /\ \A i \in Strategies : DOMAIN lbs[i] \subseteq DOMAIN endpoints
  /\ DOMAIN endpoints \subseteq Services
  /\ \A t \in Callers :
       /\ dpc[t] = "build" => /\ job[t] \in DOMAIN endpoints
                              /\ listed[t] = endpoints[job[t]]
       /\ dpc[t] # "build" => step[t] = 1

DiscoveryInv == Shape /\ BalancersCurrent

LEMMA PutFacts ==
  ASSUME NEW f, NEW n, NEW v
  PROVE  /\ DOMAIN Put(f, n, v) = DOMAIN f \cup {n}
         /\ Put(f, n, v)[n] = v
         /\ \A m \in DOMAIN f : m # n => Put(f, n, v)[m] = f[m]
  BY DEF Put

LEMMA InitInv == DiscoveryInit => DiscoveryInv
  BY DEF DiscoveryInit, DiscoveryInv, Shape, BalancersCurrent, Backends,
         Discover, Strategies

(* Both changes of a list: one service has other endpoints, and its thread  *)
(* everything left to build.                                                *)
LEMMA ChangeInv ==
  ASSUME DiscoveryInv, NEW t \in Callers, NEW n \in Services,
         dpc[t] = "idle", Readers = {},
         dpc' = [dpc EXCEPT ![t] = "begin"],
         job' = [job EXCEPT ![t] = n],
         UNCHANGED <<listed, step, lbs, failed>>,
         DOMAIN endpoints \subseteq DOMAIN endpoints',
         DOMAIN endpoints' \subseteq Services,
         \A m \in Services \ {n} : Discover(m)' = Discover(m)
  PROVE  DiscoveryInv'
<1>1. \A u \in Callers : dpc[u] # "build"
  BY DEF Readers
<1>2. Shape'
  BY <1>1 DEF DiscoveryInv, Shape, Strategies
<1>3. ASSUME NEW m \in Services, NEW i \in Strategies,
             <<i, m>> \notin failed, \A u \in Callers : ~StillToBuild(u, i, m)'
      PROVE  Backends(i, m)' = Discover(m)'
  <2>1. m # n
    BY <1>3 DEF DiscoveryInv, Shape, StillToBuild
  <2>2. \A u \in Callers : ~StillToBuild(u, i, m)
    BY <1>1, <1>3 DEF DiscoveryInv, Shape, StillToBuild
  <2>3. Backends(i, m) = Discover(m)
    BY <1>3, <2>2 DEF DiscoveryInv, BalancersCurrent
  <2> QED BY <2>1, <2>3 DEF Backends
<1> QED BY <1>2, <1>3 DEF DiscoveryInv, BalancersCurrent

LEMMA RegisterInv ==
  ASSUME DiscoveryInv, NEW t \in Callers, Register(t)
  PROVE  DiscoveryInv'
<1>1. PICK n \in Services, a \in Addresses :
        /\ endpoints' = Put(endpoints, n, Discover(n) \cup {a})
        /\ job' = [job EXCEPT ![t] = n]
  BY DEF Register
<1>2. /\ DOMAIN endpoints' = DOMAIN endpoints \cup {n}
      /\ \A m \in DOMAIN endpoints : m # n => endpoints'[m] = endpoints[m]
  BY <1>1 DEF Put
<1>3. \A m \in Services \ {n} : Discover(m)' = Discover(m)
  BY <1>2 DEF Discover
<1>4. DOMAIN endpoints' \subseteq Services
  BY <1>2 DEF DiscoveryInv, Shape
<1> QED BY <1>1, <1>2, <1>3, <1>4, ChangeInv DEF Register

LEMMA UnregisterInv ==
  ASSUME DiscoveryInv, NEW t \in Callers, Unregister(t)
  PROVE  DiscoveryInv'
<1>1. PICK n \in Services, a \in Addresses :
        /\ endpoints' = [m \in DOMAIN endpoints |->
                           endpoints[m] \ (IF m = n THEN {a} ELSE {})]
        /\ job' = [job EXCEPT ![t] = n]
  BY DEF Unregister
<1>2. DOMAIN endpoints' = DOMAIN endpoints
  BY <1>1
<1>3. \A m \in Services \ {n} : Discover(m)' = Discover(m)
  BY <1>1 DEF Discover
<1>4. DOMAIN endpoints' \subseteq Services
  BY <1>2 DEF DiscoveryInv, Shape
<1> QED BY <1>1, <1>2, <1>3, <1>4, ChangeInv DEF Unregister

LEMMA BeginInv ==
  ASSUME DiscoveryInv, NEW t \in Callers, BeginRebuild(t)
  PROVE  DiscoveryInv'
<1> USE DEF DiscoveryInv, BeginRebuild
<1>1. Shape'
  BY DEF Shape, Strategies
<1>2. ASSUME NEW m \in Services, NEW i \in Strategies,
             <<i, m>> \notin failed, \A u \in Callers : ~StillToBuild(u, i, m)'
      PROVE  Backends(i, m)' = Discover(m)'
  <2>1. \A u \in Callers \ {t} : ~StillToBuild(u, i, m)
    BY <1>2 DEF Shape, StillToBuild
  <2>2. CASE StillToBuild(t, i, m)
    <3>1. job[t] = m /\ m \notin DOMAIN endpoints
      BY <1>2, <2>2 DEF Shape, StillToBuild, Strategies
    <3>2. m \notin DOMAIN lbs[i]
      BY <3>1 DEF Shape
    <3> QED BY <3>1, <3>2 DEF Backends, Discover
  <2>3. CASE ~StillToBuild(t, i, m)
    BY <1>2, <2>1, <2>3 DEF BalancersCurrent, Backends, Discover
  <2> QED BY <2>2, <2>3
<1> QED BY <1>1, <1>2 DEF BalancersCurrent

LEMMA BuildInv ==
  ASSUME DiscoveryInv, NEW t \in Callers, Build(t)
  PROVE  DiscoveryInv'
<1> USE DEF DiscoveryInv
<1>0. PICK i \in Strategies, n \in Services :
        /\ i = step[t] /\ n = job[t]
        /\ dpc[t] = "build" /\ n \in DOMAIN endpoints /\ listed[t] = endpoints[n]
  BY DEF Build, Shape, Strategies
<1>1. \/ /\ lbs' = [lbs EXCEPT ![i] = Put(@, n, listed[t])]
         /\ failed' = failed \ {<<i, n>>}
      \/ lbs' = lbs /\ failed' = failed \cup {<<i, n>>}
  BY <1>0 DEF Build
<1>2. /\ DOMAIN lbs' = Strategies
      /\ \A j \in Strategies : DOMAIN lbs'[j] \subseteq DOMAIN endpoints
      /\ \A j \in Strategies, m \in Services :
           <<j, m>> # <<i, n>> => Backends(j, m)' = Backends(j, m)
      /\ <<i, n>> \notin failed' => Backends(i, n)' = endpoints[n]
  <2>1. CASE lbs' = lbs /\ failed' = failed \cup {<<i, n>>}
    BY <2>1 DEF Shape, Backends
  <2>2. CASE /\ lbs' = [lbs EXCEPT ![i] = Put(@, n, listed[t])]
             /\ failed' = failed \ {<<i, n>>}
    <3>1. DOMAIN lbs' = Strategies /\ lbs'[i] = Put(lbs[i], n, listed[t])
      BY <1>0, <2>2 DEF Shape, Strategies
    <3>2. \A j \in Strategies \ {i} : lbs'[j] = lbs[j]
      BY <1>0, <2>2 DEF Shape, Strategies
    <3>3. /\ DOMAIN lbs'[i] = DOMAIN lbs[i] \cup {n}
          /\ lbs'[i][n] = listed[t]
          /\ \A m \in DOMAIN lbs[i] : m # n => lbs'[i][m] = lbs[i][m]
      BY <3>1 DEF Put
    <3>4. \A j \in Strategies : DOMAIN lbs'[j] \subseteq DOMAIN endpoints
      BY <1>0, <3>2, <3>3 DEF Shape
    <3>5. ASSUME NEW j \in Strategies, NEW m \in Services, <<j, m>> # <<i, n>>
          PROVE  Backends(j, m)' = Backends(j, m)
      <4>1. CASE j = i
        BY <3>3, <3>5, <4>1 DEF Backends
      <4>2. CASE j # i
        BY <3>2, <4>2 DEF Backends
      <4> QED BY <4>1, <4>2
    <3>6. Backends(i, n)' = endpoints[n]
      <4>1. n \in DOMAIN lbs'[i] /\ lbs'[i][n] = endpoints[n]
        BY <1>0, <3>3
      <4> QED BY <4>1 DEF Backends
    <3> QED BY <3>1, <3>4, <3>5, <3>6
  <2> QED BY <1>1, <2>1, <2>2
<1>3. /\ UNCHANGED <<job, endpoints>>
      /\ dpc' \in [Callers -> {"idle", "begin", "build"}]
      /\ step' \in [Callers -> Strategies]
      /\ DOMAIN listed' = Callers
      /\ \A u \in Callers \ {t} :
           dpc'[u] = dpc[u] /\ step'[u] = step[u] /\ listed'[u] = listed[u]
      /\ \/ i = 3 /\ dpc'[t] = "idle" /\ step'[t] = 1
         \/ /\ i # 3 /\ dpc'[t] = "build" /\ step'[t] = i + 1
            /\ listed'[t] = listed[t]
  BY <1>0 DEF Build, Shape, Strategies
<1>4. Shape'
  BY <1>0, <1>2, <1>3 DEF Shape
<1>5. ASSUME NEW m \in Services, NEW j \in Strategies,
             <<j, m>> \notin failed', \A u \in Callers : ~StillToBuild(u, j, m)'
      PROVE  Backends(j, m)' = Discover(m)'
  <2>1. Discover(m)' = Discover(m)
    BY <1>3 DEF Discover
  <2>2. CASE <<j, m>> = <<i, n>>
    BY <1>0, <1>2, <1>5, <2>1, <2>2 DEF Discover
  <2>3. CASE <<j, m>> # <<i, n>>
    <3>1. \A u \in Callers \ {t} : ~StillToBuild(u, j, m)
      BY <1>3, <1>5 DEF StillToBuild
    <3>2. ~StillToBuild(t, j, m)
      <4>1. SUFFICES ASSUME m = n, i <= j, j # i PROVE FALSE
        BY <1>0, <2>3 DEF StillToBuild
      <4>2. i # 3 /\ i + 1 <= j
        BY <1>0, <4>1 DEF Strategies
      <4>3. dpc'[t] = "build" /\ step'[t] <= j /\ job'[t] = m
        BY <1>0, <1>3, <4>1, <4>2
      <4> QED BY <1>5, <4>3 DEF StillToBuild
    <3>3. <<j, m>> \notin failed
      BY <1>1, <1>5, <2>3
    <3> QED BY <1>2, <2>1, <2>3, <3>1, <3>2, <3>3 DEF BalancersCurrent
  <2> QED BY <2>2, <2>3
<1> QED BY <1>4, <1>5 DEF BalancersCurrent

(* The inductive invariant of register, unregister and the rebuilds.        *)
THEOREM DiscoveryInvariant == DiscoverySpec => []DiscoveryInv
<1>1. DiscoveryInv /\ [DiscoveryNext]_discoveryVars => DiscoveryInv'
  <2> SUFFICES ASSUME DiscoveryInv, [DiscoveryNext]_discoveryVars
               PROVE  DiscoveryInv'
    OBVIOUS
  <2>1. CASE UNCHANGED discoveryVars
    BY <2>1 DEF discoveryVars, DiscoveryInv, Shape, BalancersCurrent,
                Backends, Discover, StillToBuild
  <2>2. CASE DiscoveryNext
    BY <2>2, RegisterInv, UnregisterInv, BeginInv, BuildInv DEF DiscoveryNext
  <2> QED BY <2>1, <2>2
<1> QED BY <1>1, InitInv, PTL DEF DiscoverySpec

(* Once no rebuild is left for a service, its balancers choose from exactly *)
(* its endpoints, unless their last build failed (discovery.rs:104), for    *)
(* any number of threads, services and addresses.                           *)
THEOREM BalancersCurrentCorrect == DiscoverySpec => []BalancersCurrent
  BY DiscoveryInvariant, PTL DEF DiscoveryInv

------------------------------------------------------------------------------
(* RateLimiter, for any number of threads and clients, any limit, window    *)
(* and bound on the clock.                                                  *)

LimiterTypes ==
  /\ clock \in Instants
  /\ \A t \in Askers : asking[t] = Idle \/
       asking[t] \in [key : Keys, at : Instants, kind : {"check", "available"}]
  /\ asking = [t \in Askers |-> asking[t]]
  /\ requests \in [Keys -> [Instants -> Nat]]
  /\ newest \in [Keys -> Instants]
  /\ granted \in [Keys -> [Instants -> Nat]]

\* A grant is among the instants kept for as long as it counts: what is purged
\* is too old for the newest instant decided with, and for every later one.
GrantsKept ==
  \A k \in Keys, i \in Instants : granted[k][i] # 0 =>
    /\ i <= newest[k]
    /\ newest[k] - i < Window => granted[k][i] <= requests[k][i]

LimiterInv ==
  /\ LimiterTypes /\ GrantsKept /\ WindowBound
  /\ \A k \in Keys : IsFiniteSet(Copies(requests[k], Instants))

LEMMA CopiesIn ==
  ASSUME NEW bag, NEW S, NEW i, NEW n
  PROVE  <<i, n>> \in Copies(bag, S) <=> i \in S /\ n \in 1 .. bag[i]
BY DEF Copies

LEMMA CopiesArePairs ==
  ASSUME NEW bag, NEW S, NEW p \in Copies(bag, S)
  PROVE  \E i, n : i \in S /\ n \in 1 .. bag[i] /\ p = <<i, n>>
BY DEF Copies

(* A bag of fewer, and a bag of one more.                                   *)
LEMMA FewerCopies ==
  ASSUME NEW few, NEW many, NEW S, NEW T, IsFiniteSet(Copies(many, T)),
         \A i \in S : few[i] \in Nat
                      /\ (few[i] # 0 => i \in T /\ many[i] \in Nat /\ few[i] <= many[i])
  PROVE  IsFiniteSet(Copies(few, S)) /\ Total(few, S) <= Total(many, T)
<1>1. ASSUME NEW p \in Copies(few, S) PROVE p \in Copies(many, T)
  <2>1. PICK i, n : i \in S /\ n \in 1 .. few[i] /\ p = <<i, n>>
    BY CopiesArePairs
  <2>2. few[i] \in Nat /\ few[i] # 0 /\ i \in T /\ n \in 1 .. many[i]
    BY <2>1
  <2> QED
    BY <2>1, <2>2, CopiesIn
<1> QED
  BY <1>1, FS_Subset DEF Total

LEMMA OneMoreCopy ==
  ASSUME NEW bag, NEW more, NEW S, NEW j \in S, IsFiniteSet(Copies(bag, S)),
         bag[j] \in Nat, more[j] = bag[j] + 1, \A i \in S \ {j} : more[i] = bag[i]
  PROVE  IsFiniteSet(Copies(more, S)) /\ Total(more, S) = Total(bag, S) + 1
<1> DEFINE new == <<j, bag[j] + 1>>
<1>1. Copies(more, S) = Copies(bag, S) \cup {new}
  <2>1. ASSUME NEW p \in Copies(more, S) PROVE p \in Copies(bag, S) \cup {new}
    <3>1. PICK i, n : i \in S /\ n \in 1 .. more[i] /\ p = <<i, n>>
      BY <2>1, CopiesArePairs
    <3>2. CASE i = j /\ n = bag[j] + 1
      BY <3>1, <3>2
    <3>3. CASE ~(i = j /\ n = bag[j] + 1)
      <4>1. n \in 1 .. bag[i]
        BY <3>1, <3>3
      <4> QED
        BY <3>1, <4>1, CopiesIn
    <3> QED
      BY <3>2, <3>3
  <2>2. ASSUME NEW p \in Copies(bag, S) PROVE p \in Copies(more, S)
    <3>1. PICK i, n : i \in S /\ n \in 1 .. bag[i] /\ p = <<i, n>>
      BY <2>2, CopiesArePairs
    <3>2. n \in 1 .. more[i]
      BY <3>1
    <3> QED
      BY <3>1, <3>2, CopiesIn
  <2>3. new \in Copies(more, S)
    <3>1. bag[j] + 1 \in 1 .. more[j]
      OBVIOUS
    <3> QED
      BY <3>1, CopiesIn
  <2> QED
    BY <2>1, <2>2, <2>3
<1>2. new \notin Copies(bag, S)
  <2>1. bag[j] + 1 \notin 1 .. bag[j]
    OBVIOUS
  <2> QED
    BY <2>1, CopiesIn
<1> HIDE DEF new
<1>3. PICK copies : copies = Copies(bag, S)
  OBVIOUS
<1>4. IsFiniteSet(copies \cup {new}) /\ Cardinality(copies \cup {new}) = Cardinality(copies) + 1
  BY <1>2, <1>3, FS_AddElement
<1> QED
  BY <1>1, <1>3, <1>4 DEF Total

LEMMA NoCopies ==
  ASSUME NEW S, S \subseteq Instants
  PROVE  IsFiniteSet(Copies(NoInstants, S)) /\ Total(NoInstants, S) = 0
<1>1. Copies(NoInstants, S) = {}
  <2> SUFFICES ASSUME NEW p \in Copies(NoInstants, S) PROVE FALSE
    OBVIOUS
  <2>1. PICK i, n : i \in S /\ n \in 1 .. NoInstants[i] /\ p = <<i, n>>
    BY CopiesArePairs
  <2> QED
    BY <2>1 DEF NoInstants
<1> QED
  BY <1>1, FS_EmptySet DEF Total

(* What is decided under the lock.                                          *)
LEMMA Decides ==
  ASSUME LimiterInv, NEW t \in Askers, Decide(t)
  PROVE  LimiterInv'
<1>0. PICK k, now, check : k = asking[t].key /\ now = asking[t].at
                           /\ check = (asking[t].kind = "check")
  OBVIOUS
<1>1. LimiterTypes /\ GrantsKept /\ WindowBound
  BY DEF LimiterInv
<1>2. k \in Keys /\ now \in Instants /\ now \in Nat /\ Window \in Nat /\ MaxRequests \in Nat
      /\ Instants \subseteq Nat
  BY <1>0, <1>1, LimiterAssumption DEF Decide, LimiterTypes, Instants
<1>3. PICK bag : bag = requests[k]
  OBVIOUS
<1> DEFINE kept == Kept(bag, now)
           ok == check /\ Admits(Total(kept, Instants))
           young == IF now > newest[k] THEN now ELSE newest[k]
<1>4. /\ requests' = [requests EXCEPT ![k] = IF ok THEN [kept EXCEPT ![now] = @ + 1] ELSE kept]
      /\ newest' = [newest EXCEPT ![k] = young]
      /\ granted' = IF ok /\ now >= newest[k]
                      THEN [granted EXCEPT ![k][now] = @ + 1] ELSE granted
      /\ asking' = [asking EXCEPT ![t] = Idle] /\ clock' = clock
  BY <1>0, <1>3 DEF Decide
<1>5. /\ bag \in [Instants -> Nat] /\ kept \in [Instants -> Nat]
      /\ \A i \in Instants : kept[i] = IF i > now \/ now - i < Window THEN bag[i] ELSE 0
  BY <1>1, <1>2, <1>3 DEF LimiterTypes, Kept, Fresh
<1>6. newest[k] \in Instants /\ newest[k] \in Nat /\ young \in Instants /\ young \in Nat
      /\ young >= now /\ young >= newest[k]
  BY <1>1, <1>2 DEF LimiterTypes
<1> HIDE DEF kept, ok, young
<1>7. PICK left : left = requests'[k]
  OBVIOUS
<1>8. /\ left = IF ok THEN [kept EXCEPT ![now] = @ + 1] ELSE kept
      /\ \A j \in Keys \ {k} : requests'[j] = requests[j] /\ newest'[j] = newest[j]
      /\ newest'[k] = young
      /\ \A i \in Instants : kept[i] <= left[i]
      /\ left \in [Instants -> Nat]
  BY <1>1, <1>2, <1>4, <1>5, <1>7 DEF LimiterTypes
<1>9. /\ \A j \in Keys \ {k} : granted'[j] = granted[j]
      /\ \A i \in Instants \ {now} : granted'[k][i] = granted[k][i]
      /\ \/ ok /\ now >= newest[k] /\ granted'[k][now] = granted[k][now] + 1
         \/ granted' = granted
      /\ granted' \in [Keys -> [Instants -> Nat]]
      /\ granted[k] \in [Instants -> Nat]
  BY <1>1, <1>2, <1>4 DEF LimiterTypes
<1>10. LimiterTypes'
  <2>1. requests' \in [Keys -> [Instants -> Nat]] /\ newest' \in [Keys -> Instants]
    BY <1>1, <1>2, <1>4, <1>6, <1>7, <1>8 DEF LimiterTypes
  <2>2. /\ asking' = [u \in Askers |-> asking'[u]]
        /\ \A u \in Askers : asking'[u] = IF u = t THEN Idle ELSE asking[u]
    BY <1>1, <1>4 DEF LimiterTypes
  <2> QED
    BY <1>1, <1>4, <1>9, <2>1, <2>2 DEF LimiterTypes
<1>11. IsFiniteSet(Copies(kept, Instants)) /\ Total(kept, Instants) \in Nat
  <2>1. IsFiniteSet(Copies(bag, Instants))
    BY <1>2, <1>3 DEF LimiterInv
  <2>2. \A i \in Instants : kept[i] \in Nat /\ (kept[i] # 0 => bag[i] \in Nat /\ kept[i] <= bag[i])
    BY <1>5
  <2> QED
    BY <2>1, <2>2, FewerCopies, FS_CardinalityType DEF Total
<1>12. \A j \in Keys : IsFiniteSet(Copies(requests'[j], Instants))
  <2>1. IsFiniteSet(Copies(left, Instants))
    <3>1. CASE ok
      <4>1. left[now] = kept[now] + 1 /\ \A i \in Instants \ {now} : left[i] = kept[i]
        BY <1>2, <1>5, <1>8, <3>1
      <4> QED
        BY <1>2, <1>5, <1>11, <4>1, OneMoreCopy
    <3>2. CASE ~ok
      BY <1>8, <1>11, <3>2
    <3> QED
      BY <3>1, <3>2
  <2> QED
    BY <1>7, <1>8, <2>1 DEF LimiterInv
<1>13. GrantsKept'
  <2>1. ASSUME NEW i \in Instants, granted'[k][i] # 0
        PROVE  /\ i <= young
               /\ young - i < Window => granted'[k][i] <= left[i]
    <3>1. CASE granted'[k][i] = granted[k][i]
      <4>1. i <= newest[k] /\ (newest[k] - i < Window => granted[k][i] <= bag[i])
        BY <1>1, <1>2, <1>3, <2>1, <3>1 DEF GrantsKept
      <4>2. young - i < Window => kept[i] = bag[i] /\ newest[k] - i < Window
        BY <1>2, <1>5, <1>6, <4>1
      <4> QED
        BY <1>2, <1>5, <1>6, <1>8, <1>9, <3>1, <4>1, <4>2
    <3>2. CASE granted'[k][i] # granted[k][i]
      <4>1. i = now /\ ok /\ now >= newest[k] /\ granted'[k][now] = granted[k][now] + 1
        BY <1>9, <3>2
      <4>2. left[now] = kept[now] + 1 /\ kept[now] = bag[now]
        BY <1>2, <1>5, <1>8, <4>1, LimiterAssumption
      <4>3. granted[k][now] # 0 => newest[k] - now < Window
        BY <1>2, <1>6, <4>1, LimiterAssumption
      <4>4. granted[k][now] <= bag[now]
        BY <1>1, <1>2, <1>3, <1>5, <1>9, <4>3 DEF GrantsKept
      <4> QED
        BY <1>2, <1>5, <1>6, <1>9, <4>1, <4>2, <4>4
    <3> QED
      BY <3>1, <3>2
  <2>2. ASSUME NEW j \in Keys, NEW i \in Instants, granted'[j][i] # 0
        PROVE  /\ i <= newest'[j]
               /\ newest'[j] - i < Window => granted'[j][i] <= requests'[j][i]
    <3>1. CASE j = k
      BY <1>7, <1>8, <2>1, <2>2, <3>1
    <3>2. CASE j # k
      BY <1>1, <1>8, <1>9, <2>2, <3>2 DEF GrantsKept
    <3> QED
      BY <3>1, <3>2
  <2> QED
    BY <2>2 DEF GrantsKept
<1>14. ASSUME NEW x \in Instants
       PROVE  Total(granted'[k], {i \in Instants : x <= i /\ i < x + Window}) <= MaxRequests
  <2> DEFINE span == {i \in Instants : x <= i /\ i < x + Window}
  <2>0. Total(granted[k], span) <= MaxRequests
    BY <1>1, <1>2 DEF WindowBound
  <2>1. CASE now \notin span \/ granted' = granted
    <3>1. \A i \in span : granted'[k][i] = granted[k][i]
      BY <1>9, <2>1
    <3>2. Copies(granted'[k], span) = Copies(granted[k], span)
      BY <3>1 DEF Copies
    <3> QED
      BY <2>0, <3>2 DEF Total
  <2>2. CASE now \in span /\ granted' # granted
    <3>1. ok /\ now >= newest[k] /\ granted'[k][now] = granted[k][now] + 1
      BY <1>9, <2>2
    <3>2. ASSUME NEW i \in span
          PROVE  /\ granted[k][i] \in Nat
                 /\ granted[k][i] # 0 =>
                      i \in Instants /\ kept[i] \in Nat /\ granted[k][i] <= kept[i]
      <4>1. granted[k][i] \in Nat /\ i \in Instants /\ kept[i] \in Nat /\ i \in Nat /\ x \in Nat
        BY <1>2, <1>5, <1>9
      <4>2. ASSUME granted[k][i] # 0 PROVE granted[k][i] <= kept[i]
        <5>1. i <= newest[k] /\ (newest[k] - i < Window => granted[k][i] <= bag[i])
          BY <1>1, <1>2, <1>3, <4>1, <4>2 DEF GrantsKept
        <5>2. newest[k] - i < Window /\ now - i < Window
          BY <1>2, <1>6, <2>2, <3>1, <4>1, <5>1
        <5> QED
          BY <1>5, <4>1, <5>1, <5>2
      <4> QED
        BY <4>1, <4>2
    <3>3. IsFiniteSet(Copies(granted[k], span)) /\ Total(granted[k], span) <= Total(kept, Instants)
      BY <1>11, <3>2, FewerCopies
    <3>4. Total(granted[k], span) \in Nat
      BY <3>3, FS_CardinalityType DEF Total
    <3>5. Total(kept, Instants) < MaxRequests
      BY <3>1 DEF ok, Admits
    <3>6. \A i \in span \ {now} : granted'[k][i] = granted[k][i]
      BY <1>9
    <3>7. Total(granted'[k], span) = Total(granted[k], span) + 1
      <4>1. granted[k][now] \in Nat /\ now \in span
        BY <1>2, <1>9, <2>2
      <4> HIDE DEF span
      <4> QED
        BY <3>1, <3>3, <3>6, <4>1, OneMoreCopy
    <3> QED
      BY <1>2, <1>11, <3>3, <3>4, <3>5, <3>7
  <2> QED
    BY <2>1, <2>2
<1>15. WindowBound'
  BY <1>1, <1>9, <1>14 DEF WindowBound
<1> QED
  BY <1>10, <1>12, <1>13, <1>15 DEF LimiterInv

(* WindowBound, for any number of threads, limit and window: no window has  *)
(* more than MaxRequests grants, but for those decided later than a younger *)
(* call (RateLimiter::check, auth.rs; try_acquire, utils.rs).               *)
THEOREM WindowBoundCorrect == LimiterSpec => []WindowBound
<1>1. LimiterInit => LimiterInv
  <2> SUFFICES ASSUME LimiterInit PROVE LimiterInv
    OBVIOUS
  <2>1. 0 \in Instants /\ NoInstants \in [Instants -> Nat]
    BY LimiterAssumption DEF Instants, NoInstants
  <2>2. LimiterTypes /\ GrantsKept
    BY <2>1 DEF LimiterInit, LimiterTypes, GrantsKept, NoInstants
  <2>3. \A k \in Keys : requests[k] = NoInstants /\ granted[k] = NoInstants
    BY DEF LimiterInit
  <2>4. \A k \in Keys : IsFiniteSet(Copies(requests[k], Instants))
    BY <2>3, NoCopies
  <2>5. WindowBound
    <3>1. ASSUME NEW k \in Keys, NEW x \in Instants
          PROVE  Total(granted[k], {i \in Instants : x <= i /\ i < x + Window}) <= MaxRequests
      <4>1. Total(granted[k], {i \in Instants : x <= i /\ i < x + Window}) = 0
        BY <2>3, NoCopies
      <4> QED
        BY <4>1, LimiterAssumption
    <3> QED
      BY <3>1 DEF WindowBound
  <2> QED
    BY <2>2, <2>4, <2>5 DEF LimiterInv
<1>2. LimiterInv /\ [LimiterNext]_limiterVars => LimiterInv'
  <2> SUFFICES ASSUME LimiterInv, [LimiterNext]_limiterVars PROVE LimiterInv'
    OBVIOUS
  <2>0. LimiterTypes
    BY DEF LimiterInv
  <2>1. ASSUME UNCHANGED <<requests, newest, granted>>, LimiterTypes' PROVE LimiterInv'
    BY <2>1 DEF LimiterInv, GrantsKept, WindowBound
  <2>2. CASE Tick
    BY <2>0, <2>1, <2>2, LimiterAssumption DEF Tick, LimiterTypes, Instants
  <2>3. ASSUME NEW t \in Askers, TakeTime(t) PROVE LimiterInv'
    <3>1. PICK k \in Keys, c \in {"check", "available"} :
            asking' = [asking EXCEPT ![t] = [key |-> k, at |-> clock, kind |-> c]]
      BY <2>3 DEF TakeTime
    <3>2. UNCHANGED <<clock, requests, newest, granted>>
      BY <2>3 DEF TakeTime
    <3>3. /\ asking' = [u \in Askers |-> asking'[u]]
          /\ \A u \in Askers : asking'[u] = IF u = t THEN [key |-> k, at |-> clock, kind |-> c]
                                             ELSE asking[u]
      BY <2>0, <3>1 DEF LimiterTypes
    <3> QED
      BY <2>0, <2>1, <3>2, <3>3 DEF LimiterTypes
  <2>4. ASSUME NEW t \in Askers, Decide(t) PROVE LimiterInv'
    BY <2>4, Decides
  <2>5. ASSUME NEW k \in Keys, Reset(k) PROVE LimiterInv'
    <3>1. /\ requests' = [requests EXCEPT ![k] = NoInstants]
          /\ newest' = [newest EXCEPT ![k] = 0]
          /\ granted' = [granted EXCEPT ![k] = NoInstants] /\ UNCHANGED <<clock, asking>>
      BY <2>5 DEF Reset
    <3>2. 0 \in Instants /\ NoInstants \in [Instants -> Nat]
      BY LimiterAssumption DEF Instants, NoInstants
    <3>3. LimiterTypes'
      BY <2>0, <3>1, <3>2 DEF LimiterTypes
    <3>4. /\ requests'[k] = NoInstants /\ granted'[k] = NoInstants
          /\ \A j \in Keys \ {k} : /\ requests'[j] = requests[j] /\ granted'[j] = granted[j]
                                   /\ newest'[j] = newest[j]
      BY <2>0, <3>1 DEF LimiterTypes
    <3>5. GrantsKept'
      BY <3>4 DEF LimiterInv, GrantsKept, NoInstants
    <3>6. \A j \in Keys : IsFiniteSet(Copies(requests'[j], Instants))
      BY <3>4, NoCopies DEF LimiterInv
    <3>7. WindowBound'
      <4>1. ASSUME NEW j \in Keys, NEW x \in Instants
            PROVE  Total(granted'[j], {i \in Instants : x <= i /\ i < x + Window}) <= MaxRequests
        <5>1. CASE j = k
          <6>1. Total(granted'[j], {i \in Instants : x <= i /\ i < x + Window}) = 0
            BY <3>4, <5>1, NoCopies
          <6> QED
            BY <6>1, LimiterAssumption
        <5>2. CASE j # k
          BY <3>4, <5>2 DEF LimiterInv, WindowBound
        <5> QED
          BY <5>1, <5>2
      <4> QED
        BY <4>1 DEF WindowBound
    <3> QED
      BY <3>3, <3>5, <3>6, <3>7 DEF LimiterInv
  <2>6. CASE UNCHANGED limiterVars
    BY <2>0, <2>1, <2>6 DEF limiterVars, LimiterTypes
  <2> QED
    BY <2>2, <2>3, <2>4, <2>5, <2>6 DEF LimiterNext
<1>3. LimiterInv => WindowBound
  BY DEF LimiterInv
<1> QED
  BY <1>1, <1>2, <1>3, PTL DEF LimiterSpec

------------------------------------------------------------------------------
(* ServiceMetrics, for any number of workers, any bounds and latencies.     *)

BeforeEnd == {"idle", "peak", "peakcas", "lookup", "insert", "start", "run"}
AfterEnd == {"max", "maxcas", "observe", "result"}
Peaking == {"peak", "peakcas"}

MetricsRecord == [total : Nat, active : Int, count : Nat, sum : Nat, max : Nat,
                  hist : [Buckets -> Nat], ended : [Results -> Nat]]

MetricsTypes ==
  /\ wpc \in [Workers -> BeforeEnd \cup AfterEnd \cup {"close", "done"}]
  /\ handle \in [Workers -> Objects \cup {0}]
  /\ value \in [Workers -> Nat] /\ seen \in [Workers -> Nat]
  /\ result \in [Workers -> Results \cup {"none", "cut"}]
  /\ registered \in Objects \cup {0}
  /\ metrics \in [Objects -> MetricsRecord]
  /\ tracker \in [total : Nat, active : Int, peak : Nat, closed : Nat]
  /\ most \in Nat
  /\ monitor \in [at : Nat, total : Nat, failures : Nat, cum : Nat, running : BOOLEAN,
                  alerts : SUBSET {"p99", "rate"}]

\* The workers have the object that is registered, and results once they end.
OneObject ==
  \A w \in Workers :
    /\ handle[w] # 0 => handle[w] = registered
    /\ wpc[w] \notin {"idle", "peak", "peakcas", "lookup", "insert"} => handle[w] # 0
    /\ wpc[w] \in BeforeEnd => result[w] = "none"
    /\ wpc[w] \in AfterEnd => result[w] \in Results
    /\ wpc[w] \in {"close", "done"} => result[w] # "none"

\* Whom each number of the object o counts.
Counted(o) == {w \in Workers : handle[w] = o
                               /\ wpc[w] \in {"run", "close", "done"} \cup AfterEnd}
Unended(o) == {w \in Workers : handle[w] = o /\ (wpc[w] = "run" \/ result[w] = "cut")}
HasEnded(o) == {w \in Workers : handle[w] = o /\ result[w] \in Results}
Resulted(o, r) == {w \in Workers : handle[w] = o /\ result[w] = r
                                   /\ wpc[w] \in {"close", "done"}}
Observed(o) == {w \in HasEnded(o) : wpc[w] \in {"result", "close", "done"}}
InBucket(o, b) == {w \in Observed(o) : Bucket(value[w]) = b}

Numbers(o) ==
  /\ metrics[o].total = Cardinality(Counted(o))
  /\ metrics[o].active = Cardinality(Unended(o))
  /\ metrics[o].count = Cardinality(HasEnded(o))
  /\ \A r \in Results : metrics[o].ended[r] = Cardinality(Resulted(o, r))
  /\ \A b \in Buckets : metrics[o].hist[b] = Cardinality(InBucket(o, b))

\* The maximum is of a request that has ended, and of none that has published.
MaxKept(o) ==
  /\ metrics[o].max \in {value[w] : w \in HasEnded(o)} \cup {0}
  /\ \A w \in HasEnded(o) : wpc[w] \in {"max", "maxcas"} \/ value[w] <= metrics[o].max

\* Connections, and their peak, which somebody may still have to publish.
Tracked ==
  /\ tracker.active = Cardinality({w \in Workers : wpc[w] \notin {"idle", "done"}})
  /\ tracker.closed = Cardinality({w \in Workers : wpc[w] = "done"})
  /\ tracker.total = Cardinality({w \in Workers : wpc[w] # "idle"})
PeakKept ==
  /\ \A w \in Workers : wpc[w] \in Peaking => value[w] <= most
  /\ \A w \in Workers : wpc[w] \in {"peakcas", "maxcas"} => seen[w] < value[w]
  /\ tracker.peak <= most
  /\ tracker.peak = most \/ \E w \in Workers : wpc[w] \in Peaking /\ value[w] = most

CountingInv ==
  /\ MetricsTypes /\ OneObject /\ Tracked /\ PeakKept
  /\ \A o \in Objects : Numbers(o) /\ MaxKept(o)

Outside == {"idle", "peak", "peakcas", "lookup", "insert", "start"}
Apart(w, o) == handle[w] # o \/ (wpc[w] \in Outside /\ result[w] = "none")
Steady(w) ==
  \A v \in Workers \ {w} : /\ wpc'[v] = wpc[v] /\ handle'[v] = handle[v]
                           /\ value'[v] = value[v] /\ seen'[v] = seen[v]
                           /\ result'[v] = result[v]

LEMMA AddWorker ==
  ASSUME NEW S, S \subseteq Workers, NEW w \in Workers
  PROVE  /\ Cardinality(S) \in Nat /\ Cardinality(S \cup {w}) \in Nat
         /\ w \notin S => Cardinality(S \cup {w}) = Cardinality(S) + 1
         /\ w \in S => Cardinality(S \ {w}) = Cardinality(S) - 1
<1>1. IsFiniteSet(S)
  BY FS_Subset, MetricsAssumption
<1> QED
  BY <1>1, FS_AddElement, FS_RemoveElement, FS_CardinalityType

(* The bucket of a value: one of the buckets, and, if the value is within a *)
(* bound, not past the bucket of that bound (Histogram::observe).           *)
LEMMA BucketWithin ==
  ASSUME NEW v \in Nat
  PROVE  /\ Bucket(v) \in Buckets
         /\ \A s \in DOMAIN Bounds : v <= Bounds[s] => Bucket(v) <= s
<1> DEFINE below == {i \in DOMAIN Bounds : Bounds[i] < v}
<1>1. Len(Bounds) \in Nat /\ DOMAIN Bounds = 1 .. Len(Bounds)
      /\ \A i \in DOMAIN Bounds : Bounds[i] \in Nat
  BY MetricsAssumption
<1>2. ASSUME NEW n \in Nat, below \subseteq 1 .. n
      PROVE  Cardinality(below) \in Nat /\ Cardinality(below) <= n
  <2>1. IsFiniteSet(1 .. n) /\ Cardinality(1 .. n) = n
    BY FS_Interval
  <2> QED
    BY <1>2, <2>1, FS_Subset, FS_CardinalityType
<1>3. Bucket(v) \in Buckets
  <2>1. below \subseteq 1 .. Len(Bounds)
    BY <1>1
  <2> QED
    BY <1>1, <1>2, <2>1 DEF Bucket, Buckets
<1>4. ASSUME NEW s \in DOMAIN Bounds, v <= Bounds[s] PROVE Bucket(v) <= s
  <2>1. ASSUME NEW i \in below PROVE i \in 1 .. s - 1
    <3>1. i \in DOMAIN Bounds /\ Bounds[i] < v /\ Bounds[i] < Bounds[s]
      BY <1>1, <1>4
    <3>2. ~(s < i) /\ s # i
      BY <1>1, <1>4, <3>1, MetricsAssumption
    <3> QED
      BY <1>1, <1>4, <3>1, <3>2
  <2>2. s - 1 \in Nat
    BY <1>1
  <2>3. Cardinality(below) <= s - 1
    BY <1>2, <2>1, <2>2
  <2> QED
    BY <1>1, <1>2, <2>1, <2>2, <2>3 DEF Bucket
<1> QED
  BY <1>3, <1>4

(* A worker that an object does not count leaves its numbers alone.         *)
LEMMA Unaffected ==
  ASSUME NEW w \in Workers, Steady(w), NEW o \in Objects, Numbers(o), MaxKept(o),
         metrics'[o] = metrics[o], Apart(w, o), Apart(w, o)'
  PROVE  Numbers(o)' /\ MaxKept(o)'
<1>1. Counted(o)' = Counted(o) /\ Unended(o)' = Unended(o) /\ HasEnded(o)' = HasEnded(o)
  BY DEF Apart, Steady, Counted, Unended, HasEnded, Outside, AfterEnd, Results
<1>2. w \notin HasEnded(o)
  BY DEF Apart, HasEnded, Results
<1>3. \A r \in Results : Resulted(o, r)' = Resulted(o, r)
  BY DEF Apart, Steady, Resulted, Outside, Results
<1>4. Observed(o)' = Observed(o)
  BY <1>1, <1>2 DEF Steady, Observed, HasEnded
<1>5. \A b \in Buckets : InBucket(o, b)' = InBucket(o, b)
  BY <1>2, <1>4 DEF Steady, InBucket, Observed, HasEnded
<1>6. Numbers(o)'
  BY <1>1, <1>3, <1>5 DEF Numbers
<1>7. MaxKept(o)'
  <2>1. \A v \in HasEnded(o) : value'[v] = value[v] /\ wpc'[v] = wpc[v]
    BY <1>2 DEF Steady, HasEnded
  <2>2. {value'[v] : v \in HasEnded(o)} = {value[v] : v \in HasEnded(o)}
    BY <2>1
  <2> QED
    BY <1>1, <2>1, <2>2 DEF MaxKept
<1> QED
  BY <1>6, <1>7

(* What a worker's step leaves alone, and what its numbers are.             *)
LEMMA WorkFrame ==
  ASSUME MetricsTypes, OneObject, NEW w \in Workers, Work(w)
  PROVE  Steady(w) /\ UNCHANGED monitor
<1>1. ASSUME NEW l, WGoto(w, l)
      PROVE  wpc' = [wpc EXCEPT ![w] = l] /\ \A v \in Workers \ {w} : wpc'[v] = wpc[v]
  BY <1>1 DEF WGoto, MetricsTypes
<1>2. \A l : WGoto(w, l) => \A v \in Workers \ {w} : wpc'[v] = wpc[v]
  BY <1>1
<1>3. \A v \in Workers \ {w} : wpc'[v] = wpc[v]
  BY <1>2 DEF Work, Opened, PeakLoad, PeakCas, Closed, Lookup, Insert, RequestStart,
              RequestEnd, MaxLoad, MaxCas, Observe, CountResult
<1>4. \A v \in Workers \ {w} : handle'[v] = handle[v] /\ seen'[v] = seen[v]
  BY DEF MetricsTypes, Work, Opened, PeakLoad, PeakCas, Closed, Lookup, Insert, RequestStart,
         RequestEnd, MaxLoad, MaxCas, Observe, CountResult
<1>5. \A v \in Workers \ {w} : value'[v] = value[v] /\ result'[v] = result[v]
  BY DEF MetricsTypes, Work, Opened, PeakLoad, PeakCas, Closed, Lookup, Insert, RequestStart,
         RequestEnd, MaxLoad, MaxCas, Observe, CountResult
<1>6. UNCHANGED monitor
  BY DEF Work, Opened, PeakLoad, PeakCas, Closed, Lookup, Insert, RequestStart,
         RequestEnd, MaxLoad, MaxCas, Observe, CountResult
<1> QED
  BY <1>3, <1>4, <1>5, <1>6 DEF Steady

(* The greatest of two numbers, and trackers that are not concerned.        *)
LEMMA GreatestOfTwo ==
  ASSUME NEW m \in Nat, NEW n \in Nat
  PROVE  /\ Maximum({m, n}) \in {m, n}
         /\ m <= Maximum({m, n}) /\ n <= Maximum({m, n})
<1> DEFINE P(k) == \A j \in {m, n} : j <= k
<1>1. \E k \in {m, n} \cup {0} : P(k)
  <2>1. CASE m <= n
    BY <2>1
  <2>2. CASE n <= m
    BY <2>2
  <2> QED
    BY <2>1, <2>2
<1>2. PICK k : k = Maximum({m, n})
  OBVIOUS
<1>3. k = CHOOSE i \in {m, n} \cup {0} : P(i)
  BY <1>2 DEF Maximum
<1>4. k \in {m, n} \cup {0} /\ P(k)
  BY <1>1, <1>3
<1> QED
  BY <1>2, <1>4

LEMMA SameTracked ==
  ASSUME NEW w \in Workers, Tracked, Steady(w),
         wpc[w] \notin {"idle", "done"}, wpc'[w] \notin {"idle", "done"},
         tracker'.active = tracker.active, tracker'.closed = tracker.closed,
         tracker'.total = tracker.total
  PROVE  Tracked'
<1>1. /\ {v \in Workers : wpc'[v] \notin {"idle", "done"}}
           = {v \in Workers : wpc[v] \notin {"idle", "done"}}
      /\ {v \in Workers : wpc'[v] = "done"} = {v \in Workers : wpc[v] = "done"}
      /\ {v \in Workers : wpc'[v] # "idle"} = {v \in Workers : wpc[v] # "idle"}
  BY DEF Steady
<1> QED
  BY <1>1 DEF Tracked

(* The steps around a request: the object's numbers are not concerned.      *)
LEMMA ConnectionSteps ==
  ASSUME CountingInv, NEW w \in Workers,
         Opened(w) \/ PeakLoad(w) \/ PeakCas(w) \/ Lookup(w) \/ Insert(w)
  PROVE  CountingInv'
<1>1. /\ MetricsTypes /\ OneObject /\ Tracked /\ PeakKept
      /\ \A o \in Objects : Numbers(o) /\ MaxKept(o)
  BY DEF CountingInv
<1>2. Steady(w) /\ UNCHANGED monitor
  BY <1>1, WorkFrame DEF Work
<1>3. /\ metrics' = metrics /\ result' = result /\ result[w] = "none"
      /\ wpc[w] \in Outside
  BY <1>1 DEF Opened, PeakLoad, PeakCas, Lookup, Insert, OneObject, BeforeEnd, Outside
<1>4. ASSUME wpc'[w] \in Outside
      PROVE  \A o \in Objects : Numbers(o)' /\ MaxKept(o)'
  BY <1>1, <1>2, <1>3, <1>4, Unaffected DEF Apart
<1>5. CASE Opened(w)
  <2>1. /\ wpc[w] = "idle" /\ wpc' = [wpc EXCEPT ![w] = "peak"]
        /\ tracker' = [tracker EXCEPT !.total = @ + 1, !.active = @ + 1]
        /\ value' = [value EXCEPT ![w] = tracker.active + 1]
        /\ most' = Maximum({most, tracker.active + 1})
        /\ UNCHANGED <<handle, result, seen, registered, metrics, monitor>>
    BY <1>5 DEF Opened, WGoto
  <2>2. wpc'[w] = "peak" /\ value'[w] = tracker.active + 1
    BY <1>1, <2>1 DEF MetricsTypes
  <2>3. PICK S : S = {v \in Workers : wpc[v] \notin {"idle", "done"}}
    OBVIOUS
  <2>4. PICK T : T = {v \in Workers : wpc[v] # "idle"}
    OBVIOUS
  <2>5. /\ {v \in Workers : wpc'[v] \notin {"idle", "done"}} = S \cup {w}
        /\ {v \in Workers : wpc'[v] # "idle"} = T \cup {w}
        /\ {v \in Workers : wpc'[v] = "done"} = {v \in Workers : wpc[v] = "done"}
    BY <1>2, <2>1, <2>2, <2>3, <2>4 DEF Steady
  <2>6. /\ tracker.active \in Nat /\ Cardinality(S \cup {w}) = tracker.active + 1
        /\ Cardinality(T \cup {w}) = tracker.total + 1
    BY <1>1, <2>1, <2>3, <2>4, AddWorker DEF Tracked
  <2>7. Tracked'
    BY <1>1, <2>1, <2>5, <2>6 DEF Tracked, MetricsTypes
  <2>8. most' \in {most, tracker.active + 1} /\ most <= most' /\ tracker.active + 1 <= most'
    <3>1. PICK n : n = tracker.active + 1
      OBVIOUS
    <3>2. n \in Nat /\ most \in Nat
      BY <1>1, <2>6, <3>1 DEF MetricsTypes
    <3>3. most' = Maximum({most, n})
      BY <2>1, <3>1
    <3> QED
      BY <3>1, <3>2, <3>3, GreatestOfTwo
  <2>9. MetricsTypes'
    <3>1. most' \in Nat /\ value' \in [Workers -> Nat]
      BY <1>1, <2>1, <2>6, <2>8 DEF MetricsTypes
    <3>2. tracker' \in [total : Nat, active : Int, peak : Nat, closed : Nat]
      <4>1. tracker' = [total |-> tracker.total + 1, active |-> tracker.active + 1,
                        peak |-> tracker.peak, closed |-> tracker.closed]
        BY <1>1, <2>1 DEF MetricsTypes
      <4> QED
        BY <1>1, <4>1 DEF MetricsTypes
    <3> QED
      BY <1>1, <2>1, <3>1, <3>2 DEF MetricsTypes, BeforeEnd
  <2>10. OneObject'
    BY <1>1, <1>2, <2>1, <2>2 DEF OneObject, Steady, BeforeEnd, AfterEnd
  <2>11. tracker'.peak = tracker.peak /\ tracker.peak \in Nat /\ most \in Nat /\ most' \in Nat
    BY <1>1, <2>1, <2>9 DEF MetricsTypes
  <2>12. PeakKept'
    <3>1. /\ \A v \in Workers : wpc'[v] \in Peaking => value'[v] <= most'
          /\ \A v \in Workers : wpc'[v] \in {"peakcas", "maxcas"} => seen'[v] < value'[v]
      BY <1>1, <1>2, <2>1, <2>2, <2>8, <2>11 DEF PeakKept, Steady, MetricsTypes
    <3>2. most' # most => wpc'[w] \in Peaking /\ value'[w] = most'
      BY <2>2, <2>8 DEF Peaking
    <3>3. \A v \in Workers : wpc[v] \in Peaking => v # w /\ wpc'[v] \in Peaking /\ value'[v] = value[v]
      BY <1>2, <2>1 DEF Steady, Peaking
    <3> QED
      BY <1>1, <2>2, <2>8, <2>11, <3>1, <3>2, <3>3 DEF PeakKept
  <2> QED
    BY <1>4, <2>2, <2>7, <2>9, <2>10, <2>12 DEF CountingInv, Outside
<1>6. ASSUME UNCHANGED tracker, wpc[w] \in Outside \ {"idle"}, wpc'[w] \in Outside \ {"idle"}
      PROVE  Tracked'
  BY <1>1, <1>2, <1>6, SameTracked DEF Outside
<1>7. CASE PeakLoad(w)
  <2>1. /\ wpc[w] = "peak"
        /\ wpc' = [wpc EXCEPT ![w] = IF value[w] <= tracker.peak THEN "lookup" ELSE "peakcas"]
        /\ seen' = [seen EXCEPT ![w] = tracker.peak]
        /\ UNCHANGED <<handle, value, result, registered, metrics, tracker, most, monitor>>
    BY <1>7 DEF PeakLoad, WGoto
  <2>2. /\ wpc'[w] = IF value[w] <= tracker.peak THEN "lookup" ELSE "peakcas"
        /\ seen'[w] = tracker.peak /\ tracker.peak \in Nat /\ value[w] \in Nat /\ most \in Nat
    BY <1>1, <2>1 DEF MetricsTypes
  <2>3. MetricsTypes'
    BY <1>1, <2>1 DEF MetricsTypes, BeforeEnd
  <2>4. OneObject'
    BY <1>1, <1>2, <2>1, <2>2 DEF OneObject, Steady, BeforeEnd, AfterEnd
  <2>5. PeakKept'
    <3>1. /\ \A v \in Workers : wpc'[v] \in Peaking => value'[v] <= most
          /\ \A v \in Workers : wpc'[v] \in {"peakcas", "maxcas"} => seen'[v] < value'[v]
      BY <1>1, <1>2, <2>1, <2>2 DEF PeakKept, Steady, Peaking
    <3>2. ASSUME NEW v \in Workers, wpc[v] \in Peaking, value[v] = most, tracker.peak # most
          PROVE  wpc'[v] \in Peaking
      <4>1. CASE v = w
        BY <1>1, <2>2, <3>2, <4>1 DEF PeakKept, Peaking
      <4>2. CASE v # w
        BY <1>2, <3>2, <4>2 DEF Steady
      <4> QED
        BY <4>1, <4>2
    <3> QED
      BY <1>1, <2>1, <3>1, <3>2 DEF PeakKept
  <2> QED
    BY <1>4, <1>6, <2>1, <2>2, <2>3, <2>4, <2>5 DEF CountingInv, Outside
<1>8. CASE PeakCas(w)
  <2>1. /\ wpc[w] = "peakcas"
        /\ UNCHANGED <<handle, value, result, seen, registered, metrics, most, monitor>>
    BY <1>8 DEF PeakCas
  <2>2. value[w] \in Nat /\ most \in Nat /\ tracker.peak \in Nat /\ seen[w] \in Nat
        /\ value[w] <= most /\ seen[w] < value[w]
    BY <1>1, <2>1 DEF MetricsTypes, PeakKept, Peaking
  <2>3. CASE /\ tracker.peak = seen[w] /\ tracker' = [tracker EXCEPT !.peak = value[w]]
             /\ WGoto(w, "lookup")
    <3>1. /\ wpc' = [wpc EXCEPT ![w] = "lookup"] /\ wpc'[w] = "lookup"
          /\ tracker'.peak = value[w] /\ tracker'.active = tracker.active
          /\ tracker'.closed = tracker.closed /\ tracker'.total = tracker.total
      BY <1>1, <2>3 DEF WGoto, MetricsTypes
    <3>2. MetricsTypes'
      BY <1>1, <2>1, <2>2, <2>3, <3>1 DEF MetricsTypes, BeforeEnd
    <3>3. OneObject'
      BY <1>1, <1>2, <2>1, <3>1 DEF OneObject, Steady, BeforeEnd, AfterEnd
    <3>4. Tracked'
      BY <1>1, <1>2, <2>1, <3>1, SameTracked
    <3>5. PeakKept'
      <4>1. /\ \A v \in Workers : wpc'[v] \in Peaking => value'[v] <= most
            /\ \A v \in Workers : wpc'[v] \in {"peakcas", "maxcas"} => seen'[v] < value'[v]
        BY <1>1, <1>2, <2>1, <3>1 DEF PeakKept, Steady, Peaking
      <4>2. CASE value[w] = most
        BY <2>1, <2>2, <3>1, <4>1, <4>2 DEF PeakKept
      <4>3. CASE value[w] # most
        <5>1. PICK v \in Workers : wpc[v] \in Peaking /\ value[v] = most
          BY <1>1, <2>2, <2>3 DEF PeakKept
        <5>2. v # w
          BY <4>3, <5>1
        <5>3. wpc'[v] \in Peaking /\ value'[v] = most'
          BY <1>2, <2>1, <5>1, <5>2 DEF Steady
        <5> QED
          BY <2>1, <2>2, <3>1, <4>1, <5>3 DEF PeakKept
      <4> QED
        BY <4>2, <4>3
    <3> QED
      BY <1>4, <3>1, <3>2, <3>3, <3>4, <3>5 DEF CountingInv, Outside
  <2>4. CASE tracker.peak # seen[w] /\ WGoto(w, "peak") /\ UNCHANGED tracker
    <3>1. wpc' = [wpc EXCEPT ![w] = "peak"] /\ wpc'[w] = "peak" /\ tracker' = tracker
      BY <1>1, <2>4 DEF WGoto, MetricsTypes
    <3>2. MetricsTypes'
      BY <1>1, <2>1, <3>1 DEF MetricsTypes, BeforeEnd
    <3>3. OneObject'
      BY <1>1, <1>2, <2>1, <3>1 DEF OneObject, Steady, BeforeEnd, AfterEnd
    <3>4. PeakKept'
      BY <1>1, <1>2, <2>1, <3>1 DEF PeakKept, Steady, Peaking
    <3> QED
      BY <1>4, <1>6, <2>1, <3>1, <3>2, <3>3, <3>4 DEF CountingInv, Outside
  <2> QED
    BY <1>8, <2>3, <2>4 DEF PeakCas
<1>9. ASSUME Lookup(w) \/ Insert(w)
      PROVE  /\ wpc[w] \in {"lookup", "insert"} /\ wpc'[w] \in {"insert", "start"}
             /\ MetricsTypes' /\ OneObject'
             /\ UNCHANGED <<value, result, seen, metrics, tracker, most, monitor>>
  <2>1. CASE Lookup(w)
    <3>1. /\ wpc[w] = "lookup" /\ handle' = [handle EXCEPT ![w] = registered]
          /\ wpc' = [wpc EXCEPT ![w] = IF registered # 0 THEN "start" ELSE "insert"]
          /\ UNCHANGED <<value, result, seen, registered, metrics, tracker, most, monitor>>
      BY <2>1 DEF Lookup, WGoto
    <3>2. handle'[w] = registered /\ wpc'[w] = IF registered # 0 THEN "start" ELSE "insert"
      BY <1>1, <3>1 DEF MetricsTypes
    <3>3. MetricsTypes'
      BY <1>1, <3>1 DEF MetricsTypes, BeforeEnd
    <3>4. OneObject'
      BY <1>1, <1>2, <1>3, <3>1, <3>2 DEF OneObject, Steady, BeforeEnd, AfterEnd
    <3> QED
      BY <3>1, <3>2, <3>3, <3>4
  <2>2. CASE Insert(w)
    <3>1. /\ wpc[w] = "insert" /\ wpc' = [wpc EXCEPT ![w] = "start"]
          /\ UNCHANGED <<value, result, seen, metrics, tracker, most, monitor>>
      BY <2>2 DEF Insert, WGoto
    <3>2. PICK o \in Objects : /\ handle' = [handle EXCEPT ![w] = o] /\ registered' = o
                               /\ registered # 0 => registered = o
      BY <1>1, <2>2 DEF Insert, MetricsTypes
    <3>3. handle'[w] = o /\ wpc'[w] = "start" /\ o # 0
      BY <1>1, <3>1, <3>2 DEF MetricsTypes, Objects
    <3>4. MetricsTypes'
      BY <1>1, <3>1, <3>2 DEF MetricsTypes, BeforeEnd
    <3>5. OneObject'
      <4>1. \A v \in Workers \ {w} : handle[v] # 0 => handle[v] = o
        BY <1>1, <3>2 DEF OneObject
      <4> QED
        BY <1>1, <1>2, <1>3, <3>1, <3>2, <3>3, <4>1 DEF OneObject, Steady, BeforeEnd, AfterEnd
    <3> QED
      BY <3>1, <3>3, <3>4, <3>5
  <2> QED
    BY <1>9, <2>1, <2>2
<1>10. CASE Lookup(w) \/ Insert(w)
  <2>1. PeakKept'
    <3>1. \A v \in Workers : wpc'[v] \in Peaking \cup {"maxcas"} => wpc'[v] = wpc[v]
      BY <1>2, <1>9, <1>10 DEF Steady, Peaking
    <3>2. \A v \in Workers : wpc[v] \in Peaking \cup {"maxcas"} => wpc'[v] = wpc[v]
      BY <1>2, <1>9, <1>10 DEF Steady, Peaking
    <3> QED
      BY <1>1, <1>9, <1>10, <3>1, <3>2 DEF PeakKept, Peaking
  <2> QED
    BY <1>4, <1>6, <1>9, <1>10, <2>1 DEF CountingInv, Outside
<1> QED
  BY <1>5, <1>7, <1>8, <1>10

(* A request starts, ends, and is published: the object of its worker.      *)
LEMMA OwnObject ==
  ASSUME CountingInv, NEW w \in Workers, Work(w), wpc[w] \notin Outside \ {"start"}
  PROVE  /\ Steady(w) /\ handle[w] \in Objects /\ handle[w] = registered
         /\ metrics \in [Objects -> MetricsRecord] /\ metrics[handle[w]] \in MetricsRecord
         /\ handle' = handle /\ UNCHANGED <<registered, most, monitor>>
         /\ \A o \in Objects : /\ Numbers(o) /\ MaxKept(o)
                                /\ Counted(o) \subseteq Workers /\ Unended(o) \subseteq Workers
                                /\ HasEnded(o) \subseteq Workers
                                /\ \A r : Resulted(o, r) \subseteq Workers
                                /\ \A b : InBucket(o, b) \subseteq Workers
         /\ \A o \in Objects \ {handle[w]} :
              metrics'[o] = metrics[o] => Numbers(o)' /\ MaxKept(o)'
<1>1. /\ MetricsTypes /\ OneObject /\ Tracked /\ PeakKept
      /\ \A o \in Objects : Numbers(o) /\ MaxKept(o)
  BY DEF CountingInv
<1>2. Steady(w) /\ UNCHANGED monitor
  BY <1>1, WorkFrame
<1>3. handle' = handle /\ UNCHANGED <<registered, most>>
  BY DEF Work, Opened, PeakLoad, PeakCas, Closed, Lookup, Insert, RequestStart,
         RequestEnd, MaxLoad, MaxCas, Observe, CountResult, Outside
<1>4. handle[w] # 0 /\ handle[w] = registered /\ handle[w] \in Objects
  BY <1>1 DEF OneObject, Outside, MetricsTypes
<1>5. metrics \in [Objects -> MetricsRecord] /\ metrics[handle[w]] \in MetricsRecord
  BY <1>1, <1>4 DEF MetricsTypes
<1>6. ASSUME NEW o \in Objects \ {handle[w]}, metrics'[o] = metrics[o]
      PROVE  Numbers(o)' /\ MaxKept(o)'
  <2>1. Apart(w, o) /\ Apart(w, o)'
    BY <1>3 DEF Apart
  <2> QED
    BY <1>1, <1>2, <1>6, <2>1, Unaffected
<1>7. ASSUME NEW o \in Objects
      PROVE  /\ Counted(o) \subseteq Workers /\ Unended(o) \subseteq Workers
             /\ HasEnded(o) \subseteq Workers
             /\ \A r : Resulted(o, r) \subseteq Workers
             /\ \A b : InBucket(o, b) \subseteq Workers
  BY DEF Counted, Unended, HasEnded, Resulted, InBucket, Observed
<1> QED
  BY <1>1, <1>2, <1>3, <1>4, <1>5, <1>6, <1>7

LEMMA Starts ==
  ASSUME CountingInv, NEW w \in Workers, RequestStart(w)
  PROVE  CountingInv'
<1>0. PICK o, m : o = handle[w] /\ m = metrics[o]
  OBVIOUS
<1>1. /\ MetricsTypes /\ OneObject /\ Tracked /\ PeakKept
  BY DEF CountingInv
<1>2. /\ wpc[w] = "start" /\ wpc' = [wpc EXCEPT ![w] = "run"]
      /\ metrics' = [metrics EXCEPT ![o] = [m EXCEPT !.total = @ + 1, !.active = @ + 1]]
      /\ UNCHANGED <<handle, value, result, seen, registered, tracker, most, monitor>>
  BY <1>0 DEF RequestStart, WGoto, SetMine, Mine
<1>3. Work(w) /\ wpc[w] \notin Outside \ {"start"}
  BY <1>2 DEF Work, Outside
<1>4. /\ Steady(w) /\ o \in Objects /\ m \in MetricsRecord /\ Numbers(o) /\ MaxKept(o)
      /\ metrics \in [Objects -> MetricsRecord]
      /\ \A p \in Objects \ {o} : metrics'[p] = metrics[p] => Numbers(p)' /\ MaxKept(p)'
  BY <1>0, <1>3, OwnObject
<1>5. wpc'[w] = "run" /\ result[w] = "none"
  BY <1>1, <1>2 DEF MetricsTypes, OneObject, BeforeEnd
<1>6. PICK n : n = [m EXCEPT !.total = @ + 1, !.active = @ + 1]
  OBVIOUS
<1>7. /\ n.total = m.total + 1 /\ n.active = m.active + 1 /\ n.count = m.count
      /\ n.ended = m.ended /\ n.hist = m.hist /\ n.max = m.max
      /\ n \in MetricsRecord
  <2>1. n = [total |-> m.total + 1, active |-> m.active + 1, count |-> m.count,
             sum |-> m.sum, max |-> m.max, hist |-> m.hist, ended |-> m.ended]
    BY <1>4, <1>6 DEF MetricsRecord
  <2> QED
    BY <1>4, <2>1 DEF MetricsRecord
<1>8. /\ metrics' = [metrics EXCEPT ![o] = n]
      /\ metrics' \in [Objects -> MetricsRecord] /\ metrics'[o] = n
      /\ \A p \in Objects \ {o} : metrics'[p] = metrics[p]
  BY <1>2, <1>4, <1>6, <1>7
<1>9. MetricsTypes'
  BY <1>1, <1>2, <1>8 DEF MetricsTypes, BeforeEnd
<1>10. OneObject'
  BY <1>1, <1>2, <1>4, <1>5 DEF OneObject, Steady, BeforeEnd, AfterEnd
<1>11. Tracked'
  BY <1>1, <1>2, <1>4, <1>5, SameTracked
<1>12. PeakKept'
  BY <1>1, <1>2, <1>4, <1>5 DEF PeakKept, Steady, Peaking
<1>13. /\ w \notin Counted(o) /\ Counted(o)' = Counted(o) \cup {w}
       /\ w \notin Unended(o) /\ Unended(o)' = Unended(o) \cup {w}
  BY <1>0, <1>2, <1>4, <1>5 DEF Counted, Unended, Steady, AfterEnd
<1>14. /\ HasEnded(o)' = HasEnded(o) /\ Observed(o)' = Observed(o)
       /\ \A r \in Results : Resulted(o, r)' = Resulted(o, r)
       /\ \A b \in Buckets : InBucket(o, b)' = InBucket(o, b)
  BY <1>2, <1>4, <1>5 DEF HasEnded, Observed, Resulted, InBucket, Steady, Results
<1>15. Numbers(o)'
  <2>1. Counted(o) \subseteq Workers /\ Unended(o) \subseteq Workers
    BY DEF Counted, Unended
  <2>2. /\ n.total = Cardinality(Counted(o)') /\ n.active = Cardinality(Unended(o)')
    BY <1>0, <1>4, <1>7, <1>13, <2>1, AddWorker DEF Numbers
  <2> QED
    BY <1>0, <1>4, <1>7, <1>8, <1>14, <2>2 DEF Numbers
<1>16. MaxKept(o)'
  BY <1>0, <1>2, <1>4, <1>5, <1>7, <1>8, <1>14 DEF MaxKept, HasEnded, Steady, Results
<1> QED
  BY <1>4, <1>8, <1>9, <1>10, <1>11, <1>12, <1>15, <1>16 DEF CountingInv

LEMMA Ends ==
  ASSUME CountingInv, NEW w \in Workers, RequestEnd(w)
  PROVE  CountingInv'
<1>0. PICK o, m : o = handle[w] /\ m = metrics[o]
  OBVIOUS
<1>1. /\ MetricsTypes /\ OneObject /\ Tracked /\ PeakKept
  BY DEF CountingInv
<1>2. /\ wpc[w] = "run" /\ result[w] = "none"
      /\ UNCHANGED <<handle, seen, registered, tracker, most, monitor>>
  BY <1>1 DEF RequestEnd, OneObject, BeforeEnd
<1>3. Work(w) /\ wpc[w] \notin Outside \ {"start"}
  BY <1>2 DEF Work, Outside
<1>4. /\ Steady(w) /\ o \in Objects /\ m \in MetricsRecord /\ Numbers(o) /\ MaxKept(o)
      /\ metrics \in [Objects -> MetricsRecord]
      /\ \A p \in Objects \ {o} : metrics'[p] = metrics[p] => Numbers(p)' /\ MaxKept(p)'
  BY <1>0, <1>3, OwnObject
<1>5. w \notin HasEnded(o) /\ w \in Unended(o)
  BY <1>0, <1>2 DEF HasEnded, Unended, Results
<1>6. ASSUME wpc'[w] \in {"max", "close"}
      PROVE  /\ Tracked'
             /\ PeakKept'
             /\ \A p \in Objects : Counted(p)' = Counted(p)
  <2>1. Tracked'
    BY <1>1, <1>2, <1>4, <1>6, SameTracked
  <2>2. PeakKept'
    BY <1>1, <1>2, <1>4, <1>6 DEF PeakKept, Steady, Peaking
  <2>3. \A p \in Objects : Counted(p)' = Counted(p)
    BY <1>2, <1>4, <1>6 DEF Counted, Steady, AfterEnd
  <2> QED
    BY <2>1, <2>2, <2>3
<1>7. ASSUME NEW v \in Latencies, NEW r \in Results,
             value' = [value EXCEPT ![w] = v], result' = [result EXCEPT ![w] = r],
             SetMine(w, [Mine(w) EXCEPT !.active = @ - 1, !.count = @ + 1, !.sum = @ + v]),
             WGoto(w, "max")
      PROVE  CountingInv'
  <2>1. /\ v \in Nat /\ wpc' = [wpc EXCEPT ![w] = "max"]
        /\ wpc'[w] = "max" /\ result'[w] = r /\ value'[w] = v
    BY <1>1, <1>7, MetricsAssumption DEF MetricsTypes, WGoto
  <2>2. PICK n : n = [m EXCEPT !.active = @ - 1, !.count = @ + 1, !.sum = @ + v]
    OBVIOUS
  <2>3. /\ n.total = m.total /\ n.active = m.active - 1 /\ n.count = m.count + 1
        /\ n.ended = m.ended /\ n.hist = m.hist /\ n.max = m.max
        /\ n \in MetricsRecord
    <3>1. n = [total |-> m.total, active |-> m.active - 1, count |-> m.count + 1,
               sum |-> m.sum + v, max |-> m.max, hist |-> m.hist, ended |-> m.ended]
      BY <1>4, <2>2 DEF MetricsRecord
    <3> QED
      BY <1>4, <2>1, <3>1 DEF MetricsRecord
  <2>4. /\ metrics' = [metrics EXCEPT ![o] = n]
        /\ metrics' \in [Objects -> MetricsRecord] /\ metrics'[o] = n
        /\ \A p \in Objects \ {o} : metrics'[p] = metrics[p]
    BY <1>0, <1>4, <1>7, <2>2, <2>3 DEF SetMine, Mine
  <2>5. MetricsTypes'
    BY <1>1, <1>2, <1>7, <2>1, <2>4 DEF MetricsTypes, AfterEnd
  <2>6. OneObject'
    BY <1>1, <1>2, <1>4, <2>1 DEF OneObject, Steady, BeforeEnd, AfterEnd
  <2>7. Unended(o)' = Unended(o) \ {w} /\ HasEnded(o)' = HasEnded(o) \cup {w}
    BY <1>0, <1>2, <1>4, <2>1 DEF Unended, HasEnded, Steady, Results
  <2>8. /\ Observed(o)' = Observed(o)
        /\ \A q \in Results : Resulted(o, q)' = Resulted(o, q)
    BY <1>2, <1>4, <1>5, <2>1, <2>7 DEF Observed, Resulted, HasEnded, Steady
  <2>9. \A b \in Buckets : InBucket(o, b)' = InBucket(o, b)
    BY <1>4, <1>5, <2>8 DEF InBucket, Observed, HasEnded, Steady
  <2>10. Numbers(o)'
    <3>1. Unended(o) \subseteq Workers /\ HasEnded(o) \subseteq Workers
      BY DEF Unended, HasEnded
    <3>2. n.active = Cardinality(Unended(o)') /\ n.count = Cardinality(HasEnded(o)')
      BY <1>0, <1>4, <1>5, <2>3, <2>7, <3>1, AddWorker DEF Numbers
    <3> QED
      BY <1>0, <1>4, <1>6, <2>1, <2>3, <2>4, <2>8, <2>9, <3>2 DEF Numbers
  <2>11. MaxKept(o)'
    <3>1. \A x \in HasEnded(o) : value'[x] = value[x] /\ wpc'[x] = wpc[x]
      BY <1>4, <1>5 DEF Steady, HasEnded
    <3>2. {value[x] : x \in HasEnded(o)} \subseteq {value'[x] : x \in HasEnded(o)'}
      BY <2>7, <3>1
    <3> QED
      BY <1>0, <1>4, <2>1, <2>3, <2>4, <2>7, <3>1, <3>2 DEF MaxKept
  <2> QED
    BY <1>4, <1>6, <2>1, <2>4, <2>5, <2>6, <2>10, <2>11 DEF CountingInv
<1>8. ASSUME result' = [result EXCEPT ![w] = "cut"], WGoto(w, "close"),
             UNCHANGED <<value, metrics>>
      PROVE  CountingInv'
  <2>1. /\ wpc' = [wpc EXCEPT ![w] = "close"]
        /\ wpc'[w] = "close" /\ result'[w] = "cut"
    BY <1>1, <1>8 DEF MetricsTypes, WGoto
  <2>2. MetricsTypes'
    BY <1>1, <1>2, <1>8, <2>1 DEF MetricsTypes
  <2>3. OneObject'
    BY <1>1, <1>2, <1>4, <2>1 DEF OneObject, Steady, BeforeEnd, AfterEnd
  <2>4. Unended(o)' = Unended(o) /\ HasEnded(o)' = HasEnded(o)
    BY <1>0, <1>2, <1>4, <2>1 DEF Unended, HasEnded, Steady, Results
  <2>5. /\ Observed(o)' = Observed(o)
        /\ \A q \in Results : Resulted(o, q)' = Resulted(o, q)
    BY <1>2, <1>4, <1>5, <2>1, <2>4 DEF Observed, Resulted, HasEnded, Steady, Results
  <2>6. \A b \in Buckets : InBucket(o, b)' = InBucket(o, b)
    BY <1>8, <2>5 DEF InBucket
  <2>7. Numbers(o)'
    BY <1>4, <1>6, <1>8, <2>1, <2>4, <2>5, <2>6 DEF Numbers
  <2>8. MaxKept(o)'
    BY <1>4, <1>5, <1>8, <2>4 DEF MaxKept, Steady, HasEnded
  <2> QED
    BY <1>4, <1>6, <1>8, <2>1, <2>2, <2>3, <2>7, <2>8 DEF CountingInv
<1> QED
  BY <1>2, <1>7, <1>8 DEF RequestEnd

(* The steps that publish the maximum, and the end of the connection: those *)
(* an object counts stay the same.                                          *)
LEMMA PublishesMax ==
  ASSUME CountingInv, NEW w \in Workers, MaxLoad(w) \/ MaxCas(w) \/ Closed(w)
  PROVE  CountingInv'
<1>0. PICK o, m : o = handle[w] /\ m = metrics[o]
  OBVIOUS
<1>1. /\ MetricsTypes /\ OneObject /\ Tracked /\ PeakKept
  BY DEF CountingInv
<1>2. /\ wpc[w] \in {"max", "maxcas", "close"}
      /\ UNCHANGED <<handle, value, result, registered, most, monitor>>
  BY DEF MaxLoad, MaxCas, Closed
<1>3. Work(w) /\ wpc[w] \notin Outside \ {"start"}
  BY <1>2 DEF Work, Outside
<1>4. /\ Steady(w) /\ o \in Objects /\ m \in MetricsRecord /\ Numbers(o) /\ MaxKept(o)
      /\ metrics \in [Objects -> MetricsRecord]
      /\ \A p \in Objects \ {o} : metrics'[p] = metrics[p] => Numbers(p)' /\ MaxKept(p)'
  BY <1>0, <1>3, OwnObject
<1>5. ASSUME \/ wpc[w] \in {"max", "maxcas"} /\ wpc'[w] \in {"max", "maxcas", "observe"}
             \/ wpc[w] = "close" /\ wpc'[w] = "done",
             metrics'[o] = metrics[o] \/ metrics'[o] = [m EXCEPT !.max = value[w]]
      PROVE  Numbers(o)' /\ HasEnded(o)' = HasEnded(o) /\ OneObject'
  <2>1. Counted(o)' = Counted(o) /\ Unended(o)' = Unended(o) /\ HasEnded(o)' = HasEnded(o)
    BY <1>2, <1>4, <1>5 DEF Counted, Unended, HasEnded, Steady, AfterEnd
  <2>2. \A r \in Results : Resulted(o, r)' = Resulted(o, r)
    BY <1>2, <1>4, <1>5 DEF Resulted, Steady
  <2>3. Observed(o)' = Observed(o)
    BY <1>2, <1>4, <1>5, <2>1 DEF Observed, HasEnded, Steady
  <2>4. \A b \in Buckets : InBucket(o, b)' = InBucket(o, b)
    BY <1>2, <2>3 DEF InBucket
  <2>5. PICK n : n = metrics'[o]
    OBVIOUS
  <2>6. /\ n.total = m.total /\ n.active = m.active /\ n.count = m.count
        /\ n.ended = m.ended /\ n.hist = m.hist
    BY <1>0, <1>4, <1>5, <2>5 DEF MetricsRecord
  <2>7. Numbers(o)'
    BY <1>0, <1>4, <2>1, <2>2, <2>4, <2>5, <2>6 DEF Numbers
  <2>8. OneObject'
    BY <1>1, <1>2, <1>4, <1>5 DEF OneObject, Steady, BeforeEnd, AfterEnd
  <2> QED
    BY <2>1, <2>7, <2>8
<1>6. m.max \in Nat /\ value[w] \in Nat /\ seen[w] \in Nat
  BY <1>1, <1>4 DEF MetricsTypes, MetricsRecord
<1>7. CASE MaxLoad(w)
  <2>1. /\ wpc[w] = "max" /\ seen' = [seen EXCEPT ![w] = m.max]
        /\ wpc' = [wpc EXCEPT ![w] = IF value[w] <= m.max THEN "observe" ELSE "maxcas"]
        /\ UNCHANGED <<metrics, tracker>>
    BY <1>0, <1>7 DEF MaxLoad, WGoto, Mine
  <2>2. /\ wpc'[w] = IF value[w] <= m.max THEN "observe" ELSE "maxcas"
        /\ seen'[w] = m.max
    BY <1>1, <2>1 DEF MetricsTypes
  <2>3. MetricsTypes'
    BY <1>1, <1>2, <1>6, <2>1 DEF MetricsTypes, AfterEnd
  <2>4. Tracked'
    BY <1>1, <1>4, <2>1, <2>2, SameTracked
  <2>5. PeakKept'
    BY <1>1, <1>2, <1>4, <1>6, <2>1, <2>2 DEF PeakKept, Steady, Peaking
  <2>6. Numbers(o)' /\ HasEnded(o)' = HasEnded(o) /\ OneObject'
    BY <1>5, <2>1, <2>2
  <2>7. MaxKept(o)'
    BY <1>0, <1>2, <1>4, <1>6, <2>1, <2>2, <2>6 DEF MaxKept, Steady, HasEnded
  <2> QED
    BY <1>4, <2>1, <2>3, <2>4, <2>5, <2>6, <2>7 DEF CountingInv
<1>8. CASE MaxCas(w)
  <2>1. wpc[w] = "maxcas" /\ UNCHANGED <<seen, tracker>> /\ seen[w] < value[w]
    BY <1>1, <1>8 DEF MaxCas, PeakKept
  <2>2. CASE m.max = seen[w] /\ SetMine(w, [Mine(w) EXCEPT !.max = value[w]])
             /\ WGoto(w, "observe")
    <3>1. PICK n : n = [m EXCEPT !.max = value[w]]
      OBVIOUS
    <3>2. n.max = value[w] /\ n \in MetricsRecord
      BY <1>4, <1>6, <3>1 DEF MetricsRecord
    <3>3. /\ metrics' = [metrics EXCEPT ![o] = n]
          /\ metrics' \in [Objects -> MetricsRecord] /\ metrics'[o] = n
          /\ \A p \in Objects \ {o} : metrics'[p] = metrics[p]
      BY <1>0, <1>4, <2>2, <3>1, <3>2 DEF SetMine, Mine
    <3>4. wpc' = [wpc EXCEPT ![w] = "observe"] /\ wpc'[w] = "observe"
      BY <1>1, <2>2 DEF WGoto, MetricsTypes
    <3>5. MetricsTypes'
      BY <1>1, <1>2, <2>1, <3>3, <3>4 DEF MetricsTypes, AfterEnd
    <3>6. Tracked'
      BY <1>1, <1>4, <2>1, <3>4, SameTracked
    <3>7. PeakKept'
      BY <1>1, <1>2, <1>4, <2>1, <3>4 DEF PeakKept, Steady, Peaking
    <3>8. Numbers(o)' /\ HasEnded(o)' = HasEnded(o) /\ OneObject'
      BY <1>5, <2>1, <3>1, <3>3, <3>4
    <3>9. MaxKept(o)'
      <4>1. w \in HasEnded(o)
        BY <1>0, <1>1, <2>1 DEF HasEnded, OneObject, AfterEnd
      <4>2. \A x \in HasEnded(o) : value[x] \in Nat
        BY <1>1 DEF MetricsTypes, HasEnded
      <4> QED
        BY <1>0, <1>2, <1>4, <1>6, <2>1, <2>2, <3>2, <3>3, <3>4, <3>8, <4>1, <4>2
           DEF MaxKept, Steady, HasEnded
    <3> QED
      BY <1>4, <3>3, <3>5, <3>6, <3>7, <3>8, <3>9 DEF CountingInv
  <2>3. CASE m.max # seen[w] /\ WGoto(w, "max") /\ UNCHANGED metrics
    <3>1. wpc' = [wpc EXCEPT ![w] = "max"] /\ wpc'[w] = "max"
      BY <1>1, <2>3 DEF WGoto, MetricsTypes
    <3>2. MetricsTypes'
      BY <1>1, <1>2, <2>1, <2>3, <3>1 DEF MetricsTypes, AfterEnd
    <3>3. Tracked'
      BY <1>1, <1>4, <2>1, <3>1, SameTracked
    <3>4. PeakKept'
      BY <1>1, <1>2, <1>4, <2>1, <3>1 DEF PeakKept, Steady, Peaking
    <3>5. Numbers(o)' /\ HasEnded(o)' = HasEnded(o) /\ OneObject'
      BY <1>5, <2>1, <2>3, <3>1
    <3>6. MaxKept(o)'
      BY <1>0, <1>2, <1>4, <2>3, <3>1, <3>5 DEF MaxKept, Steady, HasEnded
    <3> QED
      BY <1>4, <2>3, <3>2, <3>3, <3>4, <3>5, <3>6 DEF CountingInv
  <2> QED
    BY <1>0, <1>8, <2>2, <2>3 DEF MaxCas, Mine
<1>9. CASE Closed(w)
  <2>1. /\ wpc[w] = "close" /\ wpc' = [wpc EXCEPT ![w] = "done"]
        /\ tracker' = [tracker EXCEPT !.active = @ - 1, !.closed = @ + 1]
        /\ UNCHANGED <<seen, metrics>>
    BY <1>9 DEF Closed, WGoto
  <2>2. wpc'[w] = "done"
    BY <1>1, <2>1 DEF MetricsTypes
  <2>3. /\ tracker'.active = tracker.active - 1 /\ tracker'.closed = tracker.closed + 1
        /\ tracker'.total = tracker.total /\ tracker'.peak = tracker.peak
        /\ tracker' \in [total : Nat, active : Int, peak : Nat, closed : Nat]
    <3>1. tracker' = [total |-> tracker.total, active |-> tracker.active - 1,
                      peak |-> tracker.peak, closed |-> tracker.closed + 1]
      BY <1>1, <2>1 DEF MetricsTypes
    <3> QED
      BY <1>1, <3>1 DEF MetricsTypes
  <2>4. MetricsTypes'
    BY <1>1, <1>2, <2>1, <2>3 DEF MetricsTypes
  <2>5. Tracked'
    <3>1. PICK S : S = {v \in Workers : wpc[v] \notin {"idle", "done"}}
      OBVIOUS
    <3>2. PICK T : T = {v \in Workers : wpc[v] = "done"}
      OBVIOUS
    <3>3. /\ {v \in Workers : wpc'[v] \notin {"idle", "done"}} = S \ {w}
          /\ {v \in Workers : wpc'[v] = "done"} = T \cup {w}
          /\ {v \in Workers : wpc'[v] # "idle"} = {v \in Workers : wpc[v] # "idle"}
      BY <1>4, <2>1, <2>2, <3>1, <3>2 DEF Steady
    <3>4. /\ Cardinality(S \ {w}) = tracker.active - 1
          /\ Cardinality(T \cup {w}) = tracker.closed + 1
      BY <1>1, <2>1, <3>1, <3>2, AddWorker DEF Tracked
    <3> QED
      BY <1>1, <2>3, <3>3, <3>4 DEF Tracked
  <2>6. PeakKept'
    BY <1>1, <1>2, <1>4, <2>1, <2>2, <2>3 DEF PeakKept, Steady, Peaking
  <2>7. Numbers(o)' /\ HasEnded(o)' = HasEnded(o) /\ OneObject'
    BY <1>5, <2>1, <2>2
  <2>8. MaxKept(o)'
    BY <1>2, <1>4, <2>1, <2>2, <2>7 DEF MaxKept, Steady, HasEnded
  <2> QED
    BY <1>4, <2>1, <2>4, <2>5, <2>6, <2>7, <2>8 DEF CountingInv
<1> QED
  BY <1>7, <1>8, <1>9

LEMMA Counts ==
  ASSUME CountingInv, NEW w \in Workers, Observe(w) \/ CountResult(w)
  PROVE  CountingInv'
<1>0. PICK o, m, b, q : o = handle[w] /\ m = metrics[o] /\ b = Bucket(value[w]) /\ q = result[w]
  OBVIOUS
<1>1. /\ MetricsTypes /\ OneObject /\ Tracked /\ PeakKept
  BY DEF CountingInv
<1>2. /\ wpc[w] \in {"observe", "result"}
      /\ UNCHANGED <<handle, value, result, seen, registered, tracker, most, monitor>>
  BY DEF Observe, CountResult
<1>3. Work(w) /\ wpc[w] \notin Outside \ {"start"}
  BY <1>2 DEF Work, Outside
<1>4. /\ Steady(w) /\ o \in Objects /\ m \in MetricsRecord /\ Numbers(o) /\ MaxKept(o)
      /\ metrics \in [Objects -> MetricsRecord]
      /\ \A p \in Objects \ {o} : metrics'[p] = metrics[p] => Numbers(p)' /\ MaxKept(p)'
  BY <1>0, <1>3, OwnObject
<1>5. q \in Results /\ b \in Buckets /\ w \in HasEnded(o)
  BY <1>0, <1>1, <1>2, BucketWithin DEF MetricsTypes, OneObject, AfterEnd, HasEnded
<1>6. /\ m.hist \in [Buckets -> Nat] /\ m.ended \in [Results -> Nat]
  BY <1>4 DEF MetricsRecord
<1>7. ASSUME NEW n \in MetricsRecord, SetMine(w, n), n.max = m.max,
             wpc'[w] \in {"result", "close"}, wpc' = [wpc EXCEPT ![w] = wpc'[w]]
      PROVE  /\ MetricsTypes' /\ OneObject' /\ Tracked' /\ PeakKept' /\ MaxKept(o)'
             /\ metrics'[o] = n /\ \A p \in Objects \ {o} : metrics'[p] = metrics[p]
             /\ Counted(o)' = Counted(o) /\ Unended(o)' = Unended(o)
             /\ HasEnded(o)' = HasEnded(o)
  <2>1. /\ metrics' = [metrics EXCEPT ![o] = n]
        /\ metrics' \in [Objects -> MetricsRecord] /\ metrics'[o] = n
        /\ \A p \in Objects \ {o} : metrics'[p] = metrics[p]
    BY <1>0, <1>4, <1>7 DEF SetMine
  <2>2. MetricsTypes'
    BY <1>1, <1>2, <1>7, <2>1 DEF MetricsTypes, AfterEnd
  <2>3. OneObject'
    BY <1>0, <1>1, <1>2, <1>4, <1>5, <1>7 DEF OneObject, Steady, BeforeEnd, AfterEnd, Results
  <2>4. Tracked'
    BY <1>1, <1>2, <1>4, <1>7, SameTracked
  <2>5. PeakKept'
    BY <1>1, <1>2, <1>4, <1>7 DEF PeakKept, Steady, Peaking
  <2>6. Counted(o)' = Counted(o) /\ Unended(o)' = Unended(o) /\ HasEnded(o)' = HasEnded(o)
    BY <1>2, <1>4, <1>7 DEF Counted, Unended, HasEnded, Steady, AfterEnd
  <2>7. MaxKept(o)'
    BY <1>0, <1>2, <1>4, <1>5, <1>7, <2>1, <2>6 DEF MaxKept, Steady, HasEnded
  <2> QED
    BY <2>1, <2>2, <2>3, <2>4, <2>5, <2>6, <2>7
<1>8. CASE Observe(w)
  <2>1. /\ wpc[w] = "observe" /\ wpc' = [wpc EXCEPT ![w] = "result"]
        /\ SetMine(w, [m EXCEPT !.hist[b] = @ + 1])
    BY <1>0, <1>8 DEF Observe, WGoto, Mine
  <2>2. PICK n : n = [m EXCEPT !.hist[b] = @ + 1]
    OBVIOUS
  <2>3. /\ n.total = m.total /\ n.active = m.active /\ n.count = m.count /\ n.max = m.max
        /\ n.ended = m.ended /\ n.hist = [m.hist EXCEPT ![b] = @ + 1] /\ n \in MetricsRecord
    <3>1. PICK h : h = [m.hist EXCEPT ![b] = @ + 1]
      OBVIOUS
    <3>2. h \in [Buckets -> Nat]
      BY <1>5, <1>6, <3>1
    <3>3. n = [total |-> m.total, active |-> m.active, count |-> m.count,
               sum |-> m.sum, max |-> m.max, hist |-> h, ended |-> m.ended]
      BY <1>4, <2>2, <3>1 DEF MetricsRecord
    <3> QED
      BY <1>4, <3>1, <3>2, <3>3 DEF MetricsRecord
  <2>4. wpc'[w] = "result"
    BY <1>1, <2>1 DEF MetricsTypes
  <2>5. /\ MetricsTypes' /\ OneObject' /\ Tracked' /\ PeakKept' /\ MaxKept(o)'
        /\ metrics'[o] = n /\ \A p \in Objects \ {o} : metrics'[p] = metrics[p]
        /\ Counted(o)' = Counted(o) /\ Unended(o)' = Unended(o)
        /\ HasEnded(o)' = HasEnded(o)
    BY <1>7, <2>1, <2>2, <2>3, <2>4
  <2>6. \A r \in Results : Resulted(o, r)' = Resulted(o, r)
    BY <1>2, <1>4, <2>1, <2>4 DEF Resulted, Steady
  <2>7. w \notin Observed(o) /\ Observed(o)' = Observed(o) \cup {w}
    BY <1>4, <1>5, <2>1, <2>4, <2>5 DEF Observed, Steady, HasEnded
  <2>8. /\ w \notin InBucket(o, b) /\ InBucket(o, b)' = InBucket(o, b) \cup {w}
        /\ \A c \in Buckets \ {b} : InBucket(o, c)' = InBucket(o, c)
    BY <1>0, <1>2, <2>7 DEF InBucket
  <2>9. Cardinality(InBucket(o, b)') = m.hist[b] + 1
    <3>1. PICK S : S = InBucket(o, b)
      OBVIOUS
    <3>2. S \subseteq Workers
      BY <3>1 DEF InBucket, Observed, HasEnded
    <3>3. m.hist[b] = Cardinality(S) /\ w \notin S
      BY <1>0, <1>4, <1>5, <2>8, <3>1 DEF Numbers
    <3>4. Cardinality(S \cup {w}) = Cardinality(S) + 1
      BY <3>2, <3>3, AddWorker
    <3> QED
      BY <2>8, <3>1, <3>3, <3>4
  <2>10. \A c \in Buckets : n.hist[c] = Cardinality(InBucket(o, c)')
    <3>1. n.hist[b] = m.hist[b] + 1 /\ \A c \in Buckets \ {b} : n.hist[c] = m.hist[c]
      BY <1>5, <1>6, <2>3
    <3>2. \A c \in Buckets : m.hist[c] = Cardinality(InBucket(o, c))
      BY <1>0, <1>4 DEF Numbers
    <3> QED
      BY <2>8, <2>9, <3>1, <3>2
  <2>11. Numbers(o)'
    BY <1>0, <1>4, <2>3, <2>5, <2>6, <2>10 DEF Numbers
  <2> QED
    BY <1>4, <2>5, <2>11 DEF CountingInv
<1>9. CASE CountResult(w)
  <2>1. /\ wpc[w] = "result" /\ wpc' = [wpc EXCEPT ![w] = "close"]
        /\ SetMine(w, [m EXCEPT !.ended[q] = @ + 1])
    BY <1>0, <1>9 DEF CountResult, WGoto, Mine
  <2>2. PICK n : n = [m EXCEPT !.ended[q] = @ + 1]
    OBVIOUS
  <2>3. /\ n.total = m.total /\ n.active = m.active /\ n.count = m.count /\ n.max = m.max
        /\ n.hist = m.hist /\ n.ended = [m.ended EXCEPT ![q] = @ + 1] /\ n \in MetricsRecord
    <3>1. PICK h : h = [m.ended EXCEPT ![q] = @ + 1]
      OBVIOUS
    <3>2. h \in [Results -> Nat]
      BY <1>5, <1>6, <3>1
    <3>3. n = [total |-> m.total, active |-> m.active, count |-> m.count,
               sum |-> m.sum, max |-> m.max, hist |-> m.hist, ended |-> h]
      BY <1>4, <2>2, <3>1 DEF MetricsRecord
    <3> QED
      BY <1>4, <3>1, <3>2, <3>3 DEF MetricsRecord
  <2>4. wpc'[w] = "close"
    BY <1>1, <2>1 DEF MetricsTypes
  <2>5. /\ MetricsTypes' /\ OneObject' /\ Tracked' /\ PeakKept' /\ MaxKept(o)'
        /\ metrics'[o] = n /\ \A p \in Objects \ {o} : metrics'[p] = metrics[p]
        /\ Counted(o)' = Counted(o) /\ Unended(o)' = Unended(o)
        /\ HasEnded(o)' = HasEnded(o)
    BY <1>7, <2>1, <2>2, <2>3, <2>4
  <2>6. Observed(o)' = Observed(o)
    BY <1>4, <2>1, <2>4, <2>5 DEF Observed, Steady, HasEnded
  <2>7. \A c \in Buckets : InBucket(o, c)' = InBucket(o, c)
    BY <1>2, <2>6 DEF InBucket
  <2>8. /\ w \notin Resulted(o, q) /\ Resulted(o, q)' = Resulted(o, q) \cup {w}
        /\ \A r \in Results \ {q} : Resulted(o, r)' = Resulted(o, r)
    BY <1>0, <1>2, <1>4, <2>1, <2>4 DEF Resulted, Steady
  <2>9. Cardinality(Resulted(o, q)') = m.ended[q] + 1
    <3>1. PICK S : S = Resulted(o, q)
      OBVIOUS
    <3>2. S \subseteq Workers
      BY <3>1 DEF Resulted
    <3>3. m.ended[q] = Cardinality(S) /\ w \notin S
      BY <1>0, <1>4, <1>5, <2>8, <3>1 DEF Numbers
    <3>4. Cardinality(S \cup {w}) = Cardinality(S) + 1
      BY <3>2, <3>3, AddWorker
    <3> QED
      BY <2>8, <3>1, <3>3, <3>4
  <2>10. \A r \in Results : n.ended[r] = Cardinality(Resulted(o, r)')
    <3>1. n.ended[q] = m.ended[q] + 1 /\ \A r \in Results \ {q} : n.ended[r] = m.ended[r]
      BY <1>5, <1>6, <2>3
    <3>2. \A r \in Results : m.ended[r] = Cardinality(Resulted(o, r))
      BY <1>0, <1>4 DEF Numbers
    <3> QED
      BY <2>8, <2>9, <3>1, <3>2
  <2>11. Numbers(o)'
    BY <1>0, <1>4, <2>3, <2>5, <2>7, <2>10 DEF Numbers
  <2> QED
    BY <1>4, <2>5, <2>11 DEF CountingInv
<1> QED
  BY <1>8, <1>9


(* What the monitor has read, unless somebody was under way: the requests   *)
(* it is counting had all been observed, and it has passed those in the     *)
(* buckets it has added up, fewer than the rank it looks for.               *)
Low(W, b) == {w \in W : Bucket(value[w]) < b}

Follows ==
  \E W \in SUBSET Observed(registered) :
    Cardinality(W) = monitor.total /\ Cardinality(Low(W, monitor.at - 1)) <= monitor.cum

MonitorInv ==
  /\ monitor.at # 0 => registered # 0 /\ monitor.alerts = {}
  /\ monitor.at # 0 /\ ~monitor.running => Follows
  /\ monitor.at > 2 => monitor.total # 0 /\ monitor.cum < Target(monitor.total)

MetricsInv == CountingInv /\ MonitorInv /\ AlertNeedsCause

MonitorRecord == [at : Nat, total : Nat, failures : Nat, cum : Nat, running : BOOLEAN,
                  alerts : SUBSET {"p99", "rate"}]

(* Between them the workers' steps keep the numbers.                        *)
LEMMA CountingWork ==
  ASSUME CountingInv, NEW w \in Workers, Work(w)
  PROVE  CountingInv'
BY ConnectionSteps, Starts, Ends, PublishesMax, Counts DEF Work

LEMMA CountingStart == MetricsInit => CountingInv
<1> SUFFICES ASSUME MetricsInit PROVE CountingInv
  OBVIOUS
<1>1. /\ wpc = [w \in Workers |-> "idle"] /\ handle = [w \in Workers |-> 0]
      /\ value = [w \in Workers |-> 0] /\ result = [w \in Workers |-> "none"]
      /\ seen = [w \in Workers |-> 0] /\ registered = 0
      /\ metrics = [o \in Objects |-> NewMetrics]
      /\ tracker = [total |-> 0, active |-> 0, peak |-> 0, closed |-> 0]
      /\ most = 0 /\ monitor = NewMonitor
  BY DEF MetricsInit
<1>2. NewMetrics \in MetricsRecord
  BY DEF NewMetrics, MetricsRecord
<1>3. MetricsTypes
  BY <1>1, <1>2 DEF MetricsTypes, NewMonitor, BeforeEnd
<1>4. OneObject
  BY <1>1 DEF OneObject, BeforeEnd, AfterEnd
<1>5. Cardinality({}) = 0
  BY FS_EmptySet
<1>6. Tracked
  <2>1. /\ {w \in Workers : wpc[w] \notin {"idle", "done"}} = {}
        /\ {w \in Workers : wpc[w] = "done"} = {} /\ {w \in Workers : wpc[w] # "idle"} = {}
    BY <1>1
  <2> QED
    BY <1>1, <1>5, <2>1 DEF Tracked
<1>7. PeakKept
  BY <1>1 DEF PeakKept, Peaking
<1>8. ASSUME NEW o \in Objects PROVE Numbers(o) /\ MaxKept(o)
  <2>1. Counted(o) = {} /\ Unended(o) = {} /\ HasEnded(o) = {}
    BY <1>1 DEF Counted, Unended, HasEnded, AfterEnd, Results
  <2>2. \A r \in Results : Resulted(o, r) = {}
    BY <1>1 DEF Resulted
  <2>3. \A b \in Buckets : InBucket(o, b) = {}
    BY <2>1 DEF InBucket, Observed
  <2>4. metrics[o] = NewMetrics
    BY <1>1
  <2>5. /\ metrics[o].total = 0 /\ metrics[o].active = 0 /\ metrics[o].count = 0
        /\ metrics[o].max = 0 /\ metrics[o].hist = [b \in Buckets |-> 0]
        /\ metrics[o].ended = [r \in Results |-> 0]
    BY <2>4 DEF NewMetrics
  <2> QED
    BY <1>5, <2>1, <2>2, <2>3, <2>5 DEF Numbers, MaxKept
<1> QED
  BY <1>3, <1>4, <1>6, <1>7, <1>8 DEF CountingInv

(* A snapshot only reads, so nothing that CountingInv says changes.         *)
LEMMA SameCounting ==
  ASSUME CountingInv, UNCHANGED <<workerVars, registered, metrics, tracker, most>>,
         monitor' \in MonitorRecord
  PROVE  CountingInv'
<1>1. /\ wpc' = wpc /\ handle' = handle /\ value' = value /\ result' = result /\ seen' = seen
      /\ registered' = registered /\ metrics' = metrics /\ tracker' = tracker /\ most' = most
  BY DEF workerVars
<1>2. MetricsTypes' /\ OneObject' /\ Tracked' /\ PeakKept'
  BY <1>1 DEF CountingInv, MetricsTypes, MonitorRecord, OneObject, Tracked, PeakKept
<1>3. ASSUME NEW o \in Objects PROVE Numbers(o)' /\ MaxKept(o)'
  <2>1. Counted(o)' = Counted(o) /\ Unended(o)' = Unended(o) /\ HasEnded(o)' = HasEnded(o)
        /\ Observed(o)' = Observed(o)
    BY <1>1 DEF Counted, Unended, HasEnded, Observed
  <2>2. /\ \A r \in Results : Resulted(o, r)' = Resulted(o, r)
        /\ \A b \in Buckets : InBucket(o, b)' = InBucket(o, b)
    BY <1>1, <2>1 DEF Resulted, InBucket
  <2> QED
    BY <1>1, <2>1, <2>2 DEF CountingInv, Numbers, MaxKept
<1> QED
  BY <1>2, <1>3 DEF CountingInv

(* Each reading of the snapshot: what it read, and that MonitorInv holds on.*)
LEMMA TotalRead ==
  ASSUME CountingInv, SnapTotal
  PROVE  monitor' \in MonitorRecord /\ MonitorInv' /\ AlertNeedsCause'
<1>1. /\ MetricsTypes /\ OneObject /\ registered # 0
      /\ UNCHANGED <<wpc, handle, value, result, registered>>
  BY DEF CountingInv, SnapTotal, workerVars
<1>2. monitor' = [at |-> 1, total |-> metrics[registered].total, failures |-> 0,
                  cum |-> 0, running |-> Running, alerts |-> {}]
  BY DEF SnapTotal, NewMonitor
<1>3. registered \in Objects /\ metrics[registered] \in MetricsRecord /\ Numbers(registered)
  BY <1>1 DEF CountingInv, MetricsTypes
<1>4. monitor' \in MonitorRecord
  BY <1>2, <1>3 DEF MonitorRecord, MetricsRecord, Running
<1>5. ASSUME ~Running PROVE Follows'
  <2>1. PICK W : W = Observed(registered)
    OBVIOUS
  <2>2. Counted(registered) = W
    BY <1>1, <1>5, <2>1 DEF Counted, Observed, HasEnded, Running, OneObject, MetricsTypes, AfterEnd
  <2>3. Cardinality(W) = monitor'.total
    BY <1>2, <1>3, <2>2 DEF Numbers
  <2>4. \A w \in W : value[w] \in Nat
    BY <1>1, <2>1 DEF MetricsTypes, Observed, HasEnded
  <2>5. Low(W, 0)' = {}
    BY <1>1, <2>4, BucketWithin DEF Low, Buckets
  <2>6. Cardinality(Low(W, monitor.at - 1))' <= monitor'.cum
    BY <1>2, <2>5, FS_EmptySet
  <2>7. Observed(registered)' = W
    BY <1>1, <2>1 DEF Observed, HasEnded
  <2> QED
    BY <1>1, <2>1, <2>3, <2>6, <2>7 DEF Follows
<1>6. MonitorInv'
  BY <1>1, <1>2, <1>5 DEF MonitorInv
<1>7. AlertNeedsCause'
  BY <1>2 DEF AlertNeedsCause
<1> QED
  BY <1>4, <1>6, <1>7

LEMMA FailuresRead ==
  ASSUME CountingInv, MonitorInv, SnapFailures
  PROVE  monitor' \in MonitorRecord /\ MonitorInv' /\ AlertNeedsCause'
<1>1. /\ MetricsTypes /\ monitor.at = 1 /\ registered # 0 /\ monitor.alerts = {}
      /\ UNCHANGED <<wpc, handle, value, result, registered>>
      /\ monitor \in MonitorRecord
  BY DEF CountingInv, MonitorInv, SnapFailures, workerVars, MetricsTypes, MonitorRecord
<1>2. PICK n : n = metrics[registered].ended["failure"]
  OBVIOUS
<1>3. n \in Nat
  BY <1>1, <1>2 DEF MetricsTypes, MetricsRecord, Results
<1>4. monitor' = [at |-> 2, total |-> monitor.total, failures |-> n, cum |-> monitor.cum,
                  running |-> monitor.running, alerts |-> monitor.alerts]
  BY <1>1, <1>2 DEF SnapFailures, MonitorRecord
<1>5. monitor' \in MonitorRecord
  BY <1>1, <1>3, <1>4 DEF MonitorRecord
<1>6. ASSUME ~monitor.running PROVE Follows'
  <2>1. PICK W \in SUBSET Observed(registered) : Cardinality(W) = monitor.total
    BY <1>1, <1>6 DEF MonitorInv, Follows
  <2>2. \A w \in W : value[w] \in Nat
    BY <1>1, <2>1 DEF MetricsTypes, Observed, HasEnded
  <2>3. Low(W, 1)' = {}
    BY <1>1, <2>2, BucketWithin DEF Low, Buckets
  <2>4. Cardinality(Low(W, monitor.at - 1))' <= monitor'.cum
    BY <1>1, <1>4, <2>3, FS_EmptySet DEF MonitorRecord
  <2>5. Observed(registered)' = Observed(registered)
    BY <1>1 DEF Observed, HasEnded
  <2> QED
    BY <1>1, <1>4, <2>1, <2>4, <2>5 DEF Follows
<1>7. MonitorInv'
  BY <1>1, <1>4, <1>6 DEF MonitorInv
<1>8. AlertNeedsCause'
  BY <1>1, <1>4 DEF AlertNeedsCause
<1> QED
  BY <1>5, <1>7, <1>8

(* The requests of W in the first b buckets are counted by the first b      *)
(* numbers of the histogram.                                                *)
LEMMA LowGrows ==
  ASSUME CountingInv, NEW o \in Objects, NEW W \in SUBSET Observed(o), NEW b \in Buckets
  PROVE  /\ Cardinality(W) \in Nat /\ Cardinality(Low(W, b)) \in Nat
         /\ Cardinality(Low(W, b + 1)) <= Cardinality(Low(W, b)) + metrics[o].hist[b]
<1>1. /\ MetricsTypes /\ metrics[o].hist[b] = Cardinality(InBucket(o, b))
  BY DEF CountingInv, Numbers
<1>2. W \subseteq Workers /\ InBucket(o, b) \subseteq Workers /\ b \in Int
  BY DEF Observed, HasEnded, InBucket, Buckets
<1>3. \A w \in W : Bucket(value[w]) \in Int
  BY <1>1, <1>2, BucketWithin DEF MetricsTypes, Buckets
<1>4. PICK L, I, J : L = Low(W, b) /\ J = Low(W, b + 1) /\ I = InBucket(o, b)
  OBVIOUS
<1>5. J \subseteq L \cup I
  BY <1>2, <1>3, <1>4 DEF Low, InBucket
<1>6. IsFiniteSet(W) /\ IsFiniteSet(L) /\ IsFiniteSet(I)
  BY <1>2, <1>4, FS_Subset, MetricsAssumption DEF Low
<1>7. /\ IsFiniteSet(L \cup I) /\ IsFiniteSet(L \cap I)
      /\ Cardinality(L \cup I) = Cardinality(L) + Cardinality(I) - Cardinality(L \cap I)
  BY <1>6, FS_Union, FS_Intersection
<1>8. Cardinality(J) <= Cardinality(L \cup I) /\ IsFiniteSet(J)
  BY <1>5, <1>7, FS_Subset
<1>9. /\ Cardinality(J) \in Nat /\ Cardinality(L) \in Nat /\ Cardinality(I) \in Nat
      /\ Cardinality(L \cap I) \in Nat /\ Cardinality(W) \in Nat
      /\ Cardinality(L \cup I) \in Nat
  BY <1>6, <1>7, <1>8, FS_CardinalityType
<1> QED
  BY <1>1, <1>4, <1>7, <1>8, <1>9

(* An alert is raised past the buckets of the bounds within the threshold,  *)
(* in which all requests it follows would have been counted, had none been  *)
(* slower than one of these bounds.                                         *)
LEMMA BucketRead ==
  ASSUME CountingInv, MonitorInv, SnapBucket
  PROVE  monitor' \in MonitorRecord /\ MonitorInv' /\ AlertNeedsCause'
<1>0. PICK b, c : b = monitor.at - 1 /\ c = monitor.cum + metrics[registered].hist[b]
  OBVIOUS
<1>1. /\ MetricsTypes /\ monitor.at \in {i + 1 : i \in Buckets}
      /\ UNCHANGED <<wpc, handle, value, result, registered>>
      /\ monitor \in MonitorRecord
  BY DEF CountingInv, SnapBucket, workerVars, MetricsTypes, MonitorRecord
<1>2. /\ b \in Buckets /\ b \in Nat /\ b > 0 /\ monitor.at = b + 1 /\ monitor.at # 0
      /\ Len(Bounds) \in Nat
  BY <1>0, <1>1, MetricsAssumption DEF Buckets
<1>3. registered \in Objects /\ monitor.alerts = {} /\ c \in Nat
  <2>1. registered \in Objects /\ monitor.alerts = {}
    BY <1>1, <1>2 DEF MonitorInv, MetricsTypes
  <2>2. metrics[registered].hist[b] \in Nat
    BY <1>1, <1>2, <2>1 DEF MetricsTypes, MetricsRecord
  <2> QED
    BY <1>0, <1>1, <2>1, <2>2 DEF MonitorRecord
<1> DEFINE n == monitor.total
           p99 == IF n = 0 THEN 0 ELSE Bounds[IF b > Len(Bounds) THEN Len(Bounds) ELSE b]
           judged == {r \in {"p99", "rate"} :
                       \/ r = "p99" /\ p99 > SlowerThan
                       \/ /\ r = "rate" /\ n > 0
                          /\ monitor.failures * 100 > ErrorPercent * n}
           found == n = 0 \/ c >= Target(n) \/ b = Len(Bounds) + 1
<1>4. \/ /\ ~found /\ monitor' = [monitor EXCEPT !.at = @ + 1, !.cum = c]
      \/ /\ found /\ monitor' = [monitor EXCEPT !.at = 0, !.cum = 0, !.alerts = judged]
  BY <1>0 DEF SnapBucket
<1> HIDE DEF judged, found
<1>5. monitor' \in MonitorRecord /\ monitor'.total = monitor.total
      /\ monitor'.running = monitor.running
  <2>1. judged \in SUBSET {"p99", "rate"}
    BY DEF judged
  <2>2. ASSUME NEW at \in Nat, NEW cum \in Nat, NEW alerts \in SUBSET {"p99", "rate"},
               monitor' = [monitor EXCEPT !.at = at, !.cum = cum, !.alerts = alerts]
        PROVE  monitor' \in MonitorRecord /\ monitor'.total = monitor.total
               /\ monitor'.running = monitor.running
    <3>1. monitor' = [at |-> at, total |-> monitor.total, failures |-> monitor.failures,
                      cum |-> cum, running |-> monitor.running, alerts |-> alerts]
      BY <1>1, <2>2 DEF MonitorRecord
    <3> QED
      BY <1>1, <3>1 DEF MonitorRecord
  <2>3. CASE found /\ monitor' = [monitor EXCEPT !.at = 0, !.cum = 0, !.alerts = judged]
    BY <2>1, <2>2, <2>3
  <2>4. CASE monitor' = [monitor EXCEPT !.at = @ + 1, !.cum = c]
    <3>1. monitor' = [at |-> b + 2, total |-> monitor.total, failures |-> monitor.failures,
                      cum |-> c, running |-> monitor.running, alerts |-> monitor.alerts]
      <4>1. monitor.at + 1 = b + 2 /\ monitor \in MonitorRecord
        BY <1>1, <1>2
      <4>2. monitor' = [monitor EXCEPT !.at = b + 2, !.cum = c]
        BY <2>4, <4>1, Zenon
      <4> QED
        BY <4>1, <4>2 DEF MonitorRecord
    <3>2. b + 2 \in Nat
      BY <1>2
    <3> QED
      BY <1>1, <1>3, <3>1, <3>2 DEF MonitorRecord
  <2> QED
    BY <1>4, <2>3, <2>4
<1>6. ASSUME ~monitor.running
      PROVE  \E W \in SUBSET Observed(registered) :
               /\ Cardinality(W) = n /\ Cardinality(Low(W, b)) <= monitor.cum
               /\ Cardinality(Low(W, b + 1)) <= c
  <2>1. PICK W \in SUBSET Observed(registered) :
          Cardinality(W) = n /\ Cardinality(Low(W, b)) <= monitor.cum
    BY <1>0, <1>2, <1>6 DEF MonitorInv, Follows
  <2>2. /\ Cardinality(Low(W, b)) \in Nat /\ Cardinality(Low(W, b + 1)) \in Nat
        /\ Cardinality(Low(W, b + 1)) <= Cardinality(Low(W, b)) + metrics[registered].hist[b]
    <3>1. Cardinality(Low(W, b + 1)) \in Nat
      <4>1. PICK J : J = Low(W, b + 1)
        OBVIOUS
      <4>2. J \subseteq Workers
        BY <4>1 DEF Low, Observed, HasEnded
      <4> QED
        BY <4>1, <4>2, MetricsAssumption, FS_Subset, FS_CardinalityType
    <3> QED
      BY <1>2, <1>3, <3>1, LowGrows
  <2>3. monitor.cum \in Nat /\ metrics[registered].hist[b] \in Nat
    BY <1>1, <1>2, <1>3 DEF MonitorRecord, MetricsTypes, MetricsRecord
  <2> QED
    BY <1>0, <2>1, <2>2, <2>3
<1>7. CASE ~found /\ monitor' = [monitor EXCEPT !.at = @ + 1, !.cum = c]
  <2>1. monitor'.at = b + 2 /\ monitor'.cum = c /\ monitor'.alerts = {}
    BY <1>1, <1>2, <1>3, <1>7 DEF MonitorRecord
  <2>2. n # 0 /\ c < Target(n)
    BY <1>1, <1>3, <1>7 DEF found, Target, MonitorRecord
  <2>3. ASSUME ~monitor.running PROVE Follows'
    <3>1. PICK W \in SUBSET Observed(registered) :
            Cardinality(W) = n /\ Cardinality(Low(W, b + 1)) <= c
      BY <1>6, <2>3
    <3>2. Observed(registered)' = Observed(registered) /\ Low(W, b + 1)' = Low(W, b + 1)
      BY <1>1 DEF Observed, HasEnded, Low
    <3>3. monitor'.at - 1 = b + 1
      BY <1>2, <2>1
    <3>4. Cardinality(Low(W, monitor.at - 1))' <= monitor'.cum
      BY <2>1, <3>1, <3>2, <3>3 DEF Low
    <3> QED
      BY <1>1, <1>5, <3>1, <3>2, <3>4 DEF Follows
  <2>4. MonitorInv'
    BY <1>1, <1>3, <1>5, <2>1, <2>2, <2>3 DEF MonitorInv, MetricsTypes, Objects
  <2>5. AlertNeedsCause'
    BY <2>1 DEF AlertNeedsCause
  <2> QED
    BY <1>5, <2>4, <2>5
<1>8. CASE found /\ monitor' = [monitor EXCEPT !.at = 0, !.cum = 0, !.alerts = judged]
  <2>1. monitor'.at = 0 /\ monitor'.alerts = judged
    BY <1>1, <1>8 DEF MonitorRecord
  <2>2. MonitorInv'
    BY <2>1 DEF MonitorInv
  <2>3. ASSUME "p99" \in judged, ~monitor.running
        PROVE  \E w \in Workers :
                 /\ result[w] \in Results
                 /\ \A i \in DOMAIN Bounds : Bounds[i] <= SlowerThan => Bounds[i] < value[w]
    <3>1. n # 0 /\ n \in Nat
          /\ Bounds[IF b > Len(Bounds) THEN Len(Bounds) ELSE b] > SlowerThan
      BY <1>1, <2>3, MetricsAssumption DEF judged, MonitorRecord
    <3>2. ASSUME NEW i \in DOMAIN Bounds, Bounds[i] <= SlowerThan
          PROVE  i \in Nat /\ i < b
      <4>1. PICK t : t = IF b > Len(Bounds) THEN Len(Bounds) ELSE b
        OBVIOUS
      <4>2. /\ DOMAIN Bounds = 1 .. Len(Bounds) /\ Len(Bounds) > 0 /\ SlowerThan \in Nat
            /\ \A j \in DOMAIN Bounds : Bounds[j] \in Nat
        BY MetricsAssumption
      <4>3. t \in DOMAIN Bounds /\ t <= b
        BY <1>2, <4>1, <4>2
      <4>4. Bounds[t] > Bounds[i]
        BY <3>1, <3>2, <4>1, <4>2, <4>3
      <4>5. ~(t < i) /\ t # i
        BY <3>2, <4>2, <4>3, <4>4, MetricsAssumption
      <4> QED
        BY <1>2, <3>2, <4>2, <4>3, <4>5
    <3>3. PICK W \in SUBSET Observed(registered) :
            Cardinality(W) = n /\ Cardinality(Low(W, b)) <= monitor.cum
      BY <1>6, <2>3
    <3>4. \A w \in W : w \in Workers /\ result[w] \in Results /\ value[w] \in Nat
      BY <1>1, <3>3 DEF Observed, HasEnded, MetricsTypes
    <3>5. Low(W, b) # W
      <4>1. CASE b = 1
        <5>1. Low(W, b) = {}
          BY <3>4, <4>1, BucketWithin DEF Low, Buckets
        <5> QED
          BY <3>1, <3>3, <5>1, FS_EmptySet
      <4>2. CASE b > 1
        <5>1. monitor.cum < Target(n)
          BY <1>2, <4>2 DEF MonitorInv
        <5>2. Target(n) <= n
          BY <3>1 DEF Target
        <5> QED
          BY <1>1, <3>1, <3>3, <5>1, <5>2 DEF MonitorRecord, Target
      <4> QED
        BY <1>2, <4>1, <4>2
    <3>6. PICK w \in W : ~(Bucket(value[w]) < b)
      BY <3>5 DEF Low
    <3>7. PICK v : v = value[w]
      OBVIOUS
    <3>8. ASSUME NEW i \in DOMAIN Bounds, Bounds[i] <= SlowerThan
          PROVE  Bounds[i] < v
      <4>1. v \in Nat /\ Bucket(v) \in Buckets /\ (v <= Bounds[i] => Bucket(v) <= i)
        BY <3>4, <3>7, <3>8, BucketWithin
      <4>2. Bucket(v) \in Nat /\ ~(Bucket(v) < b)
        BY <3>6, <3>7, <4>1 DEF Buckets
      <4>3. i \in Nat /\ i < b /\ Bounds[i] \in Nat
        BY <3>2, <3>8, MetricsAssumption
      <4> QED
        BY <1>2, <4>1, <4>2, <4>3
    <3> QED
      BY <3>4, <3>7, <3>8
  <2>4. AlertNeedsCause'
    BY <1>1, <1>5, <2>1, <2>3 DEF AlertNeedsCause
  <2> QED
    BY <1>5, <2>2, <2>4
<1> QED
  BY <1>4, <1>7, <1>8

(* Workers observe more while the monitor counts; what it follows stays.    *)
LEMMA WorkFollowed ==
  ASSUME CountingInv, MonitorInv, AlertNeedsCause, NEW w \in Workers, Work(w)
  PROVE  MonitorInv' /\ AlertNeedsCause'
<1>1. /\ MetricsTypes /\ OneObject /\ Steady(w) /\ monitor' = monitor
  BY WorkFrame DEF CountingInv
<1>2. result[w] # "none" => handle'[w] = handle[w] /\ value'[w] = value[w] /\ result'[w] = result[w]
  <2>1. result[w] # "none" => wpc[w] \notin BeforeEnd
    BY <1>1 DEF OneObject
  <2> QED
    BY <2>1 DEF Work, Opened, PeakLoad, PeakCas, Closed, Lookup, Insert, RequestStart,
                RequestEnd, MaxLoad, MaxCas, Observe, CountResult, BeforeEnd
<1>3. wpc[w] \in {"result", "close", "done"} => wpc'[w] \in {"close", "done"}
  BY <1>1 DEF Work, Opened, PeakLoad, PeakCas, Closed, Lookup, Insert, RequestStart,
              RequestEnd, MaxLoad, MaxCas, Observe, CountResult, WGoto, MetricsTypes
<1>4. ASSUME NEW o \in Objects, NEW v \in Observed(o)
      PROVE  v \in Observed(o)' /\ value'[v] = value[v]
  <2>1. v \in Workers /\ handle[v] = o /\ result[v] \in Results
        /\ wpc[v] \in {"result", "close", "done"}
    BY DEF Observed, HasEnded
  <2>2. handle'[v] = handle[v] /\ value'[v] = value[v] /\ result'[v] = result[v]
    BY <1>1, <1>2, <2>1 DEF Steady, Results
  <2>3. wpc'[v] \in {"result", "close", "done"}
    BY <1>1, <1>3, <2>1 DEF Steady
  <2> QED
    BY <2>1, <2>2, <2>3 DEF Observed, HasEnded
<1>5. registered # 0 => registered' = registered
  BY DEF Work, Opened, PeakLoad, PeakCas, Closed, Lookup, Insert, RequestStart,
         RequestEnd, MaxLoad, MaxCas, Observe, CountResult
<1>6. ASSUME registered # 0, Follows PROVE Follows'
  <2>1. PICK W \in SUBSET Observed(registered) :
          Cardinality(W) = monitor.total /\ Cardinality(Low(W, monitor.at - 1)) <= monitor.cum
    BY <1>6 DEF Follows
  <2>2. registered \in Objects /\ registered' = registered
    BY <1>1, <1>5, <1>6 DEF MetricsTypes
  <2>3. \A v \in W : v \in Observed(registered)' /\ value'[v] = value[v]
    BY <1>4, <2>1, <2>2
  <2>4. Low(W, monitor.at - 1)' = Low(W, monitor.at - 1)
    BY <1>1, <2>3 DEF Low
  <2>5. Cardinality(Low(W, monitor.at - 1))' <= monitor'.cum
    BY <1>1, <2>1, <2>4
  <2> QED
    BY <1>1, <2>1, <2>2, <2>3, <2>5 DEF Follows
<1>7. MonitorInv'
  BY <1>1, <1>5, <1>6 DEF MonitorInv
<1>8. ASSUME NEW v \in Workers, result[v] \in Results
      PROVE  result'[v] = result[v] /\ value'[v] = value[v]
  BY <1>1, <1>2, <1>8 DEF Steady, Results
<1>9. AlertNeedsCause'
  BY <1>1, <1>8 DEF AlertNeedsCause
<1> QED
  BY <1>7, <1>9

LEMMA GreatestIsMaximum ==
  ASSUME NEW S \in SUBSET Nat, NEW m \in S \cup {0}, \A n \in S : n <= m
  PROVE  m = Maximum(S)
<1> DEFINE P(k) == \A n \in S : n <= k
<1>1. PICK k : k = CHOOSE i \in S \cup {0} : P(i)
  OBVIOUS
<1>2. k \in S \cup {0} /\ P(k)
  BY <1>1
<1>3. k <= m /\ m <= k /\ k \in Nat /\ m \in Nat
  BY <1>2
<1> QED
  BY <1>1, <1>3 DEF Maximum

LEMMA CountingAgrees == CountingInv => CountersAgree
<1> SUFFICES ASSUME CountingInv, \A w \in Workers : wpc[w] \in {"idle", "done"},
                    registered # 0
             PROVE  LET m == metrics[registered] IN
                    /\ m.total = Cardinality(Finished) + Cardinality(With("cut"))
                    /\ m.active = Cardinality(With("cut"))
                    /\ m.count = Cardinality(Finished)
                    /\ \A r \in Results : m.ended[r] = Cardinality(With(r))
                    /\ \A b \in Buckets :
                         m.hist[b] = Cardinality({w \in Finished : Bucket(value[w]) = b})
                    /\ m.max = Maximum({value[w] : w \in Finished})
                    /\ tracker.active = 0 /\ tracker.closed = tracker.total
                    /\ tracker.peak = most
  BY DEF CountersAgree
<1>1. PICK o : o = registered
  OBVIOUS
<1>2. /\ MetricsTypes /\ OneObject /\ Tracked /\ PeakKept
      /\ o \in Objects /\ Numbers(o) /\ MaxKept(o)
  BY <1>1 DEF CountingInv, MetricsTypes
<1>3. ASSUME NEW w \in Workers
      PROVE  \/ wpc[w] = "idle" /\ result[w] = "none"
             \/ wpc[w] = "done" /\ handle[w] = o /\ result[w] \in Results \cup {"cut"}
  BY <1>1, <1>2 DEF OneObject, BeforeEnd, MetricsTypes
<1>4. HasEnded(o) = Finished /\ Unended(o) = With("cut")
  BY <1>3 DEF HasEnded, Finished, Unended, With, Results
<1>5. \A r \in Results : Resulted(o, r) = With(r)
  BY <1>3 DEF Resulted, With, Results
<1>6. \A b \in Buckets : InBucket(o, b) = {w \in Finished : Bucket(value[w]) = b}
  <2>1. Observed(o) = Finished
    BY <1>3, <1>4 DEF Observed, HasEnded, Finished
  <2> QED
    BY <2>1 DEF InBucket
<1>7. Cardinality(Counted(o)) = Cardinality(Finished) + Cardinality(With("cut"))
  <2>1. PICK F, C, E : F = Finished /\ C = With("cut") /\ E = {}
    OBVIOUS
  <2>2. Counted(o) = F \cup C
    BY <1>3, <2>1 DEF Counted, Finished, With, AfterEnd, Results
  <2>3. F \cap C = E
    BY <2>1 DEF Finished, With
  <2>4. IsFiniteSet(F) /\ IsFiniteSet(C)
    BY <2>1, FS_Subset, MetricsAssumption DEF Finished, With
  <2>5. Cardinality(F \cup C) = Cardinality(F) + Cardinality(C) - Cardinality(F \cap C)
    BY <2>4, FS_Union
  <2>6. Cardinality(E) = 0 /\ Cardinality(F) \in Nat /\ Cardinality(C) \in Nat
    BY <2>1, <2>4, FS_EmptySet, FS_CardinalityType
  <2>7. Cardinality(F \cap C) = 0
    BY <2>3, <2>6
  <2>8. Cardinality(F \cup C) = Cardinality(F) + Cardinality(C)
    BY <2>5, <2>6, <2>7
  <2> QED
    BY <2>1, <2>2, <2>8
<1>8. metrics[o].max = Maximum({value[w] : w \in Finished})
  <2>1. PICK S : S = {value[w] : w \in Finished}
    OBVIOUS
  <2>2. PICK m : m = metrics[o].max
    OBVIOUS
  <2>3. S \in SUBSET Nat
    BY <1>2, <2>1 DEF MetricsTypes, Finished
  <2>4. m \in S \cup {0} /\ \A n \in S : n <= m
    BY <1>2, <1>3, <1>4, <2>1, <2>2 DEF MaxKept, Finished
  <2> QED
    BY <2>1, <2>2, <2>3, <2>4, GreatestIsMaximum
<1>9. tracker.active = 0 /\ tracker.closed = tracker.total
  <2>1. /\ {w \in Workers : wpc[w] \notin {"idle", "done"}} = {}
        /\ {w \in Workers : wpc[w] = "done"} = {w \in Workers : wpc[w] # "idle"}
    BY <1>3
  <2> QED
    BY <1>2, <2>1, FS_EmptySet DEF Tracked
<1>10. tracker.peak = most
  BY <1>2, <1>3 DEF PeakKept, Peaking
<1> QED
  BY <1>1, <1>2, <1>4, <1>5, <1>6, <1>7, <1>8, <1>9, <1>10 DEF Numbers

(* What the workers' atomic operations leave behind and what the monitor    *)
(* reads meanwhile, whichever steps come between (metrics.rs).              *)
THEOREM MetricsInvariant == MetricsSpec => []MetricsInv
<1>1. MetricsInit => MetricsInv
  BY CountingStart DEF MetricsInit, MetricsInv, NewMonitor, MonitorInv, AlertNeedsCause
<1>2. MetricsInv /\ [MetricsNext]_metricsVars => MetricsInv'
  <2> SUFFICES ASSUME MetricsInv, [MetricsNext]_metricsVars PROVE MetricsInv'
    OBVIOUS
  <2>0. CountingInv /\ MonitorInv /\ AlertNeedsCause
    BY DEF MetricsInv
  <2>1. ASSUME NEW w \in Workers, Work(w) PROVE MetricsInv'
    BY <2>0, <2>1, CountingWork, WorkFollowed DEF MetricsInv
  <2>2. CASE SnapTotal
    <3>1. UNCHANGED <<workerVars, registered, metrics, tracker, most>>
      BY <2>2 DEF SnapTotal
    <3> QED
      BY <2>0, <2>2, <3>1, TotalRead, SameCounting DEF MetricsInv
  <2>3. CASE SnapFailures
    <3>1. UNCHANGED <<workerVars, registered, metrics, tracker, most>>
      BY <2>3 DEF SnapFailures
    <3> QED
      BY <2>0, <2>3, <3>1, FailuresRead, SameCounting DEF MetricsInv
  <2>4. CASE SnapBucket
    <3>1. UNCHANGED <<workerVars, registered, metrics, tracker, most>>
      BY <2>4 DEF SnapBucket
    <3> QED
      BY <2>0, <2>4, <3>1, BucketRead, SameCounting DEF MetricsInv
  <2>5. CASE UNCHANGED metricsVars
    <3>1. /\ UNCHANGED <<workerVars, registered, metrics, tracker, most>>
          /\ monitor' = monitor
      BY <2>5 DEF metricsVars
    <3>2. monitor' \in MonitorRecord
      BY <2>0, <3>1 DEF CountingInv, MetricsTypes, MonitorRecord
    <3>3. CountingInv'
      BY <2>0, <3>1, <3>2, SameCounting
    <3>4. \A o, W, b : Observed(o)' = Observed(o) /\ Low(W, b)' = Low(W, b)
      BY <3>1 DEF workerVars, Observed, HasEnded, Low
    <3>5. Follows => Follows'
      BY <3>1, <3>4 DEF Follows, Low
    <3>6. MonitorInv' /\ AlertNeedsCause'
      BY <2>0, <3>1, <3>5 DEF MonitorInv, AlertNeedsCause, workerVars
    <3> QED
      BY <3>3, <3>6 DEF MetricsInv
  <2> QED
    BY <2>1, <2>2, <2>3, <2>4, <2>5 DEF MetricsNext
<1> QED
  BY <1>1, <1>2, PTL DEF MetricsSpec

(* Once nobody is under way the numbers agree, for any number of workers:   *)
(* one object has every request of the service, and neither the maximum     *)
(* nor the peak has lost an update (metrics.rs:102, 188, 250).              *)
THEOREM CountersAgreeCorrect == MetricsSpec => []CountersAgree
<1>1. MetricsInv => CountersAgree
  BY CountingAgrees DEF MetricsInv
<1> QED
  BY <1>1, MetricsInvariant, PTL

(* An alert on the 99th percentile is due to a request slower than every    *)
(* bound within the threshold, or to one that was under way, or cut, when   *)
(* the total was read, for any threshold and any bounds of the histogram    *)
(* (AlertManager::check, metrics.rs:37, 44, 351).                           *)
THEOREM AlertNeedsCauseCorrect == MetricsSpec => []AlertNeedsCause
<1>1. MetricsInv => AlertNeedsCause
  BY DEF MetricsInv
<1> QED
  BY <1>1, MetricsInvariant, PTL

(* Where the threshold is itself a bound of the histogram, the request was  *)
(* slower than the threshold (metrics.rs:20, 351).                          *)
SlowerRequest ==
  "p99" \in monitor.alerts =>
    monitor.running \/ \E w \in Workers : result[w] \in Results /\ value[w] > SlowerThan

THEOREM AlertAtBoundCorrect ==
  ASSUME NEW b \in DOMAIN Bounds, Bounds[b] = SlowerThan
  PROVE  MetricsSpec => []SlowerRequest
<1>1. MetricsInv => SlowerRequest
  <2> SUFFICES ASSUME MetricsInv, "p99" \in monitor.alerts, ~monitor.running
               PROVE  \E w \in Workers : result[w] \in Results /\ value[w] > SlowerThan
    BY DEF SlowerRequest
  <2>1. PICK w \in Workers :
          /\ result[w] \in Results
          /\ \A i \in DOMAIN Bounds : Bounds[i] <= SlowerThan => Bounds[i] < value[w]
    BY DEF MetricsInv, AlertNeedsCause
  <2>2. value[w] \in Nat /\ SlowerThan \in Nat
    BY MetricsAssumption DEF MetricsInv, CountingInv, MetricsTypes
  <2>3. SlowerThan < value[w]
    BY <2>1, <2>2
  <2> QED
    BY <2>1, <2>2, <2>3
<1> QED
  BY <1>1, MetricsInvariant, PTL

==============================================================================
