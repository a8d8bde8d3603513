------------------------ MODULE ProductionPool_proofs ------------------------
(****************************************************************************)
(* Theorems about ProductionPool, for any number of calls, any              *)
(* max_concurrent and any breaker configuration.                            *)
(*                                                                          *)
(* The argument counts calls by program counter.  A step moves one call     *)
(* from one label to another (CountGoto), and the permits, the clients and  *)
(* the metrics all are such counts:                                         *)
(*   permits  + calls that hold a permit  = max_concurrent                  *)
(*   |idle|   + calls that use a client  <= max_concurrent                  *)
(****************************************************************************)
EXTENDS ProductionPool, FiniteSetTheorems, SequenceTheorems, TLAPS

\* Labels of a call that has a client checked out.
Using == InCall \cup {"checkin"}

\* How many calls a function of the calls, such as pc, maps into L.
CountIn(f, L) == Cardinality({c \in Calls : f[c] \in L})
Count(L) == CountIn(pc, L)

\* What one call at l adds to the count of L.
One(l, L) == IF l \in L THEN 1 ELSE 0

\* The types of everything but the counters and the breaker.
Types ==
  /\ pc \in [Calls -> Labels]
  /\ client \in [Calls -> Clients \cup {NoClient}]
  /\ outcome \in [Calls -> Outcomes]
  /\ answer \in [Calls -> Calls \cup {NoCall}]
  /\ permits \in Nat
  /\ idle \in Seq(Clients)
  /\ conn \in [Clients -> {"closed", "open", "torn"}]
  /\ owed \in [Clients -> Seq(Calls)]
  /\ closing \in {"no", "flagged", "sealed", "closed"}

\* A call has a client from its check-out to its check-in.
Shape == \A c \in Calls : client[c] # NoClient <=> pc[c] \in Using

Base == Types /\ Shape /\ ClientExclusive

PermitCount == permits + Count(Holding) = MaxConcurrent
ClientCount == Len(idle) + Count(Using) <= MaxConcurrent

------------------------------------------------------------------------------
(* One call's label or outcome changes: it is counted where it is now and   *)
(* no longer where it was.                                                  *)
LEMMA CountExcept ==
  ASSUME NEW c \in Calls, NEW R, NEW f \in [Calls -> R], NEW l, NEW L
  PROVE  /\ CountIn(f, L) \in Nat
         /\ CountIn([f EXCEPT ![c] = l], L) \in Nat
         /\ CountIn([f EXCEPT ![c] = l], L) = CountIn(f, L) + One(l, L) - One(f[c], L)
<1> DEFINE S == {d \in Calls : f[d] \in L}
           g == [f EXCEPT ![c] = l]
           T == {d \in Calls : g[d] \in L}
<1>1. IsFiniteSet(S) /\ Cardinality(S) \in Nat
  BY PoolAssumption, FS_Subset, FS_CardinalityType
<1>2. Cardinality(T) = Cardinality(S) + (IF l \in L THEN 1 ELSE 0)
                                      - (IF f[c] \in L THEN 1 ELSE 0)
  <2>1. CASE l \in L
    <3>1. T = S \cup {c}
      BY <2>1
    <3>2. c \in S <=> f[c] \in L
      OBVIOUS
    <3> HIDE DEF S, T
    <3>3. Cardinality(S \cup {c})
            = IF c \in S THEN Cardinality(S) ELSE Cardinality(S) + 1
      BY <1>1, FS_AddElement
    <3> QED
      BY <1>1, <2>1, <3>1, <3>2, <3>3
  <2>2. CASE l \notin L
    <3>1. T = S \ {c}
      BY <2>2
    <3>2. c \in S <=> f[c] \in L
      OBVIOUS
    <3> HIDE DEF S, T
    <3>3. Cardinality(S \ {c})
            = IF c \in S THEN Cardinality(S) - 1 ELSE Cardinality(S)
      BY <1>1, FS_RemoveElement
    <3> QED
      BY <1>1, <2>2, <3>1, <3>2, <3>3
  <2> QED
    BY <2>1, <2>2
<1>3. IsFiniteSet(T) /\ Cardinality(T) \in Nat
  BY PoolAssumption, FS_Subset, FS_CardinalityType
<1> QED
  BY <1>1, <1>2, <1>3 DEF CountIn, One

(* A call that moves to label l is counted where l is and no longer where   *)
(* it was.                                                                  *)
LEMMA CountGoto ==
  ASSUME NEW c \in Calls, NEW l, NEW L, pc \in [Calls -> Labels], Goto(c, l)
  PROVE  /\ Count(L) \in Nat
         /\ Count(L)' \in Nat
         /\ Count(L)' = Count(L) + One(l, L) - One(pc[c], L)
<1>1. Count(L) = CountIn(pc, L) /\ Count(L)' = CountIn(pc', L)
  BY DEF Count, CountIn
<1>2. pc' = [pc EXCEPT ![c] = l]
  BY DEF Goto
<1>3. CountIn([pc EXCEPT ![c] = l], L) = CountIn(pc, L) + One(l, L) - One(pc[c], L)
  BY CountExcept
<1>4. CountIn([pc EXCEPT ![c] = l], L) \in Nat /\ CountIn(pc, L) \in Nat
  BY CountExcept
<1> QED
  BY <1>1, <1>2, <1>3, <1>4

(* Counts are natural numbers and grow with the set of labels.              *)
LEMMA CountMonotonic ==
  ASSUME NEW L, NEW M, L \subseteq M
  PROVE  Count(L) \in Nat /\ Count(M) \in Nat /\ Count(L) <= Count(M)
<1> DEFINE S == {d \in Calls : pc[d] \in L}
           T == {d \in Calls : pc[d] \in M}
<1>1. IsFiniteSet(T)
  BY PoolAssumption, FS_Subset
<1>2. S \in SUBSET T
  OBVIOUS
<1> HIDE DEF S, T
<1>3. IsFiniteSet(S) /\ Cardinality(S) <= Cardinality(T)
  BY <1>1, <1>2, FS_Subset
<1>4. Cardinality(S) \in Nat /\ Cardinality(T) \in Nat
  BY <1>1, <1>3, FS_CardinalityType
<1> QED
  BY <1>3, <1>4 DEF Count, CountIn, S, T

(* The same of the state after a step.                                      *)
LEMMA CountMonotonicNext ==
  ASSUME NEW L, NEW M, L \subseteq M
  PROVE  Count(L)' \in Nat /\ Count(M)' \in Nat /\ Count(L)' <= Count(M)'
<1> DEFINE S == {d \in Calls : pc'[d] \in L}
           T == {d \in Calls : pc'[d] \in M}
<1>1. IsFiniteSet(T)
  BY PoolAssumption, FS_Subset
<1>2. S \in SUBSET T
  OBVIOUS
<1> HIDE DEF S, T
<1>3. IsFiniteSet(S) /\ Cardinality(S) <= Cardinality(T)
  BY <1>1, <1>2, FS_Subset
<1>4. Cardinality(S) \in Nat /\ Cardinality(T) \in Nat
  BY <1>1, <1>3, FS_CardinalityType
<1> QED
  BY <1>3, <1>4 DEF Count, CountIn, S, T

(* In the initial state nothing but "idle" is counted.                      *)
LEMMA CountInit ==
  ASSUME NEW L, "idle" \notin L, Init
  PROVE  Count(L) = 0
<1>1. {c \in Calls : pc[c] \in L} = {}
  BY DEF Init
<1> QED
  BY <1>1, FS_EmptySet DEF Count, CountIn

(* pop() of the Vec of idle clients.                                        *)
LEMMA PopIdle ==
  ASSUME NEW S, NEW s \in Seq(S), s # << >>
  PROVE  LET r == SubSeq(s, 1, Len(s) - 1) IN
         /\ r \in Seq(S)
         /\ Len(s) \in Nat \ {0}
         /\ Len(r) = Len(s) - 1
         /\ DOMAIN s = 1 .. Len(s) /\ DOMAIN r = 1 .. Len(s) - 1
         /\ \A i \in 1 .. Len(s) - 1 : r[i] = s[i]
         /\ s[Len(s)] \in S
<1> DEFINE r == SubSeq(s, 1, Len(s) - 1)
<1>1. Len(s) \in Nat \ {0} /\ DOMAIN s = 1 .. Len(s)
  BY LenProperties, EmptySeq
<1>2. s[Len(s)] \in S
  BY <1>1, ElementOfSeq
<1>3. r \in Seq(S) /\ Len(r) = Len(s) - 1
  BY <1>1, SubSeqProperties
<1>4. \A i \in 1 .. Len(s) - 1 : r[i] = s[i]
  BY <1>1, SubSeqProperties
<1>5. DOMAIN r = 1 .. Len(s) - 1
  BY <1>3, LenProperties
<1> QED
  BY <1>1, <1>2, <1>3, <1>4, <1>5

(* push() of the Vec of idle clients.                                       *)
LEMMA PushIdle ==
  ASSUME NEW S, NEW s \in Seq(S), NEW e \in S
  PROVE  LET r == Append(s, e) IN
         /\ r \in Seq(S)
         /\ Len(s) \in Nat
         /\ Len(r) = Len(s) + 1
         /\ DOMAIN s = 1 .. Len(s) /\ DOMAIN r = 1 .. Len(s) + 1
         /\ \A i \in 1 .. Len(s) : r[i] = s[i]
         /\ r[Len(s) + 1] = e
  OBVIOUS

------------------------------------------------------------------------------
(* Types, client ownership and exclusive use of clients: every step of a    *)
(* call, of close() and of the clock keeps them.                            *)
LEMMA BaseInit == Init => Base
<1> SUFFICES ASSUME Init PROVE Base
  OBVIOUS
<1>1. Types
  BY PoolAssumption
  DEF Init, Types, Labels, Outcomes, Holding, InCall, Ended
<1>2. Shape
  BY DEF Init, Shape, Using, InCall
<1>3. ClientExclusive
  BY DEF Init, ClientExclusive, IdleClients, Held
<1> QED
  BY <1>1, <1>2, <1>3 DEF Base

(* Every step of a call keeps the types and the check-out discipline.       *)
LEMMA TypesCall ==
  ASSUME Types, Shape, NEW c \in Calls, CallStep(c)
  PROVE  Types' /\ Shape'
<1> USE DEF Types, Shape, Labels, Outcomes, Holding, InCall, Ended, Using, Goto,
            callVars, streamVars
<1>1. CASE Begin(c)
  BY <1>1, PoolAssumption DEF Begin, Return
<1>2. CASE Admit(c)
  BY <1>2, PoolAssumption DEF Admit, Return
<1>3. CASE Acquire(c)
  BY <1>3, PoolAssumption DEF Acquire
<1>4. CASE Exhausted(c)
  BY <1>4, PoolAssumption DEF Exhausted, Return
<1>5. CASE Reuse(c)
  BY <1>5, PopIdle, PoolAssumption DEF Reuse, FirstStep
<1>6. CASE Create(c)
  BY <1>6, PoolAssumption DEF Create, FirstStep
<1>7. CASE Connect(c)
  BY <1>7, PoolAssumption DEF Connect
<1>8. CASE ConnectFails(c)
  BY <1>8, PoolAssumption DEF ConnectFails, Finish
<1>9. CASE Write(c)
  BY <1>9, PoolAssumption DEF Write
<1>10. CASE Read(c)
  <2> DEFINE k == client[c]
  <2>1. k \in Clients /\ Head(owed[k]) \in Calls
    <3>1. k \in Clients /\ owed[k] # << >>
      BY <1>10 DEF Read
    <3> QED
      BY <3>1
  <2>2. conn' \in [Clients -> {"closed", "open", "torn"}] /\ owed' \in [Clients -> Seq(Calls)]
    <3>1. CASE TearStream(k)
      BY <2>1, <3>1 DEF TearStream
    <3>2. CASE /\ \E n \in DOMAIN owed[k] : owed' = [owed EXCEPT ![k] = SubSeq(@, n + 1, Len(@))]
               /\ UNCHANGED conn
      <4>1. PICK n \in DOMAIN owed[k] : owed' = [owed EXCEPT ![k] = SubSeq(@, n + 1, Len(@))]
        BY <3>2
      <4>2. owed[k] \in Seq(Calls)
        BY <2>1
      <4>3. SubSeq(owed[k], n + 1, Len(owed[k])) \in Seq(Calls)
        BY <4>1, <4>2
      <4> QED
        BY <2>1, <3>2, <4>1, <4>3
    <3> QED
      BY <1>10, <3>1, <3>2 DEF Read
  <2>3. Finish(c, "ok", Head(owed[k])) /\ pc[c] = "read"
    BY <1>10 DEF Read
  <2> QED
    BY <2>1, <2>2, <2>3 DEF Finish
<1>11. CASE ExchangeFails(c)
  BY <1>11, PoolAssumption DEF ExchangeFails, Finish, CloseStream
<1>12. CASE TimeOut(c)
  <2>1. client[c] \in Clients
    BY <1>12, PoolAssumption DEF TimeOut
  <2>2. conn' \in [Clients -> {"closed", "open", "torn"}] /\ owed' \in [Clients -> Seq(Calls)]
    <3>1. CASE UNCHANGED streamVars
      BY <3>1
    <3>2. CASE TearStream(client[c])
      BY <2>1, <3>2 DEF TearStream
    <3> QED
      BY <1>12, <3>1, <3>2 DEF TimeOut
  <2>3. Goto(c, "checkin") /\ pc[c] \in InCall /\ Finish(c, "timeout", NoCall)
    BY <1>12 DEF TimeOut, Finish
  <2> QED
    BY <2>2, <2>3 DEF Finish
<1>13. CASE CheckIn(c)
  BY <1>13, PushIdle, PoolAssumption DEF CheckIn
<1>14. CASE Release(c)
  BY <1>14, PoolAssumption DEF Release
<1>15. CASE Record(c)
  BY <1>15, PoolAssumption DEF Record
<1>16. CASE Abandon(c)
  <2>1. conn' \in [Clients -> {"closed", "open", "torn"}] /\ owed' \in [Clients -> Seq(Calls)]
    <3>1. CASE UNCHANGED streamVars
      BY <3>1
    <3>2. CASE client[c] # NoClient /\ CloseStream(client[c])
      <4>1. client[c] \in Clients
        BY <3>2
      <4> QED
        BY <4>1, <3>2 DEF CloseStream
    <3> QED
      BY <1>16, <3>1, <3>2 DEF Abandon
  <2>2. permits' \in Nat
    BY <1>16 DEF Abandon
  <2>3. client' = [client EXCEPT ![c] = NoClient] /\ Goto(c, "dropped")
    BY <1>16 DEF Abandon
  <2>4. Shape'
    BY <2>3
  <2>5. UNCHANGED <<outcome, answer, idle, closing>>
    BY <1>16 DEF Abandon
  <2>6. pc' \in [Calls -> Labels] /\ client' \in [Calls -> Clients \cup {NoClient}]
    BY <2>3
  <2> QED
    BY <2>1, <2>2, <2>4, <2>5, <2>6
<1> QED
  BY <1>1, <1>2, <1>3, <1>4, <1>5, <1>6, <1>7, <1>8,
     <1>9, <1>10, <1>11, <1>12, <1>13, <1>14, <1>15, <1>16
  DEF CallStep, Advance, Exchange

(* A step that leaves the checked-out clients and the pool alone keeps them *)
(* exclusive; it is enough that clients disappear from calls and the pool.  *)
LEMMA ExclusiveLess ==
  ASSUME ClientExclusive, NEW c \in Calls,
         client' \in {client, [client EXCEPT ![c] = NoClient]},
         client \in [Calls -> Clients \cup {NoClient}],
         idle' = idle
  PROVE  ClientExclusive'
BY DEF ClientExclusive, Held, IdleClients

(* A checked-out client left the pool for the one call that has it.         *)
LEMMA ExclusiveReuse ==
  ASSUME ClientExclusive, Types, NEW c \in Calls, Reuse(c), Shape
  PROVE  ClientExclusive'
<1> DEFINE n == Len(idle)
           k == idle[n]
<1>1. /\ n \in Nat \ {0} /\ DOMAIN idle = 1 .. n
      /\ DOMAIN idle' = 1 .. n - 1
      /\ \A i \in 1 .. n - 1 : idle'[i] = idle[i]
      /\ k \in Clients
  BY PopIdle DEF Reuse, Types
<1>2. client' = [client EXCEPT ![c] = k] /\ client \in [Calls -> Clients \cup {NoClient}]
  BY DEF Reuse, Types
<1> HIDE DEF n
<1>3. k \in IdleClients /\ k # NoClient
  BY <1>1, PoolAssumption DEF IdleClients
<1>4. \A d \in Calls : client[d] # k
  BY <1>3 DEF ClientExclusive, Held
<1>5. IdleClients' \subseteq IdleClients \ {k}
  BY <1>1 DEF ClientExclusive, IdleClients
<1>6. \A d, e \in Calls : client'[d] = client'[e] /\ d # e => client'[d] = NoClient
  BY <1>2, <1>4 DEF ClientExclusive
<1>7. Held' \subseteq Held \cup {k}
  BY <1>2 DEF Held
<1>8. IdleClients' \cap Held' = {}
  BY <1>5, <1>7 DEF ClientExclusive
<1>9. \A i, j \in DOMAIN idle' : idle'[i] = idle'[j] => i = j
  BY <1>1 DEF ClientExclusive
<1> QED
  BY <1>6, <1>8, <1>9 DEF ClientExclusive

(* A new client is nobody else's.                                           *)
LEMMA ExclusiveCreate ==
  ASSUME ClientExclusive, Types, NEW c \in Calls, Create(c)
  PROVE  ClientExclusive'
<1>1. PICK k \in Clients \ Held : client' = [client EXCEPT ![c] = k]
  BY DEF Create
<1>2. idle' = << >> /\ idle = << >>
  BY DEF Create
<1>3. client \in [Calls -> Clients \cup {NoClient}]
  BY DEF Types
<1>4. \A d \in Calls : client[d] # k
  BY <1>1, PoolAssumption DEF Held
<1>5. \A d, e \in Calls : client'[d] = client'[e] /\ d # e => client'[d] = NoClient
  BY <1>1, <1>3, <1>4 DEF ClientExclusive
<1>6. IdleClients' = {} /\ DOMAIN idle' = {}
  BY <1>2 DEF IdleClients
<1> QED
  BY <1>5, <1>6 DEF ClientExclusive

(* A returned client is in the pool once, and with no call.                 *)
LEMMA ExclusiveCheckIn ==
  ASSUME ClientExclusive, Types, Shape, NEW c \in Calls, CheckIn(c)
  PROVE  ClientExclusive'
<1> DEFINE k == client[c]
           n == Len(idle)
<1>1. k \in Clients /\ k # NoClient
  BY DEF CheckIn, Types, Shape, Using
<1>2. /\ n \in Nat /\ DOMAIN idle = 1 .. n
      /\ DOMAIN idle' = 1 .. n + 1
      /\ \A i \in 1 .. n : idle'[i] = idle[i]
      /\ idle'[n + 1] = k
  BY <1>1, PushIdle DEF CheckIn, Types
<1>3. client' = [client EXCEPT ![c] = NoClient] /\ client \in [Calls -> Clients \cup {NoClient}]
  BY DEF CheckIn, Types
<1> HIDE DEF n
<1>4. k \in Held /\ k \notin IdleClients
  BY <1>1 DEF ClientExclusive, Held
<1>5. \A d \in Calls : client'[d] # k
  BY <1>1, <1>3 DEF ClientExclusive
<1>6. \A d, e \in Calls : client'[d] = client'[e] /\ d # e => client'[d] = NoClient
  BY <1>3 DEF ClientExclusive
<1>7. IdleClients' \subseteq IdleClients \cup {k}
  BY <1>2 DEF IdleClients
<1>8. Held' \subseteq Held \ {k}
  BY <1>3, <1>5 DEF Held
<1>9. IdleClients' \cap Held' = {}
  BY <1>7, <1>8 DEF ClientExclusive
<1>10. \A i \in 1 .. n : idle[i] # k
  BY <1>2, <1>4 DEF IdleClients
<1>11. \A i, j \in DOMAIN idle' : idle'[i] = idle'[j] => i = j
  BY <1>2, <1>10 DEF ClientExclusive
<1> QED
  BY <1>6, <1>9, <1>11 DEF ClientExclusive

(* Exclusive use of clients is kept by every step.                          *)
LEMMA ExclusiveStep ==
  ASSUME Base, [Next]_vars
  PROVE  ClientExclusive'
<1>1. Types /\ Shape /\ ClientExclusive /\ client \in [Calls -> Clients \cup {NoClient}]
  BY DEF Base, Types
<1>2. ASSUME NEW c \in Calls, CallStep(c)
      PROVE  ClientExclusive'
  <2>1. CASE Reuse(c)
    BY <1>1, <2>1, ExclusiveReuse
  <2>2. CASE Create(c)
    BY <1>1, <2>2, ExclusiveCreate
  <2>3. CASE CheckIn(c)
    BY <1>1, <2>3, ExclusiveCheckIn
  <2>4. CASE ~Reuse(c) /\ ~Create(c) /\ ~CheckIn(c)
    <3>1. idle' = idle /\ client' \in {client, [client EXCEPT ![c] = NoClient]}
      BY <1>2, <2>4
      DEF CallStep, Advance, Exchange, Begin, Admit, Acquire, Exhausted, Connect,
          ConnectFails, Write, Read, ExchangeFails, TimeOut, Release, Record,
          Abandon, Return, Finish
    <3> QED
      BY <1>1, <3>1, ExclusiveLess
  <2> QED
    BY <2>1, <2>2, <2>3, <2>4
<1>3. CASE CloseClients
  <2>1. idle' = << >> /\ client' = client
    BY <1>3 DEF CloseClients, callVars
  <2>2. IdleClients' = {} /\ DOMAIN idle' = {}
    BY <2>1 DEF IdleClients
  <2> QED
    BY <1>1, <2>1, <2>2 DEF ClientExclusive
<1>4. CASE CloseFlag \/ CloseSemaphore \/ Observe \/ Tick \/ UNCHANGED vars
  <2>1. idle' = idle /\ client' = client
    BY <1>4 DEF CloseFlag, CloseSemaphore, Observe, Tick, vars, callVars
  <2> QED
    BY <1>1, <2>1 DEF ClientExclusive, Held, IdleClients
<1> QED
  BY <1>2, <1>3, <1>4 DEF Next

(* The clients, their owners and the pool keep their types and shape.       *)
LEMMA BaseStep == Base /\ [Next]_vars => Base'
<1> SUFFICES ASSUME Base, [Next]_vars PROVE Base'
  OBVIOUS
<1>1. Types /\ Shape
  BY DEF Base
<1>2. CASE \E c \in Calls : CallStep(c)
  BY <1>1, <1>2, TypesCall, ExclusiveStep DEF Base
<1>3. CASE CloseClients
  <2>1. UNCHANGED <<callVars, permits>> /\ closing' = "closed" /\ idle' = << >>
    BY <1>3 DEF CloseClients
  <2>2. conn' \in [Clients -> {"closed", "open", "torn"}] /\ owed' \in [Clients -> Seq(Calls)]
    BY <1>1, <1>3 DEF CloseClients, Types
  <2>3. Types' /\ Shape'
    BY <1>1, <2>1, <2>2 DEF Types, Shape, callVars
  <2> QED
    BY <2>3, ExclusiveStep DEF Base
<1>4. CASE CloseFlag \/ CloseSemaphore \/ Observe \/ Tick \/ UNCHANGED vars
  <2>1. /\ UNCHANGED <<pc, client, outcome, answer, permits, idle, conn, owed>>
        /\ closing' \in {closing, "flagged", "sealed"}
    BY <1>4 DEF CloseFlag, CloseSemaphore, Observe, Tick, vars, callVars, streamVars
  <2>2. Types' /\ Shape'
    BY <1>1, <2>1 DEF Types, Shape
  <2> QED
    BY <2>2, ExclusiveStep DEF Base
<1> QED
  BY <1>2, <1>3, <1>4 DEF Next

------------------------------------------------------------------------------
(* The counts: permits with the calls that hold one, clients with the calls *)
(* that use one.                                                            *)
LEMMA CountsInit == Init => PermitCount /\ ClientCount
<1> SUFFICES ASSUME Init PROVE PermitCount /\ ClientCount
  OBVIOUS
<1>1. Count(Holding) = 0 /\ Count(Using) = 0
  BY CountInit DEF Holding, Using, InCall
<1> QED
  BY <1>1, PoolAssumption DEF Init, PermitCount, ClientCount

(* A step of a call keeps both counts: a client is created only when none   *)
(* is idle and by a call that already holds a permit, and it is back in the *)
(* pool before the permit is back.                                          *)
LEMMA CountsCall ==
  ASSUME Base, PermitCount, ClientCount, NEW c \in Calls, CallStep(c)
  PROVE  PermitCount' /\ ClientCount'
<1>0. Types /\ Shape /\ pc \in [Calls -> Labels] /\ idle \in Seq(Clients)
      /\ permits \in Nat /\ MaxConcurrent \in Nat /\ Len(idle) \in Nat
  BY PoolAssumption, LenProperties DEF Base, Types
<1>1. /\ Count(Holding) \in Nat /\ Count(Using) \in Nat /\ Count(Using \cup {"checkout"}) \in Nat
      /\ Count(Using) <= Count(Holding)
  BY CountMonotonic DEF Holding, Using
<1>2. ASSUME NEW l, Goto(c, l)
      PROVE  /\ Count(Holding)' = Count(Holding) + (IF l \in Holding THEN 1 ELSE 0)
                                     - (IF pc[c] \in Holding THEN 1 ELSE 0)
             /\ Count(Using)' = Count(Using) + (IF l \in Using THEN 1 ELSE 0)
                                     - (IF pc[c] \in Using THEN 1 ELSE 0)
  BY <1>0, <1>2, CountGoto DEF One
<1> HIDE DEF Holding, Using
<1>3. /\ PermitCount <=> permits + Count(Holding) = MaxConcurrent
      /\ PermitCount' <=> permits' + Count(Holding)' = MaxConcurrent
      /\ ClientCount <=> Len(idle) + Count(Using) <= MaxConcurrent
      /\ ClientCount' <=> Len(idle') + Count(Using)' <= MaxConcurrent
  BY DEF PermitCount, ClientCount
\* Steps outside the permit, and those within one label of a running call.
<1>4. ASSUME NEW l, Goto(c, l), l \in Holding <=> pc[c] \in Holding,
             l \in Using <=> pc[c] \in Using, UNCHANGED <<permits, idle>>
      PROVE  PermitCount' /\ ClientCount'
  BY <1>0, <1>1, <1>2, <1>3, <1>4
<1>5. CASE Begin(c)
  BY <1>4, <1>5 DEF Begin, Return, Holding, Using, InCall
<1>6. CASE Admit(c)
  BY <1>4, <1>6 DEF Admit, Return, Holding, Using, InCall
<1>7. CASE Exhausted(c)
  BY <1>4, <1>7 DEF Exhausted, Return, Holding, Using, InCall
<1>8. CASE Record(c)
  BY <1>4, <1>8 DEF Record, Holding, Using, InCall
<1>9. CASE Connect(c)
  BY <1>4, <1>9 DEF Connect, Holding, Using, InCall
<1>10. CASE ConnectFails(c)
  BY <1>4, <1>10 DEF ConnectFails, Finish, Holding, Using, InCall
<1>11. CASE Write(c)
  BY <1>4, <1>11 DEF Write, Holding, Using, InCall
<1>12. CASE Read(c)
  BY <1>4, <1>12 DEF Read, Finish, Holding, Using, InCall
<1>13. CASE ExchangeFails(c)
  BY <1>4, <1>13 DEF ExchangeFails, Finish, Holding, Using, InCall
<1>14. CASE TimeOut(c)
  BY <1>4, <1>14 DEF TimeOut, Finish, Holding, Using, InCall
<1>15. CASE Acquire(c)
  <2>1. /\ Goto(c, "checkout") /\ pc[c] = "acquire" /\ permits' = permits - 1 /\ idle' = idle
        /\ "checkout" \in Holding /\ "checkout" \notin Using
        /\ pc[c] \notin Holding /\ pc[c] \notin Using
    BY <1>15 DEF Acquire, Holding, Using, InCall
  <2> QED
    BY <1>0, <1>1, <1>2, <1>3, <2>1
<1>16. CASE Reuse(c)
  <2>1. PICK l \in {"connect", "write"} : Goto(c, l)
    BY <1>16 DEF Reuse, FirstStep
  <2>2. /\ pc[c] = "checkout" /\ permits' = permits
        /\ l \in Holding /\ l \in Using
        /\ pc[c] \in Holding /\ pc[c] \notin Using
    BY <1>16 DEF Reuse, Holding, Using, InCall
  <2>3. Len(idle') = Len(idle) - 1
    BY <1>0, <1>16, PopIdle DEF Reuse
  <2> QED
    BY <1>0, <1>1, <1>2, <1>3, <2>1, <2>2, <2>3
<1>17. CASE Create(c)
  <2>1. PICK l \in {"connect", "write"} : Goto(c, l)
    BY <1>17 DEF Create, FirstStep
  <2>2. /\ pc[c] = "checkout" /\ permits' = permits /\ idle' = << >>
        /\ l \in Holding /\ l \in Using
        /\ pc[c] \in Holding /\ pc[c] \notin Using
    BY <1>17 DEF Create, Holding, Using, InCall
  <2>3. Count(Holding)' = Count(Holding) /\ Count(Holding)' \in Nat
    BY <1>1, <1>2, <2>1, <2>2
  <2>4. Count(Using)' <= Count(Holding)'
    BY CountMonotonicNext DEF Holding, Using
  <2> QED
    BY <1>0, <1>1, <1>2, <1>3, <2>1, <2>2, <2>3, <2>4
<1>18. CASE CheckIn(c)
  <2>1. /\ Goto(c, "release") /\ pc[c] = "checkin" /\ permits' = permits
        /\ "release" \in Holding /\ "release" \notin Using
        /\ pc[c] \in Holding /\ pc[c] \in Using
    BY <1>18 DEF CheckIn, Holding, Using, InCall
  <2>2. client[c] \in Clients
    BY <1>0, <2>1 DEF Shape, Types
  <2>3. Len(idle') = Len(idle) + 1
    BY <1>0, <1>18, <2>2, PushIdle DEF CheckIn
  <2> QED
    BY <1>0, <1>1, <1>2, <1>3, <2>1, <2>3
<1>19. CASE Release(c)
  <2>1. /\ Goto(c, "record") /\ pc[c] = "release" /\ permits' = permits + 1 /\ idle' = idle
        /\ "record" \notin Holding /\ "record" \notin Using
        /\ pc[c] \in Holding /\ pc[c] \notin Using
    BY <1>19 DEF Release, Holding, Using, InCall
  <2> QED
    BY <1>0, <1>1, <1>2, <1>3, <2>1
<1>20. CASE Abandon(c)
  <2>1. /\ Goto(c, "dropped") /\ idle' = idle
        /\ "dropped" \notin Holding /\ "dropped" \notin Using
    BY <1>20 DEF Abandon, Holding, Using, InCall
  <2>2. CASE pc[c] = "acquire"
    <3>1. pc[c] \notin Holding /\ pc[c] \notin Using /\ permits' = permits
      BY <1>20, <2>2 DEF Abandon, Holding, Using, InCall
    <3> QED
      BY <1>0, <1>1, <1>2, <1>3, <2>1, <3>1
  <2>3. CASE pc[c] # "acquire"
    <3>1. pc[c] \in Holding /\ permits' = permits + 1
      BY <1>20, <2>3 DEF Abandon, Holding
    <3>2. Count(Holding)' = Count(Holding) - 1
      BY <1>1, <1>2, <2>1, <3>1
    <3>3. Count(Using)' \in {Count(Using), Count(Using) - 1}
      BY <1>1, <1>2, <2>1
    <3> QED
      BY <1>0, <1>1, <1>3, <2>1, <3>1, <3>2, <3>3
  <2> QED
    BY <2>2, <2>3
<1> QED
  BY <1>5, <1>6, <1>7, <1>8, <1>9, <1>10, <1>11, <1>12, <1>13, <1>14, <1>15,
     <1>16, <1>17, <1>18, <1>19, <1>20 DEF CallStep, Advance, Exchange

(* The inductive invariant.                                                 *)
IInv == Base /\ PermitCount /\ ClientCount

(* Every step keeps the counts: outside the calls only close() touches the  *)
(* pool, and it only empties it.                                            *)
LEMMA CountsStep == IInv /\ [Next]_vars => PermitCount' /\ ClientCount'
<1> SUFFICES ASSUME IInv, [Next]_vars PROVE PermitCount' /\ ClientCount'
  OBVIOUS
<1>1. Base /\ PermitCount /\ ClientCount /\ Len(idle) \in Nat /\ Count(Using) \in Nat
      /\ MaxConcurrent \in Nat
  BY PoolAssumption, LenProperties, CountMonotonic DEF IInv, Base, Types
<1>2. CASE \E c \in Calls : CallStep(c)
  BY <1>1, <1>2, CountsCall
<1>3. ASSUME pc' = pc, permits' = permits, idle' = idle \/ idle' = << >>
      PROVE  PermitCount' /\ ClientCount'
  <2>1. Count(Holding)' = Count(Holding) /\ Count(Using)' = Count(Using)
    BY <1>3 DEF Count
  <2>2. Len(idle') <= Len(idle)
    BY <1>1, <1>3
  <2> QED
    BY <1>1, <1>3, <2>1, <2>2 DEF PermitCount, ClientCount
<1>4. CASE CloseClients
  BY <1>3, <1>4 DEF CloseClients, callVars
<1>5. CASE CloseFlag \/ CloseSemaphore \/ Observe \/ Tick \/ UNCHANGED vars
  BY <1>3, <1>5 DEF CloseFlag, CloseSemaphore, Observe, Tick, vars, callVars
<1> QED
  BY <1>2, <1>4, <1>5 DEF Next

(* Whatever calls, servers, callers and close() do, in whatever order.      *)
THEOREM PoolInvariant == Spec => []IInv
<1>1. Init => IInv
  BY BaseInit, CountsInit DEF IInv
<1>2. IInv /\ [Next]_vars => IInv'
  BY BaseStep, CountsStep DEF IInv
<1> QED
  BY <1>1, <1>2, PTL DEF Spec

(* No client, and so no stream, is ever with two calls (pool.pop() and      *)
(* pool.push() of call_with_timeout, close(), dropped futures).             *)
THEOREM ClientExclusiveCorrect == Spec => []ClientExclusive
<1>1. IInv => ClientExclusive
  BY DEF IInv, Base
<1> QED
  BY <1>1, PoolInvariant, PTL

(* The semaphore's permits are conserved by every way a call can end, so    *)
(* the pool never loses capacity and never runs more than max_concurrent    *)
(* calls.                                                                   *)
THEOREM PermitsConservedCorrect == Spec => []PermitsConserved
<1>1. IInv => PermitsConserved
  BY DEF IInv, PermitCount, PermitsConserved, Count, CountIn, Holders
<1> QED
  BY <1>1, PoolInvariant, PTL

(* The clients that calls hold are at most as many as the calls.            *)
LEMMA HeldBounded == Types /\ Shape => IsFiniteSet(Held) /\ Cardinality(Held) <= Count(Using)
<1> SUFFICES ASSUME Types, Shape
             PROVE  IsFiniteSet(Held) /\ Cardinality(Held) <= Count(Using)
  OBVIOUS
<1> DEFINE S == {c \in Calls : pc[c] \in Using}
           f == [c \in S |-> client[c]]
<1>1. IsFiniteSet(S)
  BY PoolAssumption, FS_Subset
<1>2. f \in Surjection(S, Held)
  <2>1. \A c \in Calls : pc[c] \in Using <=> client[c] # NoClient
    BY DEF Shape
  <2>2. f \in [S -> Held]
    BY <2>1 DEF Held
  <2>3. \A k \in Held : \E c \in S : f[c] = k
    BY <2>1 DEF Held
  <2> QED
    BY <2>2, <2>3 DEF Surjection
<1> HIDE DEF S, f
<1>3. IsFiniteSet(Held) /\ Cardinality(Held) <= Cardinality(S)
  BY <1>1, <1>2, FS_Surjection
<1> QED
  BY <1>3 DEF Count, CountIn, S

(* Idle and lent clients together never exceed max_concurrent, which is     *)
(* what bounds the sockets the pool opens.                                  *)
THEOREM ClientsWithinLimitCorrect == Spec => []ClientsWithinLimit
<1>1. IInv => ClientsWithinLimit
  <2> SUFFICES ASSUME IInv PROVE ClientsWithinLimit
    OBVIOUS
  <2>1. Types /\ Shape /\ ClientCount /\ idle \in Seq(Clients)
    BY DEF IInv, Base, Types
  <2>2. IsFiniteSet(Held) /\ Cardinality(Held) <= Count(Using)
    BY <2>1, HeldBounded
  <2>3. Len(idle) \in Nat /\ Cardinality(Held) \in Nat /\ Count(Using) \in Nat
        /\ MaxConcurrent \in Nat
    BY <2>1, <2>2, FS_CardinalityType, CountMonotonic, LenProperties, PoolAssumption
  <2> QED
    BY <2>1, <2>2, <2>3 DEF ClientCount, ClientsWithinLimit
<1> QED
  BY <1>1, PoolInvariant, PTL

------------------------------------------------------------------------------
(* Answers.  As long as no call has timed out a stream owes at most one     *)
(* response, to the call that is reading from it.                           *)
NoTimeout == \A c \in Calls : outcome[c] # "timeout"

OwesReader ==
  \A k \in Clients :
    \/ owed[k] = << >>
    \/ \E c \in Calls : client[c] = k /\ pc[c] = "read" /\ owed[k] = <<c>>

\* An outcome is decided when client.call returns, or the call itself does.
Decided ==
  \A c \in Calls :
    outcome[c] # "none" => pc[c] \in {"checkin", "release", "record"} \cup Ended

AnswerInv == Decided /\ (NoTimeout => OwesReader /\ AnswersOwnRequest)

(* Responses only disappear, and a reader that stops reading takes what its *)
(* stream owes with it.                                                     *)
LEMMA OwesLess ==
  ASSUME OwesReader,
         \A k \in Clients : owed'[k] = owed[k] \/ owed'[k] = << >>,
         \A d \in Calls : pc[d] = "read" /\ client[d] \in Clients =>
           \/ pc'[d] = "read" /\ client'[d] = client[d]
           \/ owed'[client[d]] = << >>
  PROVE  OwesReader'
<1> SUFFICES ASSUME NEW k \in Clients, owed'[k] # << >>
             PROVE  \E c \in Calls : client'[c] = k /\ pc'[c] = "read" /\ owed'[k] = <<c>>
  BY DEF OwesReader
<1>1. owed'[k] = owed[k] /\ owed[k] # << >>
  OBVIOUS
<1>2. PICK c \in Calls : client[c] = k /\ pc[c] = "read" /\ owed[k] = <<c>>
  BY <1>1 DEF OwesReader
<1>3. pc'[c] = "read" /\ client'[c] = k
  BY <1>1, <1>2
<1> QED
  BY <1>1, <1>2, <1>3

(* A call decides its outcome once, so a timeout is never forgotten.        *)
LEMMA DecidedCall ==
  ASSUME Base, Decided, NEW c \in Calls, CallStep(c)
  PROVE  Decided' /\ (NoTimeout' => NoTimeout)
<1>1. /\ pc \in [Calls -> Labels] /\ outcome \in [Calls -> Outcomes]
      /\ Types' /\ \A d \in Calls : pc'[d] \in Labels
  BY TypesCall DEF Base, Types
<1> DEFINE Late == {"checkin", "release", "record"} \cup Ended
\* The call returns or client.call does: nothing was decided before.
<1>2. ASSUME NEW o, NEW l \in {"done", "checkin"}, outcome' = [outcome EXCEPT ![c] = o],
             Goto(c, l), pc[c] \notin Late
      PROVE  Decided' /\ (NoTimeout' => NoTimeout)
  <2>1. outcome[c] = "none"
    BY <1>2 DEF Decided
  <2>2. Decided'
    BY <1>1, <1>2 DEF Decided, Goto, Ended
  <2>3. NoTimeout' => NoTimeout
    BY <1>1, <1>2, <2>1 DEF NoTimeout
  <2> QED
    BY <2>2, <2>3
\* The call goes on.
<1>3. ASSUME NEW l, outcome' = outcome, Goto(c, l), pc[c] \in Late => l \in Late
      PROVE  Decided' /\ (NoTimeout' => NoTimeout)
  <2>1. Decided'
    BY <1>1, <1>3 DEF Decided, Goto
  <2>2. NoTimeout' => NoTimeout
    BY <1>3 DEF NoTimeout
  <2> QED
    BY <2>1, <2>2
<1> HIDE DEF Late
<1>4. CASE Begin(c)
  BY <1>2, <1>3, <1>4 DEF Begin, Return, Late, Ended
<1>5. CASE Admit(c)
  BY <1>2, <1>3, <1>5 DEF Admit, Return, Late, Ended
<1>6. CASE Acquire(c)
  BY <1>3, <1>6 DEF Acquire, Late, Ended
<1>7. CASE Exhausted(c)
  BY <1>2, <1>7 DEF Exhausted, Return, Late, Ended
<1>8. CASE Reuse(c)
  BY <1>3, <1>8 DEF Reuse, FirstStep, Late, Ended
<1>9. CASE Create(c)
  BY <1>3, <1>9 DEF Create, FirstStep, Late, Ended
<1>10. CASE Connect(c)
  BY <1>3, <1>10 DEF Connect, Late, Ended
<1>11. CASE ConnectFails(c)
  BY <1>2, <1>11 DEF ConnectFails, Finish, Late, Ended
<1>12. CASE Write(c)
  BY <1>3, <1>12 DEF Write, Late, Ended
<1>13. CASE Read(c)
  BY <1>2, <1>13 DEF Read, Finish, Late, Ended
<1>14. CASE ExchangeFails(c)
  BY <1>2, <1>14 DEF ExchangeFails, Finish, Late, Ended
<1>15. CASE TimeOut(c)
  BY <1>2, <1>15 DEF TimeOut, Finish, InCall, Late, Ended
<1>16. CASE CheckIn(c)
  BY <1>3, <1>16 DEF CheckIn, Late
<1>17. CASE Release(c)
  BY <1>3, <1>17 DEF Release, Late
<1>18. CASE Record(c)
  BY <1>3, <1>18 DEF Record, Late, Ended
<1>19. CASE Abandon(c)
  BY <1>3, <1>19 DEF Abandon, Late, Ended
<1> QED
  BY <1>4, <1>5, <1>6, <1>7, <1>8, <1>9, <1>10, <1>11, <1>12, <1>13, <1>14,
     <1>15, <1>16, <1>17, <1>18, <1>19 DEF CallStep, Advance, Exchange

(* A reader finds its own response, and nothing else, on its stream; it     *)
(* leaves the stream empty however it stops.                                *)
LEMMA OwesCall ==
  ASSUME Base, OwesReader, AnswersOwnRequest, NEW c \in Calls, CallStep(c), ~TimeOut(c)
  PROVE  OwesReader' /\ AnswersOwnRequest'
<1>1. /\ Types /\ Shape /\ ClientExclusive
      /\ pc \in [Calls -> Labels] /\ client \in [Calls -> Clients \cup {NoClient}]
      /\ answer \in [Calls -> Calls \cup {NoCall}] /\ owed \in [Clients -> Seq(Calls)]
  BY DEF Base, Types
<1>2. ASSUME pc[c] \in Using
      PROVE  client[c] \in Clients
  BY <1>1, <1>2 DEF Shape
<1>3. ASSUME NEW d \in Calls, d # c, pc[c] \in Using
      PROVE  client[d] # client[c]
  BY <1>1, <1>2, <1>3, PoolAssumption DEF ClientExclusive
\* Steps that leave the streams alone, by a call that is not reading.
<1>4. ASSUME owed' = owed, answer' = answer, pc[c] # "read", NEW l, Goto(c, l),
             NEW k, client' = [client EXCEPT ![c] = k]
      PROVE  OwesReader' /\ AnswersOwnRequest'
  <2>1. \A d \in Calls : pc[d] = "read" => pc'[d] = "read" /\ client'[d] = client[d]
    BY <1>1, <1>4 DEF Goto
  <2> QED
    BY <1>4, <2>1, OwesLess DEF AnswersOwnRequest
<1>5. client = [client EXCEPT ![c] = client[c]]
  BY <1>1
<1>6. CASE Begin(c)
  BY <1>4, <1>5, <1>6 DEF Begin, Return, streamVars
<1>7. CASE Admit(c)
  BY <1>4, <1>5, <1>7 DEF Admit, Return, streamVars
<1>8. CASE Acquire(c)
  BY <1>4, <1>5, <1>8 DEF Acquire, streamVars
<1>9. CASE Exhausted(c)
  BY <1>4, <1>5, <1>9 DEF Exhausted, Return, streamVars
<1>10. CASE Reuse(c)
  BY <1>4, <1>10 DEF Reuse, streamVars
<1>11. CASE Create(c)
  BY <1>4, <1>11 DEF Create, streamVars
<1>12. CASE Connect(c)
  BY <1>4, <1>5, <1>12 DEF Connect
<1>13. CASE ConnectFails(c)
  <2>1. /\ owed' = owed /\ pc[c] # "read" /\ Goto(c, "checkin") /\ client' = client
        /\ answer' = [answer EXCEPT ![c] = NoCall]
    BY <1>13 DEF ConnectFails, Finish, streamVars
  <2>2. \A d \in Calls : pc[d] = "read" => pc'[d] = "read" /\ client'[d] = client[d]
    BY <1>1, <2>1 DEF Goto
  <2> QED
    BY <1>1, <2>1, <2>2, OwesLess DEF AnswersOwnRequest
<1>14. CASE Write(c)
  <2> DEFINE k == client[c]
  <2>1. /\ pc[c] = "write" /\ Goto(c, "read") /\ client' = client /\ answer' = answer
        /\ owed' = IF conn[k] = "open" THEN [owed EXCEPT ![k] = Append(@, c)] ELSE owed
    BY <1>14 DEF Write
  <2>2. pc[c] \in Using /\ k \in Clients
    BY <1>2, <2>1 DEF Using, InCall
  <2>3. owed[k] = << >>
    <3>1. \A d \in Calls : ~(client[d] = k /\ pc[d] = "read")
      BY <1>3, <2>1, <2>2
    <3> QED
      BY <2>2, <3>1 DEF OwesReader
  <2>4. pc'[c] = "read" /\ \A d \in Calls : pc[d] = "read" => pc'[d] = "read"
    BY <1>1, <2>1 DEF Goto
  <2>5. CASE conn[k] = "open"
    <3>1. owed'[k] = <<c>> /\ \A j \in Clients \ {k} : owed'[j] = owed[j]
      BY <1>1, <2>1, <2>2, <2>3, <2>5
    <3>2. OwesReader'
      BY <2>1, <2>4, <3>1 DEF OwesReader
    <3> QED
      BY <2>1, <3>2 DEF AnswersOwnRequest
  <2>6. CASE conn[k] # "open"
    BY <2>1, <2>4, <2>6, OwesLess DEF AnswersOwnRequest
  <2> QED
    BY <2>5, <2>6
<1>15. CASE Read(c)
  <2> DEFINE k == client[c]
  <2>1. /\ pc[c] = "read" /\ owed[k] # << >> /\ Goto(c, "checkin") /\ client' = client
        /\ answer' = [answer EXCEPT ![c] = Head(owed[k])]
        /\ \/ \E n \in DOMAIN owed[k] : owed' = [owed EXCEPT ![k] = SubSeq(@, n + 1, Len(@))]
           \/ Len(owed[k]) > 1
    BY <1>15 DEF Read, Finish
  <2>2. pc[c] \in Using /\ k \in Clients
    BY <1>2, <2>1 DEF Using, InCall
  <2>3. PICK d \in Calls : client[d] = k /\ owed[k] = <<d>>
    BY <2>1, <2>2 DEF OwesReader
  <2>4. d = c
    BY <1>3, <2>2, <2>3
  <2>5. Head(owed[k]) = c /\ owed' = [owed EXCEPT ![k] = << >>]
    <3>1. owed[k] = <<c>> /\ Len(owed[k]) = 1 /\ DOMAIN owed[k] = {1}
      BY <2>3, <2>4
    <3>2. PICK n \in {1} : owed' = [owed EXCEPT ![k] = SubSeq(@, n + 1, Len(@))]
      BY <2>1, <3>1
    <3>3. SubSeq(owed[k], n + 1, Len(owed[k])) = << >>
      BY <2>2, <1>1, <3>1
    <3>4. Head(<<c>>) = c
      OBVIOUS
    <3> QED
      BY <3>1, <3>2, <3>3, <3>4
  <2>6. AnswersOwnRequest'
    BY <1>1, <2>1, <2>5 DEF AnswersOwnRequest
  <2>7. \A j \in Clients : owed'[j] = owed[j] \/ owed'[j] = << >>
    BY <1>1, <2>5
  <2>8. \A e \in Calls : pc[e] = "read" /\ client[e] \in Clients =>
          \/ pc'[e] = "read" /\ client'[e] = client[e]
          \/ owed'[client[e]] = << >>
    BY <1>1, <2>1, <2>5 DEF Goto
  <2> QED
    BY <2>6, <2>7, <2>8, OwesLess
<1>16. CASE ExchangeFails(c)
  <2>1. /\ pc[c] \in Using /\ Goto(c, "checkin") /\ client' = client
        /\ owed' = [owed EXCEPT ![client[c]] = << >>]
        /\ answer' = [answer EXCEPT ![c] = NoCall]
    BY <1>16 DEF ExchangeFails, Finish, CloseStream, Using, InCall
  <2>2. \A j \in Clients : owed'[j] = owed[j] \/ owed'[j] = << >>
    BY <1>1, <2>1
  <2>3. \A e \in Calls : pc[e] = "read" /\ client[e] \in Clients =>
          \/ pc'[e] = "read" /\ client'[e] = client[e]
          \/ owed'[client[e]] = << >>
    BY <1>1, <2>1 DEF Goto
  <2>4. AnswersOwnRequest'
    BY <1>1, <2>1 DEF AnswersOwnRequest
  <2> QED
    BY <2>2, <2>3, <2>4, OwesLess
<1>17. CASE CheckIn(c)
  BY <1>4, <1>17 DEF CheckIn, streamVars
<1>18. CASE Release(c)
  BY <1>4, <1>5, <1>18 DEF Release, streamVars
<1>19. CASE Record(c)
  BY <1>4, <1>5, <1>19 DEF Record, streamVars
<1>20. CASE Abandon(c)
  <2>1. Goto(c, "dropped") /\ client' = [client EXCEPT ![c] = NoClient] /\ answer' = answer
    BY <1>20 DEF Abandon
  <2>2. CASE client[c] = NoClient
    <3>1. owed' = owed
      BY <1>20, <2>2 DEF Abandon, streamVars
    <3>2. pc[c] # "read"
      BY <1>1, <2>2 DEF Shape, Using, InCall
    <3> QED
      BY <1>4, <2>1, <3>1, <3>2
  <2>3. CASE client[c] # NoClient
    <3>1. owed' = [owed EXCEPT ![client[c]] = << >>]
      BY <1>20, <2>3 DEF Abandon, CloseStream
    <3>2. \A j \in Clients : owed'[j] = owed[j] \/ owed'[j] = << >>
      BY <1>1, <3>1
    <3>3. \A e \in Calls : pc[e] = "read" /\ client[e] \in Clients =>
            \/ pc'[e] = "read" /\ client'[e] = client[e]
            \/ owed'[client[e]] = << >>
      BY <1>1, <2>1, <3>1 DEF Goto
    <3> QED
      BY <2>1, <3>2, <3>3, OwesLess DEF AnswersOwnRequest
  <2> QED
    BY <2>2, <2>3
<1> QED
  BY <1>6, <1>7, <1>8, <1>9, <1>10, <1>11, <1>12, <1>13, <1>14, <1>15, <1>16,
     <1>17, <1>18, <1>19, <1>20 DEF CallStep, Advance, Exchange

(* close(), the clock and observers take responses away at most.            *)
LEMMA AnswerStep == Base /\ AnswerInv /\ [Next]_vars => AnswerInv'
<1> SUFFICES ASSUME Base, AnswerInv, [Next]_vars PROVE AnswerInv'
  OBVIOUS
<1>1. ASSUME NEW c \in Calls, CallStep(c)
      PROVE  AnswerInv'
  <2>1. Decided' /\ (NoTimeout' => NoTimeout)
    BY <1>1, DecidedCall DEF AnswerInv
  <2>2. CASE TimeOut(c)
    <3>1. outcome' = [outcome EXCEPT ![c] = "timeout"] /\ outcome \in [Calls -> Outcomes]
      BY <2>2 DEF TimeOut, Finish, Base, Types
    <3>2. ~NoTimeout'
      BY <3>1 DEF NoTimeout
    <3> QED
      BY <2>1, <3>2 DEF AnswerInv
  <2>3. CASE ~TimeOut(c)
    <3>1. NoTimeout' => OwesReader' /\ AnswersOwnRequest'
      BY <1>1, <2>1, <2>3, OwesCall DEF AnswerInv
    <3> QED
      BY <2>1, <3>1 DEF AnswerInv
  <2> QED
    BY <2>2, <2>3
<1>2. CASE CloseClients
  <2>1. UNCHANGED <<pc, client, outcome, answer>>
    BY <1>2 DEF CloseClients, callVars
  <2>2. \A k \in Clients : owed'[k] = owed[k] \/ owed'[k] = << >>
    BY <1>2 DEF CloseClients
  <2>3. OwesReader => OwesReader'
    BY <2>1, <2>2, OwesLess
  <2> QED
    BY <2>1, <2>3 DEF AnswerInv, Decided, NoTimeout, AnswersOwnRequest
<1>3. CASE CloseFlag \/ CloseSemaphore \/ Observe \/ Tick \/ UNCHANGED vars
  <2>1. UNCHANGED <<pc, client, outcome, answer, owed>>
    BY <1>3 DEF CloseFlag, CloseSemaphore, Observe, Tick, vars, callVars, streamVars
  <2> QED
    BY <2>1 DEF AnswerInv, Decided, NoTimeout, OwesReader, AnswersOwnRequest
<1> QED
  BY <1>1, <1>2, <1>3 DEF Next

(* Until some call has run into the pool's timeout, every response a call   *)
(* returns answers that call: UdsClient::call drops a stream that failed,   *)
(* and a dropped call takes its client with it.                             *)
THEOREM WrongAnswerNeedsTimeoutCorrect == Spec => []WrongAnswerNeedsTimeout
<1>1. Init => AnswerInv
  BY DEF Init, AnswerInv, Decided, NoTimeout, OwesReader, AnswersOwnRequest
<1>2. Base /\ AnswerInv /\ [Next]_vars => AnswerInv'
  BY AnswerStep
<1>3. IInv => Base
  BY DEF IInv
<1>4. AnswerInv => WrongAnswerNeedsTimeout
  BY DEF AnswerInv, NoTimeout, WrongAnswerNeedsTimeout
<1> QED
  BY <1>1, <1>2, <1>3, <1>4, PoolInvariant, PTL DEF Spec

------------------------------------------------------------------------------
(* Responses exist once.  A request is written once, when its call passes   *)
(* the labels of Unsent; its response is on one stream, in one place, until *)
(* one call returns it or it is lost.                                       *)
Unsent == {"idle", "admit", "acquire", "checkout", "connect", "write"}

OwedOnce ==
  \A k, j \in Clients : \A m \in DOMAIN owed[k], n \in DOMAIN owed[j] :
    owed[k][m] = owed[j][n] => k = j /\ m = n

OnceInv ==
  /\ OwedOnce
  /\ \A k \in Clients : \A m \in DOMAIN owed[k] :
       /\ pc[owed[k][m]] \notin Unsent
       /\ \A d \in Calls : answer[d] # owed[k][m]
  /\ \A d \in Calls : answer[d] # NoCall => pc[answer[d]] \notin Unsent
  /\ AnswersUnique

(* Streams lose what they owe, calls lose answers, and none becomes unsent. *)
LEMMA OnceLess ==
  ASSUME Types, OnceInv,
         \A k \in Clients : owed'[k] = owed[k] \/ owed'[k] = << >>,
         \A d \in Calls : answer'[d] = answer[d] \/ answer'[d] = NoCall,
         \A d \in Calls : pc'[d] \in Unsent => pc[d] \in Unsent
  PROVE  OnceInv'
<1>1. \A k \in Clients : \A m \in DOMAIN owed'[k] :
        owed'[k] = owed[k] /\ m \in DOMAIN owed[k] /\ owed[k][m] \in Calls
  <2> SUFFICES ASSUME NEW k \in Clients, NEW m \in DOMAIN owed'[k]
               PROVE  owed'[k] = owed[k] /\ m \in DOMAIN owed[k] /\ owed[k][m] \in Calls
    OBVIOUS
  <2>1. owed'[k] # << >>
    OBVIOUS
  <2>2. owed'[k] = owed[k] /\ owed[k] \in Seq(Calls)
    BY <2>1 DEF Types
  <2> QED
    BY <2>2
<1>2. \A d \in Calls : answer[d] \in Calls \cup {NoCall}
  BY DEF Types
<1>3. NoCall \notin Calls
  BY PoolAssumption
<1>4. OwedOnce'
  BY <1>1 DEF OnceInv, OwedOnce
<1>5. AnswersUnique'
  BY DEF OnceInv, AnswersUnique
<1>6. \A k \in Clients : \A m \in DOMAIN owed'[k] :
        /\ pc'[owed'[k][m]] \notin Unsent
        /\ \A d \in Calls : answer'[d] # owed'[k][m]
  BY <1>1, <1>3 DEF OnceInv
<1>7. \A d \in Calls : answer'[d] # NoCall => pc'[answer'[d]] \notin Unsent
  BY <1>2 DEF OnceInv
<1> QED
  BY <1>4, <1>5, <1>6, <1>7 DEF OnceInv

(* The request of a call that is about to write it is nowhere yet.          *)
LEMMA OnceWrite ==
  ASSUME Base, OnceInv, NEW c \in Calls, Write(c)
  PROVE  OnceInv'
<1> DEFINE k == client[c]
<1>1. /\ pc[c] = "write" /\ Goto(c, "read") /\ answer' = answer
      /\ owed' = IF conn[k] = "open" THEN [owed EXCEPT ![k] = Append(@, c)] ELSE owed
  BY DEF Write
<1>2. /\ pc \in [Calls -> Labels] /\ owed \in [Clients -> Seq(Calls)]
      /\ answer \in [Calls -> Calls \cup {NoCall}] /\ Types /\ k \in Clients
  BY <1>1 DEF Base, Types, Shape, Using, InCall
<1>3. /\ pc'[c] \notin Unsent /\ pc[c] \in Unsent
      /\ \A d \in Calls : pc'[d] \in Unsent => pc[d] \in Unsent
  BY <1>1, <1>2 DEF Goto, Unsent
<1>4. CASE conn[k] # "open"
  BY <1>1, <1>2, <1>3, <1>4, OnceLess
<1>5. CASE conn[k] = "open"
  <2> DEFINE s == owed[k]
  <2>1. /\ s \in Seq(Calls) /\ Len(s) \in Nat
        /\ owed'[k] = Append(s, c) /\ \A j \in Clients \ {k} : owed'[j] = owed[j]
    BY <1>1, <1>2, <1>5
  <2>2. /\ DOMAIN owed'[k] = DOMAIN s \cup {Len(s) + 1}
        /\ owed'[k][Len(s) + 1] = c
        /\ \A m \in DOMAIN s : owed'[k][m] = s[m] /\ m # Len(s) + 1
    <3> HIDE DEF s, k
    <3> QED
      BY <2>1
  \* The places: those there were, whose calls are others, and the new one.
  <2>3. \A j \in Clients : \A m \in DOMAIN owed[j] : owed[j][m] \in Calls \ {c}
    <3>1. \A j \in Clients : \A m \in DOMAIN owed[j] : owed[j][m] \in Calls
      BY <1>2
    <3> QED
      BY <1>3, <3>1 DEF OnceInv
  <2>4. ASSUME NEW j \in Clients, NEW m \in DOMAIN owed'[j]
        PROVE  \/ m \in DOMAIN owed[j] /\ owed'[j][m] = owed[j][m]
               \/ j = k /\ m = Len(s) + 1 /\ owed'[j][m] = c
    BY <2>1, <2>2, <2>4
  <2>5. OwedOnce'
    <3> SUFFICES ASSUME NEW i \in Clients, NEW j \in Clients,
                        NEW m \in DOMAIN owed'[i], NEW n \in DOMAIN owed'[j],
                        owed'[i][m] = owed'[j][n]
                 PROVE  i = j /\ m = n
      BY DEF OwedOnce
    <3> HIDE DEF s, k
    <3>1. \/ m \in DOMAIN owed[i] /\ owed'[i][m] = owed[i][m]
          \/ i = k /\ m = Len(s) + 1 /\ owed'[i][m] = c
      BY <2>4
    <3>2. \/ n \in DOMAIN owed[j] /\ owed'[j][n] = owed[j][n]
          \/ j = k /\ n = Len(s) + 1 /\ owed'[j][n] = c
      BY <2>4
    <3> QED
      BY <2>3, <3>1, <3>2 DEF OnceInv, OwedOnce
  <2>6. \A d \in Calls : answer[d] # c
    BY <1>2, <1>3, PoolAssumption DEF OnceInv
  <2>7. \A j \in Clients : \A m \in DOMAIN owed'[j] :
          /\ pc'[owed'[j][m]] \notin Unsent
          /\ \A d \in Calls : answer'[d] # owed'[j][m]
    BY <1>1, <1>3, <2>3, <2>4, <2>6 DEF OnceInv
  <2>8. \A d \in Calls : answer'[d] # NoCall => pc'[answer'[d]] \notin Unsent
    BY <1>1, <1>2, <1>3 DEF OnceInv
  <2>9. AnswersUnique'
    BY <1>1 DEF OnceInv, AnswersUnique
  <2> QED
    BY <2>5, <2>7, <2>8, <2>9 DEF OnceInv
<1> QED
  BY <1>4, <1>5

(* The response a call returns leaves its stream with the step.             *)
LEMMA OnceRead ==
  ASSUME Base, OnceInv, NEW c \in Calls, Read(c)
  PROVE  OnceInv'
<1> DEFINE k == client[c]
           s == owed[k]
<1>1. /\ pc[c] = "read" /\ s # << >> /\ Goto(c, "checkin")
      /\ answer' = [answer EXCEPT ![c] = Head(s)]
      /\ \/ \E n \in DOMAIN s : owed' = [owed EXCEPT ![k] = SubSeq(s, n + 1, Len(s))]
         \/ owed' = [owed EXCEPT ![k] = << >>]
  BY DEF Read, Finish, TearStream
<1>2. /\ pc \in [Calls -> Labels] /\ owed \in [Clients -> Seq(Calls)]
      /\ answer \in [Calls -> Calls \cup {NoCall}] /\ k \in Clients
      /\ s \in Seq(Calls) /\ Len(s) \in Nat /\ Types
  BY <1>1 DEF Base, Types, Shape, Using, InCall
<1>3. \A d \in Calls : pc'[d] \in Unsent => pc[d] \in Unsent
  BY <1>1, <1>2 DEF Goto, Unsent
<1>4. /\ Head(s) = s[1] /\ 1 \in DOMAIN s /\ Head(s) \in Calls
      /\ DOMAIN s = 1 .. Len(s)
  <2> HIDE DEF s, k
  <2> QED
    BY <1>1, <1>2
\* What is left has moved up by n.
<1>5. PICK n \in 1 .. Len(s) : owed' = [owed EXCEPT ![k] = SubSeq(s, n + 1, Len(s))]
  <2>1. SubSeq(s, Len(s) + 1, Len(s)) = << >> /\ Len(s) \in 1 .. Len(s)
    <3> HIDE DEF s, k
    <3> QED
      BY <1>1, <1>2
  <2> QED
    BY <1>1, <1>4, <2>1
<1>6. /\ \A j \in Clients \ {k} : owed'[j] = owed[j]
      /\ owed'[k] = SubSeq(s, n + 1, Len(s))
  BY <1>2, <1>5
<1>7. /\ DOMAIN owed'[k] = 1 .. Len(s) - n
      /\ \A m \in 1 .. Len(s) - n : owed'[k][m] = s[m + n] /\ m + n \in (1 .. Len(s)) \ {1}
  <2> HIDE DEF s, k
  <2> QED
    BY <1>2, <1>5, <1>6
<1> DEFINE at(j, m) == IF j = k THEN m + n ELSE m
<1>8. ASSUME NEW j \in Clients, NEW m \in DOMAIN owed'[j]
      PROVE  /\ at(j, m) \in DOMAIN owed[j] /\ owed'[j][m] = owed[j][at(j, m)]
             /\ owed'[j][m] \in Calls
             /\ j = k => at(j, m) # 1
  <2>1. CASE j = k
    <3>1. m \in 1 .. Len(s) - n /\ at(j, m) = m + n /\ owed'[j] = owed'[k] /\ owed[j] = s
      BY <1>7, <1>8, <2>1
    <3> HIDE DEF at, s, k
    <3>2. owed'[k][m] = s[m + n] /\ m + n \in (1 .. Len(s)) \ {1}
      BY <1>7, <3>1
    <3>3. s[m + n] \in Calls
      BY <1>2, <3>2
    <3> QED
      BY <1>4, <3>1, <3>2, <3>3
  <2>2. CASE j # k
    BY <1>2, <1>6, <1>8, <2>2
  <2> QED
    BY <2>1, <2>2
<1>9. OwedOnce'
  <2> SUFFICES ASSUME NEW i \in Clients, NEW j \in Clients,
                      NEW m \in DOMAIN owed'[i], NEW l \in DOMAIN owed'[j],
                      owed'[i][m] = owed'[j][l]
               PROVE  i = j /\ m = l
    BY DEF OwedOnce
  <2>1. i = j /\ at(i, m) = at(j, l)
    <3> HIDE DEF at, s, k
    <3>1. /\ at(i, m) \in DOMAIN owed[i] /\ owed'[i][m] = owed[i][at(i, m)]
          /\ at(j, l) \in DOMAIN owed[j] /\ owed'[j][l] = owed[j][at(j, l)]
      BY <1>8
    <3>2. ASSUME NEW a \in DOMAIN owed[i], NEW b \in DOMAIN owed[j], owed[i][a] = owed[j][b]
          PROVE  i = j /\ a = b
      BY <3>2 DEF OnceInv, OwedOnce
    <3>3. owed[i][at(i, m)] = owed[j][at(j, l)]
      BY <3>1
    <3> QED
      BY <3>1, <3>2, <3>3, Zenon
  <2>2. CASE i = k
    <3>1. m \in Nat /\ l \in Nat
      <4> HIDE DEF s, k
      <4> QED
        BY <1>2, <1>7, <2>1, <2>2
    <3> QED
      BY <2>1, <2>2, <3>1
  <2> QED
    BY <2>1, <2>2
\* The answer is nobody else's and no longer on a stream.
<1>10. \A d \in Calls : answer[d] # Head(s)
  BY <1>2, <1>4 DEF OnceInv
<1>11. \A j \in Clients : \A m \in DOMAIN owed'[j] : owed'[j][m] # Head(s)
  <2> SUFFICES ASSUME NEW j \in Clients, NEW m \in DOMAIN owed'[j], owed'[j][m] = Head(s)
               PROVE  FALSE
    OBVIOUS
  <2>1. /\ at(j, m) \in DOMAIN owed[j] /\ owed[j][at(j, m)] = owed[k][1]
        /\ j = k => at(j, m) # 1
    BY <1>4, <1>8
  <2> HIDE DEF at
  <2>2. j = k /\ at(j, m) = 1
    BY <1>2, <1>4, <2>1 DEF OnceInv, OwedOnce
  <2> QED
    BY <2>1, <2>2
<1>12. \A j \in Clients : \A m \in DOMAIN owed'[j] :
         /\ pc'[owed'[j][m]] \notin Unsent
         /\ \A d \in Calls : answer'[d] # owed'[j][m]
  <2> SUFFICES ASSUME NEW j \in Clients, NEW m \in DOMAIN owed'[j]
               PROVE  /\ pc'[owed'[j][m]] \notin Unsent
                      /\ \A d \in Calls : answer'[d] # owed'[j][m]
    OBVIOUS
  <2>1. /\ at(j, m) \in DOMAIN owed[j] /\ owed'[j][m] = owed[j][at(j, m)]
        /\ owed'[j][m] \in Calls
    BY <1>8
  <2> HIDE DEF at, s, k
  <2>2. pc[owed'[j][m]] \notin Unsent /\ \A d \in Calls : answer[d] # owed'[j][m]
    BY <2>1 DEF OnceInv
  <2> QED
    BY <1>1, <1>2, <1>3, <1>11, <2>1, <2>2
<1>13. \A d \in Calls : answer'[d] # NoCall => pc'[answer'[d]] \notin Unsent
  <2>1. pc[Head(s)] \notin Unsent
    BY <1>2, <1>4 DEF OnceInv
  <2> HIDE DEF s, k
  <2>2. \A d \in Calls : answer'[d] = IF d = c THEN Head(s) ELSE answer[d]
    BY <1>1, <1>2
  <2> QED
    BY <1>2, <1>3, <1>4, <2>1, <2>2 DEF OnceInv
<1>14. AnswersUnique'
  <2> HIDE DEF s, k
  <2>2. \A d \in Calls : answer'[d] = IF d = c THEN Head(s) ELSE answer[d]
    BY <1>1, <1>2
  <2> QED
    BY <1>10, <2>2 DEF OnceInv, AnswersUnique
<1> QED
  BY <1>9, <1>12, <1>13, <1>14 DEF OnceInv

LEMMA OnceStep == Base /\ OnceInv /\ [Next]_vars => OnceInv'
<1> SUFFICES ASSUME Base, OnceInv, [Next]_vars PROVE OnceInv'
  OBVIOUS
<1>0. /\ Types /\ pc \in [Calls -> Labels] /\ owed \in [Clients -> Seq(Calls)]
      /\ answer \in [Calls -> Calls \cup {NoCall}]
  BY DEF Base, Types
<1>1. ASSUME NEW c \in Calls, CallStep(c), ~Write(c), ~Read(c)
      PROVE  OnceInv'
  <2> DEFINE Fewer == \A k \in Clients : owed'[k] = owed[k] \/ owed'[k] = << >>
             Kept == \A d \in Calls : answer'[d] = answer[d] \/ answer'[d] = NoCall
             Sent == \A d \in Calls : pc'[d] \in Unsent => pc[d] \in Unsent
  <2>0. ASSUME NEW l, Goto(c, l), l \in Unsent => pc[c] \in Unsent
        PROVE  Sent
    BY <1>0, <2>0 DEF Goto
  <2>1. Sent
    <3> HIDE DEF Sent
    <3>1. CASE Begin(c) \/ Admit(c) \/ Acquire(c) \/ Exhausted(c)
      BY <2>0, <3>1 DEF Begin, Admit, Acquire, Exhausted, Return, Unsent
    <3>2. CASE Reuse(c) \/ Create(c) \/ Connect(c) \/ ConnectFails(c)
      BY <2>0, <3>2 DEF Reuse, Create, FirstStep, Connect, ConnectFails, Finish, Unsent
    <3>3. CASE ExchangeFails(c) \/ TimeOut(c) \/ CheckIn(c)
      BY <2>0, <3>3 DEF ExchangeFails, TimeOut, CheckIn, Finish, Unsent
    <3>4. CASE Release(c) \/ Record(c) \/ Abandon(c)
      BY <2>0, <3>4 DEF Release, Record, Abandon, Unsent
    <3> QED
      BY <1>1, <3>1, <3>2, <3>3, <3>4 DEF CallStep, Advance, Exchange
  <2>2. Kept
    BY <1>0, <1>1 DEF CallStep, Advance, Exchange, Begin, Admit, Acquire, Exhausted, Return,
          Reuse, Create, Connect, ConnectFails, Finish, ExchangeFails, TimeOut, CheckIn,
          Release, Record, Abandon
  <2>3. Fewer
    BY <1>0, <1>1 DEF CallStep, Advance, Exchange, Begin, Admit, Acquire, Exhausted, Return,
          Reuse, Create, Connect, ConnectFails, ExchangeFails, TimeOut, CheckIn,
          Release, Record, Abandon, CloseStream, TearStream, streamVars
  <2> QED
    BY <1>0, <2>1, <2>2, <2>3, OnceLess
<1>2. ASSUME NEW c \in Calls, Write(c)
      PROVE  OnceInv'
  BY <1>2, OnceWrite
<1>3. ASSUME NEW c \in Calls, Read(c)
      PROVE  OnceInv'
  BY <1>3, OnceRead
<1>4. CASE CloseClients
  <2>1. UNCHANGED <<pc, answer>> /\ \A k \in Clients : owed'[k] = owed[k] \/ owed'[k] = << >>
    BY <1>4 DEF CloseClients, callVars
  <2> QED
    BY <1>0, <2>1, OnceLess
<1>5. CASE CloseFlag \/ CloseSemaphore \/ Observe \/ Tick \/ UNCHANGED vars
  <2>1. UNCHANGED <<pc, answer, owed>>
    BY <1>5 DEF CloseFlag, CloseSemaphore, Observe, Tick, vars, callVars, streamVars
  <2> QED
    BY <2>1 DEF OnceInv, OwedOnce, AnswersUnique
<1> QED
  BY <1>1, <1>2, <1>3, <1>4, <1>5 DEF Next

(* Timeouts and torn streams may hand a call the response to another, but   *)
(* no response is ever handed out twice.                                    *)
THEOREM AnswersUniqueCorrect == Spec => []AnswersUnique
<1>1. Init => OnceInv
  BY DEF Init, OnceInv, OwedOnce, AnswersUnique
<1>2. Base /\ OnceInv /\ [Next]_vars => OnceInv'
  BY OnceStep
<1>3. IInv => Base
  BY DEF IInv
<1>4. OnceInv => AnswersUnique
  BY DEF OnceInv
<1> QED
  BY <1>1, <1>2, <1>3, <1>4, PoolInvariant, PTL DEF Spec

------------------------------------------------------------------------------
(* The counters of metrics() and the breaker's variables.                   *)
FlightLabels == {"acquire"} \cup Holding

Totals ==
  /\ active \in Int /\ total \in Int
  /\ succeeded \in Nat /\ failed \in Nat /\ timeouts \in Nat

Account ==
  /\ active = Count(FlightLabels) + Count({"dropped"})
  /\ total = active + Count({"record"}) + succeeded + failed
             + CountIn(outcome, {"exhausted"})
  /\ timeouts <= failed

\* No failure is known to the breaker that failed_requests does not count.
BreakerCount ==
  /\ Breaker!TypeOK
  /\ failures <= failed
  /\ BreakerNeedsFailures

MetricsInv == Decided /\ Totals /\ Account /\ BreakerCount

(* Nothing is counted initially.                                            *)
LEMMA MetricsInit == Init => MetricsInv
<1> SUFFICES ASSUME Init PROVE MetricsInv
  OBVIOUS
<1>1. Count(FlightLabels) = 0 /\ Count({"dropped"}) = 0 /\ Count({"record"}) = 0
  BY CountInit DEF FlightLabels, Holding, InCall
<1>2. CountIn(outcome, {"exhausted"}) = 0
  <2>1. {c \in Calls : outcome[c] \in {"exhausted"}} = {}
    BY DEF Init
  <2> QED
    BY <2>1, FS_EmptySet DEF CountIn
<1>3. MaxFailures \in Nat
  BY PoolAssumption, FS_CardinalityType DEF MaxFailures
<1>4. BreakerCount
  BY <1>3, PoolAssumption
  DEF Init, BreakerCount, BreakerNeedsFailures, Breaker!Init, Breaker!TypeOK,
      Breaker!States, Breaker!None
<1> QED
  BY <1>1, <1>2, <1>4 DEF Init, MetricsInv, Decided, Totals, Account

(* The breaker's methods and the clock keep its types and never open it     *)
(* with fewer failures than the threshold.                                  *)
LEMMA BreakerSteps ==
  ASSUME BreakerCount, failed \in Nat
  PROVE  /\ Breaker!Poll /\ failed' = failed => BreakerCount'
         /\ Breaker!Tick /\ failed' = failed => BreakerCount'
         /\ Breaker!RecordSuccess /\ failed' = failed => BreakerCount'
         /\ Breaker!RecordFailure /\ failed' = failed + 1 => BreakerCount'
         /\ UNCHANGED <<breakerVars, failed>> => BreakerCount'
<1> USE DEF BreakerCount, BreakerNeedsFailures, Breaker!TypeOK, Breaker!States,
            Breaker!Ages, Breaker!None
<1>1. MaxFailures \in Nat /\ Timeout \in Nat /\ Threshold \in Nat
  BY PoolAssumption, FS_CardinalityType DEF MaxFailures
<1>2. Breaker!Poll /\ failed' = failed => BreakerCount'
  BY <1>1 DEF Breaker!Poll, Breaker!Observed
<1>3. Breaker!Tick /\ failed' = failed => BreakerCount'
  BY <1>1 DEF Breaker!Tick, Breaker!Older
<1>4. Breaker!RecordSuccess /\ failed' = failed => BreakerCount'
  BY <1>1 DEF Breaker!RecordSuccess
<1>5. Breaker!RecordFailure /\ failed' = failed + 1 => BreakerCount'
  BY <1>1 DEF Breaker!RecordFailure
<1>6. UNCHANGED <<breakerVars, failed>> => BreakerCount'
  BY DEF breakerVars
<1> QED
  BY <1>2, <1>3, <1>4, <1>5, <1>6

(* A call touches the breaker when it is admitted and when it records.      *)
LEMMA BreakerCall ==
  ASSUME MetricsInv, NEW c \in Calls, CallStep(c)
  PROVE  BreakerCount'
<1>1. BreakerCount /\ failed \in Nat
  BY DEF MetricsInv, Totals
<1>2. CASE Admit(c)
  BY <1>1, <1>2, BreakerSteps DEF Admit
<1>3. CASE Record(c)
  BY <1>1, <1>3, BreakerSteps DEF Record
<1>4. CASE ~Admit(c) /\ ~Record(c)
  <2>1. UNCHANGED <<breakerVars, failed>>
    BY <1>4
    DEF CallStep, Advance, Exchange, Begin, Acquire, Exhausted, Reuse, Create, Connect,
        ConnectFails, Write, Read, ExchangeFails, TimeOut, CheckIn, Release, Abandon,
        Return, Finish, metricVars
  <2> QED
    BY <1>1, <2>1, BreakerSteps
<1> QED
  BY <1>2, <1>3, <1>4

(* Each counter moves with the labels it counts.                            *)
LEMMA AccountCall ==
  ASSUME Base, MetricsInv, NEW c \in Calls, CallStep(c)
  PROVE  Totals' /\ Account'
<1>1. /\ pc \in [Calls -> Labels] /\ outcome \in [Calls -> Outcomes]
      /\ Totals /\ Account
  BY DEF Base, Types, MetricsInv
<1> DEFINE flight == Count(FlightLabels)
           dropped == Count({"dropped"})
           recording == Count({"record"})
           refused == CountIn(outcome, {"exhausted"})
<1>2. flight \in Nat /\ dropped \in Nat /\ recording \in Nat
  BY CountMonotonic
<1>3. ASSUME NEW l, Goto(c, l)
      PROVE  /\ flight' = flight + One(l, FlightLabels) - One(pc[c], FlightLabels)
             /\ dropped' = dropped + One(l, {"dropped"}) - One(pc[c], {"dropped"})
             /\ recording' = recording + One(l, {"record"}) - One(pc[c], {"record"})
  BY <1>1, <1>3, CountGoto
<1>4. refused \in Nat
  <2>1. IsFiniteSet({d \in Calls : outcome[d] \in {"exhausted"}})
    BY PoolAssumption, FS_Subset
  <2> QED
    BY <2>1, FS_CardinalityType DEF CountIn
<1>5. ASSUME NEW o, outcome' = [outcome EXCEPT ![c] = o],
             pc[c] \notin {"checkin", "release", "record"} \cup Ended
      PROVE  /\ o = "exhausted" => refused' = refused + 1
             /\ o # "exhausted" => refused' = refused
  <2>1. outcome[c] = "none"
    BY <1>5 DEF MetricsInv, Decided
  <2>2. refused' = CountIn(outcome', {"exhausted"})
    BY DEF CountIn
  <2>3. CountIn([outcome EXCEPT ![c] = o], {"exhausted"})
          = refused + One(o, {"exhausted"}) - One(outcome[c], {"exhausted"})
    BY <1>1, CountExcept
  <2>4. One(outcome[c], {"exhausted"}) = 0
        /\ One(o, {"exhausted"}) = IF o = "exhausted" THEN 1 ELSE 0
    BY <2>1 DEF One
  <2> QED
    BY <1>4, <1>5, <2>2, <2>3, <2>4
<1>6. ASSUME outcome' = outcome
      PROVE  refused' = refused
  BY <1>6 DEF CountIn
<1>7. /\ active = flight + dropped
      /\ total = active + recording + succeeded + failed + refused
      /\ timeouts <= failed
  BY <1>1 DEF Account
<1> HIDE DEF flight, dropped, recording, refused
\* Within the flight, or outside every count.
<1>8. ASSUME NEW l, Goto(c, l), UNCHANGED metricVars, refused' = refused,
             l \in FlightLabels <=> pc[c] \in FlightLabels,
             l \notin {"record", "dropped"}, pc[c] \notin {"record", "dropped"}
      PROVE  Totals' /\ Account'
  <2>1. flight' = flight /\ dropped' = dropped /\ recording' = recording
    BY <1>2, <1>3, <1>8 DEF One
  <2> QED
    BY <1>1, <1>7, <1>8, <2>1
    DEF metricVars, Totals, Account, flight, dropped, recording, refused
<1> USE DEF FlightLabels, Holding, InCall, Ended
<1>10. CASE Begin(c)
  <2>1. UNCHANGED metricVars /\ pc[c] = "idle"
        /\ \/ Goto(c, "done") /\ outcome' = [outcome EXCEPT ![c] = "shutdown"]
           \/ Goto(c, "admit") /\ outcome' = outcome
    BY <1>10 DEF Begin, Return
  <2>2. refused' = refused
    BY <1>5, <1>6, <2>1
  <2> QED
    BY <1>8, <2>1, <2>2
<1>11. CASE Admit(c)
  <2>1. pc[c] = "admit" /\ UNCHANGED <<succeeded, failed, timeouts>>
    BY <1>11 DEF Admit
  <2>2. CASE Goto(c, "done") /\ outcome' = [outcome EXCEPT ![c] = "rejected"]
             /\ UNCHANGED <<total, active>>
    <3>1. PICK o \in {"rejected"} : outcome' = [outcome EXCEPT ![c] = o]
      BY <2>2
    <3>2. pc[c] \notin {"checkin", "release", "record"} \cup Ended
      BY <2>1
    <3>3. refused' = refused
      BY <1>5, <3>1, <3>2
    <3> QED
      BY <1>8, <2>1, <2>2, <3>3 DEF metricVars
  <2>3. CASE Goto(c, "acquire") /\ outcome' = outcome /\ total' = total + 1
             /\ active' = active + 1
    <3>1. refused' = refused /\ flight' = flight + 1 /\ dropped' = dropped
          /\ recording' = recording
      BY <1>2, <1>3, <1>6, <2>1, <2>3 DEF One
    <3> QED
      BY <1>1, <1>2, <1>4, <1>7, <2>1, <2>3, <3>1
      DEF Totals, Account, flight, dropped, recording, refused
  <2> QED
    BY <1>11, <2>2, <2>3 DEF Admit, Return
<1>12. CASE Acquire(c)
  BY <1>6, <1>8, <1>12 DEF Acquire
<1>13. CASE Exhausted(c)
  <2>1. /\ pc[c] = "acquire" /\ Goto(c, "done") /\ active' = active - 1
        /\ outcome' = [outcome EXCEPT ![c] = "exhausted"]
        /\ UNCHANGED <<total, succeeded, failed, timeouts>>
    BY <1>13 DEF Exhausted, Return
  <2>2. refused' = refused + 1 /\ flight' = flight - 1 /\ dropped' = dropped
        /\ recording' = recording
    <3>1. refused' = refused + 1
      BY <1>5, <2>1
    <3> QED
      BY <1>2, <1>3, <2>1, <3>1 DEF One
  <2> QED
    BY <1>1, <1>2, <1>4, <1>7, <2>1, <2>2
    DEF Totals, Account, flight, dropped, recording, refused
<1>14. CASE Reuse(c)
  BY <1>6, <1>8, <1>14 DEF Reuse, FirstStep
<1>15. CASE Create(c)
  BY <1>6, <1>8, <1>15 DEF Create, FirstStep
<1>16. CASE Connect(c)
  BY <1>6, <1>8, <1>16 DEF Connect
<1>17. CASE Write(c)
  BY <1>6, <1>8, <1>17 DEF Write
\* client.call has come to an end.
<1>18. CASE ConnectFails(c) \/ Read(c) \/ ExchangeFails(c) \/ TimeOut(c)
  <2>1. PICK o \in {"error", "ok", "timeout"} :
          /\ Goto(c, "checkin") /\ UNCHANGED metricVars /\ pc[c] \in InCall
          /\ outcome' = [outcome EXCEPT ![c] = o]
    BY <1>18 DEF ConnectFails, Read, ExchangeFails, TimeOut, Finish
  <2>2. refused' = refused
    BY <1>5, <2>1
  <2> QED
    BY <1>8, <2>1, <2>2
<1>19. CASE CheckIn(c)
  BY <1>6, <1>8, <1>19 DEF CheckIn
<1>20. CASE Release(c)
  <2>1. /\ pc[c] = "release" /\ Goto(c, "record") /\ active' = active - 1
        /\ outcome' = outcome /\ UNCHANGED <<total, succeeded, failed, timeouts>>
    BY <1>20 DEF Release
  <2>2. refused' = refused /\ flight' = flight - 1 /\ dropped' = dropped
        /\ recording' = recording + 1
    BY <1>2, <1>3, <1>6, <2>1 DEF One
  <2> QED
    BY <1>1, <1>2, <1>4, <1>7, <2>1, <2>2
    DEF Totals, Account, flight, dropped, recording, refused
<1>21. CASE Record(c)
  <2>1. pc[c] = "record" /\ Goto(c, "done") /\ outcome' = outcome /\ UNCHANGED <<total, active>>
    BY <1>21 DEF Record
  <2>2. refused' = refused /\ flight' = flight /\ dropped' = dropped
        /\ recording' = recording - 1
    BY <1>2, <1>3, <1>6, <2>1 DEF One
  <2>3. CASE succeeded' = succeeded + 1 /\ UNCHANGED <<failed, timeouts>>
    BY <1>1, <1>2, <1>4, <1>7, <2>1, <2>2, <2>3
    DEF Totals, Account, flight, dropped, recording, refused
  <2>4. CASE /\ failed' = failed + 1 /\ succeeded' = succeeded
             /\ timeouts' = timeouts + (IF outcome[c] = "timeout" THEN 1 ELSE 0)
    <3>1. timeouts' \in Nat /\ timeouts' <= timeouts + 1
      BY <1>1, <2>4 DEF Totals
    <3> QED
      BY <1>1, <1>2, <1>4, <1>7, <2>1, <2>2, <2>4, <3>1
      DEF Totals, Account, flight, dropped, recording, refused
  <2> QED
    BY <1>21, <2>3, <2>4 DEF Record
<1>22. CASE Abandon(c)
  <2>1. /\ pc[c] \in FlightLabels /\ pc[c] \notin {"dropped", "record"} /\ Goto(c, "dropped")
        /\ outcome' = outcome /\ UNCHANGED metricVars
    BY <1>22 DEF Abandon
  <2>2. refused' = refused /\ flight' = flight - 1 /\ dropped' = dropped + 1
        /\ recording' = recording
    BY <1>2, <1>3, <1>6, <2>1 DEF One
  <2> QED
    BY <1>1, <1>2, <1>4, <1>7, <2>1, <2>2
    DEF metricVars, Totals, Account, flight, dropped, recording, refused
<1> QED
  BY <1>10, <1>11, <1>12, <1>13, <1>14, <1>15, <1>16, <1>17, <1>18, <1>19, <1>20,
     <1>21, <1>22 DEF CallStep, Advance, Exchange

(* Outside the calls only the clock and observers touch the breaker.        *)
LEMMA MetricsStep == Base /\ MetricsInv /\ [Next]_vars => MetricsInv'
<1> SUFFICES ASSUME Base, MetricsInv, [Next]_vars PROVE MetricsInv'
  OBVIOUS
<1>1. CASE \E c \in Calls : CallStep(c)
  <2>1. PICK c \in Calls : CallStep(c)
    BY <1>1
  <2>2. Decided'
    BY <2>1, DecidedCall DEF MetricsInv
  <2> QED
    BY <2>1, <2>2, BreakerCall, AccountCall DEF MetricsInv
<1>2. CASE ~\E c \in Calls : CallStep(c)
  <2>1. UNCHANGED <<pc, outcome, metricVars>>
    BY <1>2 DEF Next, CloseFlag, CloseSemaphore, CloseClients, Observe, Tick, vars, callVars
  <2>2. Decided' /\ Totals' /\ Account'
    BY <2>1 DEF MetricsInv, Decided, Totals, Account, Count, CountIn, metricVars
  <2>3. failed' = failed /\ failed \in Nat /\ BreakerCount
    BY <2>1 DEF metricVars, MetricsInv, Totals
  <2>4. Breaker!Poll \/ Breaker!Tick \/ UNCHANGED breakerVars
    BY <1>2 DEF Next, CloseFlag, CloseSemaphore, CloseClients, Observe, Tick, vars
  <2>5. BreakerCount'
    BY <2>3, <2>4, BreakerSteps
  <2> QED
    BY <2>2, <2>5 DEF MetricsInv
<1> QED
  BY <1>1, <1>2

(* The counters agree with the calls in every reachable state.              *)
LEMMA MetricsInvariant == Spec => []MetricsInv
<1>1. IInv => Base
  BY DEF IInv
<1> QED
  BY <1>1, MetricsInit, MetricsStep, PoolInvariant, PTL DEF Spec

(* metrics(): whatever was admitted is in exactly one count, for any number *)
(* of calls; only a dropped call stays in active_requests.                  *)
THEOREM MetricsAccountCorrect == Spec => []MetricsAccount
<1>1. MetricsInv => MetricsAccount
  <2> SUFFICES ASSUME MetricsInv PROVE MetricsAccount
    OBVIOUS
  <2>1. /\ Count(FlightLabels) = Cardinality(InFlight)
        /\ Count({"dropped"}) = Cardinality(Dropped)
        /\ Count({"record"}) = Cardinality(Recording)
        /\ CountIn(outcome, {"exhausted"}) = Cardinality(Refused)
    <3>1. InFlight = {c \in Calls : pc[c] \in FlightLabels}
      BY DEF InFlight, FlightLabels
    <3>2. Dropped = {c \in Calls : pc[c] \in {"dropped"}}
      BY DEF Dropped
    <3>3. Recording = {c \in Calls : pc[c] \in {"record"}}
      BY DEF Recording
    <3>4. Refused = {c \in Calls : outcome[c] \in {"exhausted"}}
      BY DEF Refused
    <3> QED
      BY <3>1, <3>2, <3>3, <3>4 DEF Count, CountIn
  <2> QED
    BY <2>1 DEF MetricsInv, Account, MetricsAccount
<1> QED
  BY <1>1, MetricsInvariant, PTL

(* The breaker leaves Closed only after `threshold` failed calls.           *)
THEOREM BreakerNeedsFailuresCorrect == Spec => []BreakerNeedsFailures
<1>1. MetricsInv => BreakerNeedsFailures
  BY DEF MetricsInv, BreakerCount
<1> QED
  BY <1>1, MetricsInvariant, PTL

(* Type correctness; the permits never exceed max_concurrent and no counter *)
(* becomes negative because they are the counts of calls.                   *)
THEOREM TypeCorrect == Spec => []TypeOK
<1>1. IInv /\ MetricsInv => TypeOK
  <2> SUFFICES ASSUME IInv, MetricsInv PROVE TypeOK
    OBVIOUS
  <2>1. Types /\ PermitCount /\ Totals /\ Account /\ Breaker!TypeOK
    BY DEF IInv, Base, MetricsInv, BreakerCount
  <2>2. /\ Count(Holding) \in Nat /\ Count(FlightLabels) \in Nat
        /\ Count({"dropped"}) \in Nat /\ Count({"record"}) \in Nat
    BY CountMonotonic
  <2>3. CountIn(outcome, {"exhausted"}) \in Nat
    <3>1. IsFiniteSet({d \in Calls : outcome[d] \in {"exhausted"}})
      BY PoolAssumption, FS_Subset
    <3> QED
      BY <3>1, FS_CardinalityType DEF CountIn
  <2>4. permits \in 0 .. MaxConcurrent
    BY <2>1, <2>2, PoolAssumption DEF Types, PermitCount
  <2>5. active \in Nat /\ total \in Nat
    BY <2>1, <2>2, <2>3 DEF Totals, Account
  <2> QED
    BY <2>1, <2>4, <2>5 DEF TypeOK, Types, Totals
<1> QED
  BY <1>1, PoolInvariant, MetricsInvariant, PTL

==============================================================================
