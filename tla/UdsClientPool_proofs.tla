------------------------- MODULE UdsClientPool_proofs -------------------------
(****************************************************************************)
(* Theorems about UdsClientPool, for any number of calls, any limits and any*)
(* width of the counter that holds max_pool_size and a call each.           *)
(*                                                                          *)
(* The permits bound the clients: a call that finds the pool empty may make *)
(* a client, at once or after its sleeps, and from then on counts as one.   *)
(*   permits + calls that hold a permit              = max_concurrent       *)
(*   |idle|  + calls that have or may make a client <= max_concurrent       *)
(****************************************************************************)
EXTENDS UdsClientPool, FiniteSetTheorems, SequenceTheorems, TLAPS

\* Labels of a call that has a client, and of one that has or may make one.
Lent == {"exchange", "return"}
Using == {"add", "sub", "sleep"} \cup Lent

\* Before the call's client.call has returned.
Early == {"idle", "acquire", "pop", "add", "sub", "retry", "sleep", "exchange"}

\* How many calls are at a label of L, and what one call at l adds to it.
Count(L) == Cardinality({c \in Calls : pc[c] \in L})
One(l, L) == IF l \in L THEN 1 ELSE 0

Types ==
  /\ mode \in [Calls -> {"call", "batch"}]
  /\ pc \in [Calls -> Labels]
  /\ client \in [Calls -> Clients \cup {NoClient}]
  /\ outcome \in [Calls -> Outcomes]
  /\ retries \in [Calls -> 0 .. Retries]
  /\ permits \in Nat
  /\ idle \in Seq(Clients)
  /\ created \in 0 .. Modulus - 1
  /\ closing \in {"no", "clearing", "closed"}

\* What a call knows at its label.
Shape ==
  \A c \in Calls :
    /\ client[c] # NoClient <=> pc[c] \in Lent
    /\ pc[c] \in {"retry", "sleep"} => retries[c] \in 1 .. Retries
    /\ pc[c] \in Early => outcome[c] = "none"

Base == Types /\ Shape /\ ClientExclusive

PermitCount == permits + Count(Holding) = MaxConcurrent
ClientCount == Len(idle) + Count(Using) <= MaxConcurrent

------------------------------------------------------------------------------
(* A call that moves to label l is counted where l is and no longer where   *)
(* it was.                                                                  *)
LEMMA CountGoto ==
  ASSUME NEW c \in Calls, NEW l, NEW L, pc \in [Calls -> Labels], Goto(c, l)
  PROVE  /\ Count(L) \in Nat
         /\ Count(L)' \in Nat
         /\ Count(L)' = Count(L) + One(l, L) - One(pc[c], L)
<1> DEFINE S == {d \in Calls : pc[d] \in L}
           T == {d \in Calls : pc'[d] \in L}
<1>0. pc' = [pc EXCEPT ![c] = l]
  BY DEF Goto
<1>1. IsFiniteSet(S) /\ Cardinality(S) \in Nat
  BY ClientPoolAssumption, FS_Subset, FS_CardinalityType
<1>2. Cardinality(T) = Cardinality(S) + One(l, L) - One(pc[c], L)
  <2>1. CASE l \in L
    <3>1. T = S \cup {c}
      BY <1>0, <2>1
    <3>2. c \in S <=> pc[c] \in L
      OBVIOUS
    <3> HIDE DEF S, T
    <3>3. Cardinality(S \cup {c})
            = IF c \in S THEN Cardinality(S) ELSE Cardinality(S) + 1
      BY <1>1, FS_AddElement
    <3> QED
      BY <1>1, <2>1, <3>1, <3>2, <3>3 DEF One
  <2>2. CASE l \notin L
    <3>1. T = S \ {c}
      BY <1>0, <2>2
    <3>2. c \in S <=> pc[c] \in L
      OBVIOUS
    <3> HIDE DEF S, T
    <3>3. Cardinality(S \ {c})
            = IF c \in S THEN Cardinality(S) - 1 ELSE Cardinality(S)
      BY <1>1, FS_RemoveElement
    <3> QED
      BY <1>1, <2>2, <3>1, <3>2, <3>3 DEF One
  <2> QED
    BY <2>1, <2>2
<1>3. IsFiniteSet(T) /\ Cardinality(T) \in Nat
  BY ClientPoolAssumption, FS_Subset, FS_CardinalityType
<1>4. Count(L) = Cardinality(S) /\ Count(L)' = Cardinality(T)
  BY DEF Count
<1> QED
  BY <1>1, <1>2, <1>3, <1>4

(* Counts are natural numbers and grow with the set of labels.              *)
LEMMA CountMonotonic ==
  ASSUME NEW L, NEW M, L \subseteq M
  PROVE  Count(L) \in Nat /\ Count(M) \in Nat /\ Count(L) <= Count(M)
<1> DEFINE S == {d \in Calls : pc[d] \in L}
           T == {d \in Calls : pc[d] \in M}
<1>1. IsFiniteSet(T)
  BY ClientPoolAssumption, FS_Subset
<1>2. S \in SUBSET T
  OBVIOUS
<1> HIDE DEF S, T
<1>3. IsFiniteSet(S) /\ Cardinality(S) <= Cardinality(T)
  BY <1>1, <1>2, FS_Subset
<1>4. Cardinality(S) \in Nat /\ Cardinality(T) \in Nat
  BY <1>1, <1>3, FS_CardinalityType
<1> QED
  BY <1>3, <1>4 DEF Count, S, T

(* The same of the state after a step.                                      *)
LEMMA CountMonotonicNext ==
  ASSUME NEW L, NEW M, L \subseteq M
  PROVE  Count(L)' \in Nat /\ Count(M)' \in Nat /\ Count(L)' <= Count(M)'
<1> DEFINE S == {d \in Calls : pc'[d] \in L}
           T == {d \in Calls : pc'[d] \in M}
<1>1. IsFiniteSet(T)
  BY ClientPoolAssumption, FS_Subset
<1>2. S \in SUBSET T
  OBVIOUS
<1> HIDE DEF S, T
<1>3. IsFiniteSet(S) /\ Cardinality(S) <= Cardinality(T)
  BY <1>1, <1>2, FS_Subset
<1>4. Cardinality(S) \in Nat /\ Cardinality(T) \in Nat
  BY <1>1, <1>3, FS_CardinalityType
<1> QED
  BY <1>3, <1>4 DEF Count, S, T

(* In the initial state nothing but "idle" is counted.                      *)
LEMMA CountInit ==
  ASSUME NEW L, "idle" \notin L, Init
  PROVE  Count(L) = 0
<1>1. {c \in Calls : pc[c] \in L} = {}
  BY DEF Init
<1> QED
  BY <1>1, FS_EmptySet DEF Count

(* pop() of the Vec of idle clients.                                        *)
LEMMA PopIdle ==
  ASSUME NEW S, NEW s \in Seq(S), s # << >>
  PROVE  LET r == SubSeq(s, 1, Len(s) - 1) IN
         /\ r \in Seq(S)
         /\ Len(s) \in Nat \ {0}
         /\ Len(r) = Len(s) - 1
         /\ DOMAIN s = 1 .. Len(s) /\ DOMAIN r = 1 .. Len(s) - 1
         /\ \A i \in 1 .. Len(s) - 1 : r[i] = s[i]
         /\ s[Len(s)] \in S
<1> DEFINE r == SubSeq(s, 1, Len(s) - 1)
<1>1. Len(s) \in Nat \ {0} /\ DOMAIN s = 1 .. Len(s)
  BY LenProperties, EmptySeq
<1>2. s[Len(s)] \in S
  BY <1>1, ElementOfSeq
<1>3. r \in Seq(S) /\ Len(r) = Len(s) - 1
  BY <1>1, SubSeqProperties
<1>4. \A i \in 1 .. Len(s) - 1 : r[i] = s[i]
  BY <1>1, SubSeqProperties
<1>5. DOMAIN r = 1 .. Len(s) - 1
  BY <1>3, LenProperties
<1> QED
  BY <1>1, <1>2, <1>3, <1>4, <1>5

(* push() of the Vec of idle clients.                                       *)
LEMMA PushIdle ==
  ASSUME NEW S, NEW s \in Seq(S), NEW e \in S
  PROVE  LET r == Append(s, e) IN
         /\ r \in Seq(S)
         /\ Len(s) \in Nat
         /\ Len(r) = Len(s) + 1
         /\ DOMAIN s = 1 .. Len(s) /\ DOMAIN r = 1 .. Len(s) + 1
         /\ \A i \in 1 .. Len(s) : r[i] = s[i]
         /\ r[Len(s) + 1] = e
  OBVIOUS

------------------------------------------------------------------------------
(* The counter has at least one value.                                      *)
LEMMA ModulusPositive == Modulus \in Nat \ {0}
<1>1. Cardinality(Calls) \in Nat /\ MaxPoolSize \in Nat /\ Modulus \in Nat
      /\ MaxPoolSize + Cardinality(Calls) < Modulus
  BY ClientPoolAssumption, FS_CardinalityType
<1> QED
  BY <1>1

(* Arithmetic modulo the width of the counter stays within it, and is plain *)
(* arithmetic as long as it stays within it.                                *)
LEMMA Wraps ==
  /\ \A n \in Int : n % Modulus \in 0 .. Modulus - 1
  /\ \A n \in 0 .. Modulus - 1 : n % Modulus = n
BY ModulusPositive

(* Types, what calls know, and exclusive use of clients.                    *)
LEMMA BaseInit == Init => Base
<1> SUFFICES ASSUME Init PROVE Base
  OBVIOUS
<1>1. Types
  BY ClientPoolAssumption, ModulusPositive
  DEF Init, Types, Labels, Outcomes, Holding, Retries
<1>2. Shape
  BY DEF Init, Shape, Lent, Early
<1>3. ClientExclusive
  BY DEF Init, ClientExclusive, IdleClients, Held
<1> QED
  BY <1>1, <1>2, <1>3 DEF Base

(* pop() of an idle client: a client and what is left of the pool.          *)
LEMMA PopTypes ==
  ASSUME Types, NEW c \in Calls, PopClient(c)
  PROVE  /\ client' \in [Calls -> Clients \cup {NoClient}] /\ client'[c] \in Clients
         /\ \A d \in Calls \ {c} : client'[d] = client[d]
         /\ idle' \in Seq(Clients)
BY PopIdle DEF Types, PopClient

(* A new client is a client.                                                *)
LEMMA NewTypes ==
  ASSUME Types, NEW c \in Calls, NewClient(c)
  PROVE  /\ client' \in [Calls -> Clients \cup {NoClient}] /\ client'[c] \in Clients
         /\ \A d \in Calls \ {c} : client'[d] = client[d]
BY DEF Types, NewClient

(* Every step of a call keeps the types and what calls know.                *)
LEMMA TypesCall ==
  ASSUME Types, Shape, NEW c \in Calls, CallStep(c)
  PROVE  Types' /\ Shape'
<1>0. /\ (created + 1) % Modulus \in 0 .. Modulus - 1
      /\ (created - 1) % Modulus \in 0 .. Modulus - 1
  <2>1. created + 1 \in Int /\ created - 1 \in Int
    BY ModulusPositive DEF Types
  <2> QED
    BY <2>1, Wraps
<1> USE DEF Types, Shape, Labels, Outcomes, Holding, Lent, Early, Goto, Retries
<1>1. CASE Begin(c)
  BY <1>1 DEF Begin
<1>2. CASE Acquire(c)
  BY <1>2 DEF Acquire
<1>3. CASE Pop(c)
  <2>1. CASE PopClient(c) /\ pc' = [pc EXCEPT ![c] = "exchange"]
    BY <1>3, <2>1, PopTypes, ClientPoolAssumption DEF Pop
  <2>2. CASE pc' = [pc EXCEPT ![c] = "add"] /\ UNCHANGED <<client, idle>>
    BY <1>3, <2>2 DEF Pop
  <2> QED
    BY <1>3, <2>1, <2>2 DEF Pop
<1>4. CASE Add(c)
  <2>1. CASE NewClient(c) /\ pc' = [pc EXCEPT ![c] = "exchange"]
    BY <1>0, <1>4, <2>1, NewTypes, ClientPoolAssumption DEF Add
  <2>2. CASE pc' = [pc EXCEPT ![c] = "sub"] /\ UNCHANGED client
    BY <1>0, <1>4, <2>2 DEF Add
  <2> QED
    BY <1>4, <2>1, <2>2 DEF Add
<1>5. CASE Sub(c)
  <2>1. CASE NewClient(c) /\ pc' = [pc EXCEPT ![c] = "exchange"] /\ UNCHANGED retries
    BY <1>0, <1>5, <2>1, NewTypes, ClientPoolAssumption DEF Sub
  <2>2. CASE /\ pc' = [pc EXCEPT ![c] = "retry"] /\ UNCHANGED client
             /\ retries' = [retries EXCEPT ![c] = 3]
    BY <1>0, <1>5, <2>2 DEF Sub
  <2> QED
    BY <1>5, <2>1, <2>2 DEF Sub
<1>6. CASE Retry(c)
  <2>1. CASE PopClient(c) /\ pc' = [pc EXCEPT ![c] = "exchange"]
    BY <1>6, <2>1, PopTypes, ClientPoolAssumption DEF Retry
  <2>2. CASE pc' = [pc EXCEPT ![c] = "sleep"] /\ UNCHANGED <<client, idle>>
    BY <1>6, <2>2 DEF Retry
  <2> QED
    BY <1>6, <2>1, <2>2 DEF Retry
<1>7. CASE Wake(c)
  <2>1. pc[c] = "sleep" /\ retries[c] \in 1 .. 3
    BY <1>7 DEF Wake
  <2>2. CASE NewClient(c) /\ pc' = [pc EXCEPT ![c] = "exchange"]
    BY <1>7, <2>1, <2>2, NewTypes, ClientPoolAssumption DEF Wake
  <2>3. CASE /\ pc' = [pc EXCEPT ![c] = "retry"] /\ UNCHANGED client
             /\ retries[c] > 1
    BY <1>7, <2>1, <2>3 DEF Wake
  <2> QED
    BY <1>7, <2>2, <2>3 DEF Wake
<1>8. CASE Exchange(c)
  BY <1>8 DEF Exchange
<1>9. CASE Return(c)
  <2>1. pc[c] = "return" /\ client[c] \in Clients
    BY <1>9 DEF Return
  <2>2. idle' \in Seq(Clients)
    BY <1>9, <2>1, PushIdle DEF Return
  <2> QED
    BY <1>9, <2>1, <2>2 DEF Return
<1>10. CASE Release(c)
  BY <1>10 DEF Release
<1>11. CASE Abandon(c)
  BY <1>11 DEF Abandon
<1> QED
  BY <1>1, <1>2, <1>3, <1>4, <1>5, <1>6, <1>7, <1>8, <1>9, <1>10, <1>11 DEF CallStep

(* It is enough that clients disappear from calls and from the pool.        *)
LEMMA ExclusiveLess ==
  ASSUME ClientExclusive, Types, NEW c \in Calls,
         client' \in {client, [client EXCEPT ![c] = NoClient]},
         idle' \in {idle, << >>}
  PROVE  ClientExclusive'
<1>1. \A d, e \in Calls : client'[d] = client'[e] /\ d # e => client'[d] = NoClient
  BY DEF ClientExclusive, Types
<1>2. Held' \subseteq Held
  BY DEF Types, Held
<1>3. CASE idle' = idle
  BY <1>1, <1>2, <1>3 DEF ClientExclusive, IdleClients
<1>4. CASE idle' = << >>
  <2>1. DOMAIN idle' = {} /\ IdleClients' = {}
    BY <1>4 DEF IdleClients
  <2> QED
    BY <1>1, <2>1 DEF ClientExclusive
<1> QED
  BY <1>3, <1>4

(* A popped client left the pool for the one call that has it.              *)
LEMMA ExclusivePop ==
  ASSUME ClientExclusive, Types, NEW c \in Calls, PopClient(c)
  PROVE  ClientExclusive'
<1> DEFINE n == Len(idle)
           k == idle[n]
<1>1. /\ n \in Nat \ {0} /\ DOMAIN idle = 1 .. n
      /\ DOMAIN idle' = 1 .. n - 1
      /\ \A i \in 1 .. n - 1 : idle'[i] = idle[i]
      /\ k \in Clients
  BY PopIdle DEF PopClient, Types
<1>2. client' = [client EXCEPT ![c] = k] /\ client \in [Calls -> Clients \cup {NoClient}]
  BY DEF PopClient, Types
<1> HIDE DEF n
<1>3. k \in IdleClients /\ k # NoClient
  BY <1>1, ClientPoolAssumption DEF IdleClients
<1>4. \A d \in Calls : client[d] # k
  BY <1>3 DEF ClientExclusive, Held
<1>5. IdleClients' \subseteq IdleClients \ {k}
  BY <1>1 DEF ClientExclusive, IdleClients
<1>6. \A d, e \in Calls : client'[d] = client'[e] /\ d # e => client'[d] = NoClient
  BY <1>2, <1>4 DEF ClientExclusive
<1>7. Held' \subseteq Held \cup {k}
  BY <1>2 DEF Held
<1>8. IdleClients' \cap Held' = {}
  BY <1>5, <1>7 DEF ClientExclusive
<1>9. \A i, j \in DOMAIN idle' : idle'[i] = idle'[j] => i = j
  BY <1>1 DEF ClientExclusive
<1> QED
  BY <1>6, <1>8, <1>9 DEF ClientExclusive

(* A new client is nobody else's.                                           *)
LEMMA ExclusiveNew ==
  ASSUME ClientExclusive, Types, NEW c \in Calls, NewClient(c), idle' = idle
  PROVE  ClientExclusive'
<1>1. PICK k \in Clients \ (Held \cup IdleClients) : client' = [client EXCEPT ![c] = k]
  BY DEF NewClient
<1>2. client \in [Calls -> Clients \cup {NoClient}]
  BY DEF Types
<1>3. \A d \in Calls : client[d] # k
  BY <1>1, ClientPoolAssumption DEF Held
<1>4. \A d, e \in Calls : client'[d] = client'[e] /\ d # e => client'[d] = NoClient
  BY <1>1, <1>2, <1>3 DEF ClientExclusive
<1>5. Held' \subseteq Held \cup {k} /\ IdleClients' = IdleClients
  BY <1>1, <1>2 DEF Held, IdleClients
<1> QED
  BY <1>1, <1>4, <1>5 DEF ClientExclusive

(* A returned client is in the pool at most once, and with no call.         *)
LEMMA ExclusiveReturn ==
  ASSUME ClientExclusive, Types, Shape, NEW c \in Calls, Return(c)
  PROVE  ClientExclusive'
<1> DEFINE k == client[c]
           n == Len(idle)
<1>1. k \in Clients /\ k # NoClient
  BY DEF Return, Types, Shape, Lent
<1>2. client' = [client EXCEPT ![c] = NoClient] /\ client \in [Calls -> Clients \cup {NoClient}]
  BY DEF Return, Types
<1>3. CASE idle' = idle
  BY <1>2, <1>3, ExclusiveLess
<1>4. CASE idle' = Append(idle, k)
  <2>1. /\ n \in Nat /\ DOMAIN idle = 1 .. n
        /\ DOMAIN idle' = 1 .. n + 1
        /\ \A i \in 1 .. n : idle'[i] = idle[i]
        /\ idle'[n + 1] = k
    BY <1>1, <1>4, PushIdle DEF Types
  <2> HIDE DEF n
  <2>2. k \in Held /\ k \notin IdleClients
    BY <1>1 DEF ClientExclusive, Held
  <2>3. \A d \in Calls : client'[d] # k
    BY <1>1, <1>2 DEF ClientExclusive
  <2>4. \A d, e \in Calls : client'[d] = client'[e] /\ d # e => client'[d] = NoClient
    BY <1>2 DEF ClientExclusive
  <2>5. IdleClients' \subseteq IdleClients \cup {k}
    BY <2>1 DEF IdleClients
  <2>6. Held' \subseteq Held \ {k}
    BY <1>2, <2>3 DEF Held
  <2>7. IdleClients' \cap Held' = {}
    BY <2>5, <2>6 DEF ClientExclusive
  <2>8. \A i \in 1 .. n : idle[i] # k
    BY <2>1, <2>2 DEF IdleClients
  <2>9. \A i, j \in DOMAIN idle' : idle'[i] = idle'[j] => i = j
    BY <2>1, <2>8 DEF ClientExclusive
  <2> QED
    BY <2>4, <2>7, <2>9 DEF ClientExclusive
<1> QED
  BY <1>3, <1>4 DEF Return

(* The clients, their owners and the pool keep their types and shape.       *)
LEMMA BaseStep == Base /\ [Next]_vars => Base'
<1> SUFFICES ASSUME Base, [Next]_vars PROVE Base'
  OBVIOUS
<1>0. Types /\ Shape /\ ClientExclusive
  BY DEF Base
<1>1. ASSUME NEW c \in Calls, CallStep(c)
      PROVE  Base'
  <2>1. CASE PopClient(c)
    BY <1>0, <1>1, <2>1, TypesCall, ExclusivePop DEF Base
  <2>2. CASE NewClient(c) /\ idle' = idle
    BY <1>0, <1>1, <2>2, TypesCall, ExclusiveNew DEF Base
  <2>3. CASE Return(c)
    BY <1>0, <1>1, <2>3, TypesCall, ExclusiveReturn DEF Base
  <2>4. CASE ~PopClient(c) /\ ~(NewClient(c) /\ idle' = idle) /\ ~Return(c)
    <3>1. idle' = idle /\ client' \in {client, [client EXCEPT ![c] = NoClient]}
      BY <1>1, <2>4
      DEF CallStep, Begin, Acquire, Pop, Add, Sub, Retry, Wake, Exchange, Release, Abandon
    <3> QED
      BY <1>0, <1>1, <3>1, TypesCall, ExclusiveLess DEF Base
  <2> QED
    BY <2>1, <2>2, <2>3, <2>4
<1>2. CASE CloseClear \/ CloseReset \/ UNCHANGED vars
  <2>1. /\ UNCHANGED <<mode, pc, client, outcome, retries, permits>>
        /\ idle' \in {idle, << >>} /\ created' \in {created, 0}
        /\ closing' \in {closing, "clearing", "closed"}
    BY <1>2 DEF CloseClear, CloseReset, vars, callVars
  <2>2. Types' /\ Shape'
    <3>1. idle' \in Seq(Clients)
      <4>1. << >> \in Seq(Clients) /\ idle \in Seq(Clients)
        BY <1>0 DEF Types
      <4> QED
        BY <2>1, <4>1
    <3>2. 0 \in 0 .. Modulus - 1
      BY ModulusPositive
    <3>3. created' \in 0 .. Modulus - 1
      BY <1>0, <2>1, <3>2 DEF Types
    <3> QED
      BY <1>0, <2>1, <3>1, <3>3 DEF Types, Shape
  <2>3. ClientExclusive'
    <3>1. CASE idle' = idle
      BY <1>0, <2>1, <3>1 DEF ClientExclusive, Held, IdleClients
    <3>2. CASE idle' = << >>
      <4>1. DOMAIN idle' = {} /\ IdleClients' = {} /\ client' = client
        BY <2>1, <3>2 DEF IdleClients
      <4> QED
        BY <1>0, <4>1 DEF ClientExclusive
    <3> QED
      BY <2>1, <3>1, <3>2
  <2> QED
    BY <2>2, <2>3 DEF Base
<1> QED
  BY <1>1, <1>2 DEF Next

------------------------------------------------------------------------------
(* The counts: permits with the calls that hold one, clients with the calls *)
(* that have or may make one.                                               *)
LEMMA CountsInit == Init => PermitCount /\ ClientCount
<1> SUFFICES ASSUME Init PROVE PermitCount /\ ClientCount
  OBVIOUS
<1>1. Count(Holding) = 0 /\ Count(Using) = 0
  BY CountInit DEF Holding, Using, Lent
<1> QED
  BY <1>1, ClientPoolAssumption DEF Init, PermitCount, ClientCount

(* A step of a call keeps both counts: a call that may make a client found  *)
(* the pool empty while it held a permit.                                   *)
LEMMA CountsCall ==
  ASSUME Base, PermitCount, ClientCount, NEW c \in Calls, CallStep(c)
  PROVE  PermitCount' /\ ClientCount'
<1>0. Types /\ Shape /\ pc \in [Calls -> Labels] /\ idle \in Seq(Clients)
      /\ permits \in Nat /\ MaxConcurrent \in Nat /\ Len(idle) \in Nat
  BY ClientPoolAssumption, LenProperties DEF Base, Types
<1>1. /\ Count(Holding) \in Nat /\ Count(Using) \in Nat
      /\ Count(Holding)' \in Nat /\ Count(Using)' \in Nat
      /\ Count(Using)' <= Count(Holding)'
  BY CountMonotonic, CountMonotonicNext DEF Holding, Using, Lent
<1>2. ASSUME NEW l, Goto(c, l)
      PROVE  /\ Count(Holding)' = Count(Holding) + (IF l \in Holding THEN 1 ELSE 0)
                                     - (IF pc[c] \in Holding THEN 1 ELSE 0)
             /\ Count(Using)' = Count(Using) + (IF l \in Using THEN 1 ELSE 0)
                                     - (IF pc[c] \in Using THEN 1 ELSE 0)
  BY <1>0, <1>2, CountGoto DEF One
<1>3. /\ PermitCount <=> permits + Count(Holding) = MaxConcurrent
      /\ PermitCount' <=> permits' + Count(Holding)' = MaxConcurrent
      /\ ClientCount <=> Len(idle) + Count(Using) <= MaxConcurrent
      /\ ClientCount' <=> Len(idle') + Count(Using)' <= MaxConcurrent
  BY DEF PermitCount, ClientCount
<1>4. ASSUME NEW l, Goto(c, l), l \in Holding, pc[c] \in Holding, permits' = permits
      PROVE  PermitCount' /\ Count(Holding)' <= MaxConcurrent
  BY <1>0, <1>1, <1>2, <1>3, <1>4
\* No call begins to use a client, and the pool stays.
<1>5. ASSUME NEW l, Goto(c, l), l \in Using => pc[c] \in Using, idle' = idle
      PROVE  ClientCount'
  BY <1>0, <1>1, <1>2, <1>3, <1>5
\* The pool is empty.
<1>6. ASSUME idle' = << >>, Count(Holding)' <= MaxConcurrent
      PROVE  ClientCount'
  <2>1. Len(idle') = 0
    BY <1>6
  <2> QED
    BY <1>0, <1>1, <1>3, <1>6, <2>1
\* An idle client is taken.
<1>7. ASSUME PopClient(c), Goto(c, "exchange"), pc[c] \notin Using
      PROVE  ClientCount'
  <2>1. Len(idle') = Len(idle) - 1
    BY <1>0, <1>7, PopIdle DEF PopClient
  <2>2. Count(Using)' = Count(Using) + 1
    BY <1>1, <1>2, <1>7 DEF Using, Lent
  <2> QED
    BY <1>0, <1>1, <1>3, <2>1, <2>2
<1>8. CASE Begin(c)
  <2>1. /\ Goto(c, "acquire") /\ UNCHANGED <<permits, idle>>
        /\ pc[c] \notin Holding /\ "acquire" \notin Holding /\ "acquire" \notin Using
    BY <1>8 DEF Begin, Holding, Using, Lent
  <2> QED
    BY <1>0, <1>1, <1>2, <1>3, <1>5, <2>1
<1>9. CASE Acquire(c)
  <2>1. /\ Goto(c, "pop") /\ permits' = permits - 1 /\ idle' = idle
        /\ pc[c] \notin Holding /\ "pop" \in Holding /\ "pop" \notin Using
    BY <1>9 DEF Acquire, Holding, Using, Lent
  <2> QED
    BY <1>0, <1>1, <1>2, <1>3, <1>5, <2>1
<1>10. CASE Pop(c)
  <2>1. pc[c] \in Holding /\ pc[c] \notin Using /\ permits' = permits
    BY <1>10 DEF Pop, Holding, Using, Lent
  <2>2. CASE PopClient(c) /\ Goto(c, "exchange")
    BY <1>4, <1>7, <2>1, <2>2 DEF Holding
  <2>3. CASE Goto(c, "add") /\ idle' = << >>
    BY <1>4, <1>6, <2>1, <2>3 DEF Holding
  <2> QED
    BY <1>10, <2>2, <2>3 DEF Pop
<1>11. CASE Add(c) \/ Sub(c) \/ Wake(c)
  <2>1. /\ pc[c] \in Holding /\ pc[c] \in Using /\ permits' = permits /\ idle' = idle
        /\ \E l \in {"exchange", "sub", "retry"} : Goto(c, l)
    BY <1>11 DEF Add, Sub, Wake, Holding, Using, Lent
  <2> QED
    BY <1>4, <1>5, <2>1 DEF Holding
<1>12. CASE Retry(c)
  <2>1. pc[c] \in Holding /\ pc[c] \notin Using /\ permits' = permits
    BY <1>12 DEF Retry, Holding, Using, Lent
  <2>2. CASE PopClient(c) /\ Goto(c, "exchange")
    BY <1>4, <1>7, <2>1, <2>2 DEF Holding
  <2>3. CASE Goto(c, "sleep") /\ idle' = << >>
    BY <1>4, <1>6, <2>1, <2>3 DEF Holding
  <2> QED
    BY <1>12, <2>2, <2>3 DEF Retry
<1>13. CASE Exchange(c)
  <2>1. /\ pc[c] \in Holding /\ pc[c] \in Using /\ permits' = permits /\ idle' = idle
        /\ \E l \in {"return", "release"} : Goto(c, l)
    BY <1>13 DEF Exchange, Holding, Using, Lent
  <2> QED
    BY <1>4, <1>5, <2>1 DEF Holding
<1>14. CASE Return(c)
  <2>1. /\ Goto(c, "release") /\ permits' = permits
        /\ pc[c] \in Holding /\ "release" \in Holding
        /\ pc[c] \in Using /\ "release" \notin Using
        /\ client[c] \in Clients
    BY <1>0, <1>14 DEF Return, Holding, Using, Lent, Types, Shape
  <2>2. Len(idle') \in {Len(idle), Len(idle) + 1}
    BY <1>0, <1>14, <2>1, PushIdle DEF Return
  <2>3. Count(Using)' = Count(Using) - 1
    BY <1>1, <1>2, <2>1
  <2> QED
    BY <1>0, <1>1, <1>3, <1>4, <2>1, <2>2, <2>3
<1>15. CASE Release(c)
  <2>1. /\ Goto(c, "done") /\ permits' = permits + 1 /\ idle' = idle
        /\ pc[c] \in Holding /\ "done" \notin Holding /\ "done" \notin Using
    BY <1>15 DEF Release, Holding, Using, Lent
  <2> QED
    BY <1>0, <1>1, <1>2, <1>3, <1>5, <2>1
<1>16. CASE Abandon(c)
  <2>1. /\ Goto(c, "dropped") /\ idle' = idle
        /\ "dropped" \notin Holding /\ "dropped" \notin Using
    BY <1>16 DEF Abandon, Holding, Using, Lent
  <2>2. \/ pc[c] \notin Holding /\ permits' = permits
        \/ pc[c] \in Holding /\ permits' = permits + 1
    BY <1>16 DEF Abandon, Holding
  <2>3. PermitCount'
    <3>1. Count(Holding)' = Count(Holding) - (IF pc[c] \in Holding THEN 1 ELSE 0)
      BY <1>1, <1>2, <2>1
    <3> QED
      BY <1>0, <1>1, <1>3, <2>2, <3>1
  <2> QED
    BY <1>5, <2>1, <2>3
<1> QED
  BY <1>8, <1>9, <1>10, <1>11, <1>12, <1>13, <1>14, <1>15, <1>16 DEF CallStep

(* The inductive invariant of calls, callers and close().                   *)
IInv == Base /\ PermitCount /\ ClientCount

(* Outside the calls only close() touches the pool, and it only empties it. *)
LEMMA CountsStep == IInv /\ [Next]_vars => PermitCount' /\ ClientCount'
<1> SUFFICES ASSUME IInv, [Next]_vars PROVE PermitCount' /\ ClientCount'
  OBVIOUS
<1>1. Base /\ PermitCount /\ ClientCount /\ Len(idle) \in Nat /\ Count(Using) \in Nat
      /\ MaxConcurrent \in Nat
  BY ClientPoolAssumption, LenProperties, CountMonotonic DEF IInv, Base, Types
<1>2. CASE \E c \in Calls : CallStep(c)
  BY <1>1, <1>2, CountsCall
<1>3. CASE CloseClear \/ CloseReset \/ UNCHANGED vars
  <2>1. pc' = pc /\ permits' = permits /\ idle' \in {idle, << >>}
    BY <1>3 DEF CloseClear, CloseReset, vars, callVars
  <2>2. Count(Holding)' = Count(Holding) /\ Count(Using)' = Count(Using)
    BY <2>1 DEF Count
  <2>3. Len(idle') <= Len(idle)
    BY <1>1, <2>1
  <2> QED
    BY <1>1, <2>1, <2>2, <2>3 DEF PermitCount, ClientCount
<1> QED
  BY <1>2, <1>3 DEF Next

(* Whatever calls, callers and close() do, in whatever order.               *)
THEOREM PoolInvariant == Spec => []IInv
<1>1. Init => IInv
  BY BaseInit, CountsInit DEF IInv
<1>2. IInv /\ [Next]_vars => IInv'
  BY BaseStep, CountsStep DEF IInv
<1> QED
  BY <1>1, <1>2, PTL DEF Spec

(* No client is ever with two calls, or with a call and in the pool.        *)
THEOREM ClientExclusiveCorrect == Spec => []ClientExclusive
<1>1. IInv => ClientExclusive
  BY DEF IInv, Base
<1> QED
  BY <1>1, PoolInvariant, PTL

(* Types: in particular the permits never exceed max_concurrent, and a call *)
(* on the slow path has one to three attempts left.                         *)
THEOREM TypeCorrect == Spec => []TypeOK
<1>1. IInv => TypeOK
  <2> SUFFICES ASSUME IInv PROVE TypeOK
    OBVIOUS
  <2>1. Types /\ PermitCount /\ Count(Holding) \in Nat /\ MaxConcurrent \in Nat
    BY CountMonotonic, ClientPoolAssumption DEF IInv, Base
  <2>2. permits \in 0 .. MaxConcurrent
    BY <2>1 DEF PermitCount, Types
  <2> QED
    BY <2>1, <2>2 DEF Types, TypeOK
<1> QED
  BY <1>1, PoolInvariant, PTL

(* Calls at the labels of disjoint sets are counted apart.                  *)
LEMMA CountDisjoint ==
  ASSUME NEW L, NEW M, NEW N, L \cap M = {}, L \cup M \subseteq N
  PROVE  Count(L) + Count(M) <= Count(N)
<1> DEFINE S == {c \in Calls : pc[c] \in L}
           T == {c \in Calls : pc[c] \in M}
           U == {c \in Calls : pc[c] \in N}
<1>1. IsFiniteSet(S) /\ IsFiniteSet(T) /\ IsFiniteSet(U)
  BY ClientPoolAssumption, FS_Subset
<1>2. S \cap T = {}
  OBVIOUS
<1>3. S \cup T \in SUBSET U
  OBVIOUS
<1>4. Count(L) = Cardinality(S) /\ Count(M) = Cardinality(T) /\ Count(N) = Cardinality(U)
  BY DEF Count
<1> HIDE DEF S, T, U
<1>5. Cardinality(S \cup T) = Cardinality(S) + Cardinality(T) - Cardinality(S \cap T)
  BY <1>1, FS_Union
<1>6. Cardinality(S \cup T) <= Cardinality(U)
  BY <1>1, <1>3, FS_Subset
<1>7. Cardinality(S \cap T) = 0 /\ Cardinality(S) \in Nat /\ Cardinality(T) \in Nat
  BY <1>1, <1>2, FS_EmptySet, FS_CardinalityType
<1> QED
  BY <1>4, <1>5, <1>6, <1>7

(* The clients that calls hold are at most as many as the calls.            *)
LEMMA HeldBounded == Shape => IsFiniteSet(Held) /\ Cardinality(Held) <= Count(Lent)
<1> SUFFICES ASSUME Shape
             PROVE  IsFiniteSet(Held) /\ Cardinality(Held) <= Count(Lent)
  OBVIOUS
<1> DEFINE S == {c \in Calls : pc[c] \in Lent}
           f == [c \in S |-> client[c]]
<1>1. IsFiniteSet(S)
  BY ClientPoolAssumption, FS_Subset
<1>2. f \in Surjection(S, Held)
  <2>1. \A c \in Calls : pc[c] \in Lent <=> client[c] # NoClient
    BY DEF Shape
  <2>2. f \in [S -> Held]
    BY <2>1 DEF Held
  <2>3. \A k \in Held : \E c \in S : f[c] = k
    BY <2>1 DEF Held
  <2> QED
    BY <2>2, <2>3 DEF Surjection
<1> HIDE DEF S, f
<1>3. IsFiniteSet(Held) /\ Cardinality(Held) <= Cardinality(S)
  BY <1>1, <1>2, FS_Surjection
<1> QED
  BY <1>3 DEF Count, S

(* Clients pooled, lent and decided upon never exceed max_concurrent, which *)
(* is what bounds the sockets of the pool, whatever created_clients says.   *)
THEOREM ClientsWithinLimitCorrect == Spec => []ClientsWithinLimit
<1>1. IInv => ClientsWithinLimit
  <2> SUFFICES ASSUME IInv PROVE ClientsWithinLimit
    OBVIOUS
  <2>1. Shape /\ ClientCount /\ Len(idle) \in Nat
    BY LenProperties DEF IInv, Base, Types
  <2>2. IsFiniteSet(Held) /\ Cardinality(Held) <= Count(Lent)
    BY <2>1, HeldBounded
  <2>3. Cardinality(Deciding) = Count({"add", "sub"})
    BY DEF Deciding, Count
  <2>4. Count({"add", "sub"}) + Count(Lent) <= Count(Using)
    BY CountDisjoint DEF Using, Lent
  <2>5. /\ Cardinality(Held) \in Nat /\ Count({"add", "sub"}) \in Nat
        /\ Count(Lent) \in Nat /\ Count(Using) \in Nat /\ MaxConcurrent \in Nat
    BY <2>2, FS_CardinalityType, CountMonotonic, ClientPoolAssumption
  <2> QED
    BY <2>1, <2>2, <2>3, <2>4, <2>5 DEF ClientCount, ClientsWithinLimit
<1> QED
  BY <1>1, PoolInvariant, PTL

------------------------------------------------------------------------------
(* The counter.  Until close() it holds every addition that is still to be  *)
(* taken back, so that it does not wrap below zero, and nothing beyond      *)
(* max_pool_size that is not.                                               *)
Taking == {"sub"}

CounterInv ==
  closing = "no" => Count(Taking) <= created /\ created <= MaxPoolSize + Count(Taking)

(* fetch_add and fetch_sub do not wrap while the counter is bounded.        *)
LEMMA CounterCall ==
  ASSUME Base, CounterInv, NEW c \in Calls, CallStep(c)
  PROVE  CounterInv'
<1> SUFFICES ASSUME closing = "no"
             PROVE  Count(Taking)' <= created' /\ created' <= MaxPoolSize + Count(Taking)'
  <2>1. closing' = closing
    BY DEF CallStep, Begin, Acquire, Pop, Add, Sub, Retry, Wake, Exchange, Return,
           Release, Abandon
  <2> QED
    BY <2>1 DEF CounterInv
<1>0. /\ pc \in [Calls -> Labels] /\ created \in Nat /\ MaxPoolSize \in Nat /\ Modulus \in Nat
      /\ Count(Taking) \in Nat /\ Count(Taking)' \in Nat
      /\ Count(Taking) <= created /\ created <= MaxPoolSize + Count(Taking)
  BY ModulusPositive, ClientPoolAssumption, CountMonotonic, CountMonotonicNext
  DEF Base, Types, CounterInv
<1>1. ASSUME NEW l, Goto(c, l)
      PROVE  Count(Taking)' = Count(Taking) + (IF l = "sub" THEN 1 ELSE 0)
                                     - (IF pc[c] = "sub" THEN 1 ELSE 0)
  <2>1. Count(Taking)' = Count(Taking) + One(l, Taking) - One(pc[c], Taking)
    BY <1>0, <1>1, CountGoto
  <2>2. /\ One(l, Taking) = IF l = "sub" THEN 1 ELSE 0
        /\ One(pc[c], Taking) = IF pc[c] = "sub" THEN 1 ELSE 0
    BY DEF One, Taking
  <2> QED
    BY <2>1, <2>2
<1>2. ASSUME NEW L
      PROVE  Count(L)' + MaxPoolSize < Modulus
  <2> DEFINE T == {d \in Calls : pc'[d] \in L}
  <2>1. T \in SUBSET Calls /\ IsFiniteSet(Calls)
    BY ClientPoolAssumption
  <2>2. Count(L)' = Cardinality(T)
    BY DEF Count
  <2> HIDE DEF T
  <2>3. Cardinality(T) <= Cardinality(Calls) /\ Cardinality(T) \in Nat
        /\ Cardinality(Calls) \in Nat
    BY <2>1, FS_Subset, FS_CardinalityType
  <2> QED
    BY <2>2, <2>3, ClientPoolAssumption
<1>3. CASE Add(c)
  <2>1. pc[c] = "add" /\ created' = (created + 1) % Modulus
    BY <1>3 DEF Add
  <2>2. CASE created < MaxPoolSize /\ Goto(c, "exchange")
    <3>1. created + 1 \in 0 .. Modulus - 1
      BY <1>0, <1>2, <2>2
    <3>2. created' = created + 1
      BY <2>1, <3>1, Wraps
    <3> QED
      BY <1>0, <1>1, <2>1, <2>2, <3>2
  <2>3. CASE Goto(c, "sub")
    <3>1. Count(Taking)' = Count(Taking) + 1
      BY <1>0, <1>1, <2>1, <2>3
    <3>2. created + 1 \in 0 .. Modulus - 1
      BY <1>0, <1>2, <3>1
    <3>3. created' = created + 1
      BY <2>1, <3>2, Wraps
    <3> QED
      BY <1>0, <3>1, <3>3
  <2> QED
    BY <1>3, <2>2, <2>3 DEF Add
<1>4. CASE Sub(c)
  <2>1. pc[c] = "sub" /\ created' = (created - 1) % Modulus
    BY <1>4 DEF Sub
  <2>2. Count(Taking)' = Count(Taking) - 1
    <3>1. \E l \in {"exchange", "retry"} : Goto(c, l)
      BY <1>4 DEF Sub
    <3> QED
      BY <1>0, <1>1, <2>1, <3>1
  <2>3. created - 1 \in 0 .. Modulus - 1
    BY <1>0, <2>2 DEF Base, Types
  <2>4. created' = created - 1
    BY <2>1, <2>3, Wraps
  <2> QED
    BY <1>0, <2>2, <2>4
<1>5. CASE ~Add(c) /\ ~Sub(c)
  <2>1. created' = created
    BY <1>5 DEF CallStep, Begin, Acquire, Pop, Retry, Wake, Exchange, Return,
                Release, Abandon
  <2>2. pc[c] # "sub" /\ \E l \in Labels \ {"sub"} : Goto(c, l)
    BY <1>5 DEF CallStep, Begin, Acquire, Pop, Retry, Wake, Exchange, Return,
                Release, Abandon, Labels, Holding
  <2> QED
    BY <1>0, <1>1, <2>1, <2>2
<1> QED
  BY <1>3, <1>4, <1>5

(* close() ends what is promised of the counter; nothing else touches it.   *)
LEMMA CounterStep == Base /\ CounterInv /\ [Next]_vars => CounterInv'
<1> SUFFICES ASSUME Base, CounterInv, [Next]_vars PROVE CounterInv'
  OBVIOUS
<1>1. CASE \E c \in Calls : CallStep(c)
  BY <1>1, CounterCall
<1>2. CASE CloseClear \/ CloseReset
  BY <1>2 DEF CloseClear, CloseReset, CounterInv
<1>3. CASE UNCHANGED vars
  BY <1>3 DEF vars, callVars, CounterInv, Count
<1> QED
  BY <1>1, <1>2, <1>3 DEF Next

(* Until close(), created_clients is at most max_pool_size and the callers  *)
(* that are about to take their addition back (pool.rs:265-279).            *)
THEOREM CounterBoundedCorrect == Spec => []CounterBounded
<1>1. Init => CounterInv
  <2> SUFFICES ASSUME Init PROVE CounterInv
    OBVIOUS
  <2>1. Count(Taking) = 0
    BY CountInit DEF Taking
  <2> QED
    BY <2>1, ClientPoolAssumption DEF Init, CounterInv
<1>2. IInv /\ CounterInv /\ [Next]_vars => CounterInv'
  BY CounterStep DEF IInv
<1>3. CounterInv => CounterBounded
  <2>1. Count(Taking) = Cardinality({c \in Calls : pc[c] = "sub"})
    <3>1. {c \in Calls : pc[c] \in {"sub"}} = {c \in Calls : pc[c] = "sub"}
      OBVIOUS
    <3> QED
      BY <3>1 DEF Count, Taking
  <2> QED
    BY <2>1 DEF CounterInv, CounterBounded
<1> QED
  BY <1>1, <1>2, <1>3, PoolInvariant, PTL DEF Spec

------------------------------------------------------------------------------
(* The slow path.  While no client has been lost and every permit has room  *)
(* in the pool, the counter is the number of clients there are, so that a   *)
(* call that finds the pool empty finds the counter below max_pool_size.    *)
Slow == {"sub", "retry", "sleep"}

FastInv ==
  ~ClientLost /\ MaxPoolSize >= MaxConcurrent
    => /\ \A c \in Calls : pc[c] \notin Slow
       /\ created = Len(idle) + Count(Lent)

(* A lost client stays lost.                                                *)
LEMMA LostForever ==
  ASSUME Base, NEW c \in Calls, CallStep(c), ClientLost
  PROVE  ClientLost'
<1>0. Types /\ Shape /\ closing' = closing
  BY DEF Base, CallStep, Begin, Acquire, Pop, Add, Sub, Retry, Wake, Exchange, Return,
         Release, Abandon
<1>1. CASE closing # "no"
  BY <1>0, <1>1 DEF ClientLost
<1>2. ASSUME NEW d \in Calls, outcome[d] = "other" \/ pc[d] = "dropped"
      PROVE  outcome'[d] = "other" \/ pc'[d] = "dropped"
  <2>1. CASE Exchange(c)
    <3>1. d # c
      BY <1>0, <1>2, <2>1 DEF Exchange, Shape, Early
    <3> QED
      BY <1>0, <1>2, <2>1, <3>1 DEF Exchange, Goto, Types
  <2>2. CASE ~Exchange(c)
    <3>1. outcome' = outcome /\ pc[c] # "dropped" /\ \E l \in Labels : Goto(c, l)
      BY <2>2 DEF CallStep, Begin, Acquire, Pop, Add, Sub, Retry, Wake, Return,
                  Release, Abandon, Labels, Holding
    <3> QED
      BY <1>0, <1>2, <3>1 DEF Goto, Types
  <2> QED
    BY <2>1, <2>2
<1> QED
  BY <1>1, <1>2 DEF ClientLost

(* While nothing is lost the counter follows the clients.                   *)
LEMMA FastCall ==
  ASSUME Base, ClientCount, FastInv, NEW c \in Calls, CallStep(c)
  PROVE  FastInv'
<1> SUFFICES ASSUME ~ClientLost', MaxPoolSize >= MaxConcurrent
             PROVE  /\ \A d \in Calls : pc'[d] \notin Slow
                    /\ created' = Len(idle') + Count(Lent)'
  BY DEF FastInv
<1>0. /\ Types /\ Shape /\ pc \in [Calls -> Labels] /\ idle \in Seq(Clients)
      /\ created \in Nat /\ MaxPoolSize \in Nat /\ MaxConcurrent \in Nat
      /\ Modulus \in Nat /\ Len(idle) \in Nat
      /\ Count(Lent) \in Nat /\ Count(Lent)' \in Nat /\ Count(Using) \in Nat
      /\ Count({"add"}) \in Nat
  BY ModulusPositive, ClientPoolAssumption, LenProperties, CountMonotonic, CountMonotonicNext
  DEF Base, Types
<1>1. (\A d \in Calls : pc[d] \notin Slow) /\ created = Len(idle) + Count(Lent)
  BY LostForever DEF FastInv
<1>2. ASSUME NEW l, Goto(c, l)
      PROVE  Count(Lent)' = Count(Lent) + (IF l \in Lent THEN 1 ELSE 0)
                                     - (IF pc[c] \in Lent THEN 1 ELSE 0)
  BY <1>0, <1>2, CountGoto DEF One
<1>3. ASSUME NEW l, Goto(c, l), l \notin Slow
      PROVE  \A d \in Calls : pc'[d] \notin Slow
  BY <1>0, <1>1, <1>3 DEF Goto
<1>4. Count({"add"}) + Count(Lent) <= Count(Using) /\ Len(idle) + Count(Using) <= MaxConcurrent
  BY CountDisjoint DEF Using, Lent, ClientCount
\* Neither the pool nor the clients that are lent change.
<1>5. ASSUME NEW l, Goto(c, l), l \notin Slow, l \in Lent <=> pc[c] \in Lent,
             UNCHANGED <<idle, created>>
      PROVE  /\ \A d \in Calls : pc'[d] \notin Slow
             /\ created' = Len(idle') + Count(Lent)'
  <2>1. Count(Lent)' = Count(Lent)
    BY <1>0, <1>2, <1>5
  <2> QED
    BY <1>1, <1>3, <1>5, <2>1
<1>6. CASE Begin(c) \/ Acquire(c) \/ Release(c)
  <2>1. PICK l \in {"acquire", "pop", "done"} :
          Goto(c, l) /\ pc[c] \notin Lent /\ UNCHANGED <<idle, created>>
    BY <1>6 DEF Begin, Acquire, Release, Lent
  <2> QED
    BY <1>5, <2>1 DEF Slow, Lent
<1>7. CASE Pop(c)
  <2>1. CASE Goto(c, "add") /\ UNCHANGED idle
    BY <1>5, <1>7, <2>1 DEF Pop, Slow, Lent
  <2>2. CASE PopClient(c) /\ Goto(c, "exchange")
    <3>1. Len(idle') = Len(idle) - 1 /\ created' = created
      BY <1>0, <1>7, <2>2, PopIdle DEF PopClient, Pop
    <3>2. Count(Lent)' = Count(Lent) + 1
      BY <1>0, <1>2, <1>7, <2>2 DEF Pop, Lent
    <3> QED
      BY <1>0, <1>1, <1>3, <2>2, <3>1, <3>2 DEF Slow
  <2> QED
    BY <1>7, <2>1, <2>2 DEF Pop
<1>8. CASE Add(c)
  <2>1. pc[c] = "add" /\ idle' = idle /\ created' = (created + 1) % Modulus
    BY <1>8 DEF Add
  <2>2. Count({"add"}) # 0
    <3> DEFINE S == {d \in Calls : pc[d] \in {"add"}}
    <3>1. c \in S /\ IsFiniteSet(S)
      BY <2>1, ClientPoolAssumption, FS_Subset
    <3> HIDE DEF S
    <3>2. Cardinality(S) # 0
      BY <3>1, FS_EmptySet
    <3> QED
      BY <3>2 DEF Count, S
  <2>3. created < MaxPoolSize
    BY <1>0, <1>1, <1>4, <2>2
  <2>4. Goto(c, "exchange")
    BY <1>0, <1>8, <2>3 DEF Add
  <2>5. created' = created + 1
    <3>1. MaxPoolSize < Modulus
      BY <1>0, ClientPoolAssumption, FS_CardinalityType
    <3>2. created + 1 \in 0 .. Modulus - 1
      BY <1>0, <2>3, <3>1
    <3> QED
      BY <2>1, <3>2, Wraps
  <2>6. Count(Lent)' = Count(Lent) + 1
    BY <1>0, <1>2, <2>1, <2>4 DEF Lent
  <2> QED
    BY <1>0, <1>1, <1>3, <2>1, <2>4, <2>5, <2>6 DEF Slow
<1>9. CASE Sub(c) \/ Retry(c) \/ Wake(c)
  BY <1>1, <1>9 DEF Sub, Retry, Wake, Slow
<1>10. CASE Exchange(c)
  <2>1. outcome'[c] # "other"
    BY DEF ClientLost
  <2>2. Goto(c, "return") /\ pc[c] \in Lent /\ UNCHANGED <<idle, created>>
    BY <1>0, <1>10, <2>1 DEF Exchange, Lent, Types
  <2> QED
    BY <1>5, <2>2 DEF Slow, Lent
<1>11. CASE Return(c)
  <2>1. Goto(c, "release") /\ pc[c] = "return" /\ created' = created /\ client[c] \in Clients
    BY <1>0, <1>11 DEF Return, Types, Shape, Lent
  <2>2. Count(Lent)' = Count(Lent) - 1
    BY <1>0, <1>2, <2>1 DEF Lent
  <2>3. Len(idle) < MaxPoolSize
    BY <1>0, <1>4, <2>2
  <2>4. Len(idle') = Len(idle) + 1
    BY <1>0, <1>11, <2>1, <2>3, PushIdle DEF Return
  <2> QED
    BY <1>0, <1>1, <1>3, <2>1, <2>2, <2>4 DEF Slow
<1>12. CASE Abandon(c)
  <2>1. pc'[c] = "dropped"
    BY <1>0, <1>12 DEF Abandon, Goto
  <2> QED
    BY <2>1 DEF ClientLost
<1> QED
  BY <1>6, <1>7, <1>8, <1>9, <1>10, <1>11, <1>12 DEF CallStep

(* With room in the pool for every permit, a call sleeps and retries only   *)
(* after a client has been lost (pool.rs:281-299).                          *)
THEOREM SlowPathNeedsLossCorrect == Spec => []SlowPathNeedsLoss
<1>1. Init => FastInv
  <2> SUFFICES ASSUME Init PROVE FastInv
    OBVIOUS
  <2>1. Count(Lent) = 0 /\ Len(idle) = 0
    BY CountInit DEF Lent, Init
  <2> QED
    BY <2>1 DEF Init, FastInv, Slow
<1>2. IInv /\ FastInv /\ [Next]_vars => FastInv'
  <2> SUFFICES ASSUME IInv, FastInv, [Next]_vars PROVE FastInv'
    OBVIOUS
  <2>1. CASE \E c \in Calls : CallStep(c)
    BY <2>1, FastCall DEF IInv
  <2>2. CASE CloseClear \/ CloseReset
    BY <2>2 DEF CloseClear, CloseReset, FastInv, ClientLost
  <2>3. CASE UNCHANGED vars
    BY <2>3 DEF vars, callVars, FastInv, ClientLost, Count
  <2> QED
    BY <2>1, <2>2, <2>3 DEF Next
<1>3. FastInv => SlowPathNeedsLoss
  BY DEF FastInv, SlowPathNeedsLoss, OnSlowPath, Slow
<1> QED
  BY <1>1, <1>2, <1>3, PoolInvariant, PTL DEF Spec

===============================================================================
