----------------------------- MODULE Pools_proofs -----------------------------
(****************************************************************************)
(* Theorems about the pools of src/pool.rs that share streams and clients   *)
(* between calls: UdsConnectionPool (StreamPool) and TopicBasedPool         *)
(* (TopicPool).                                                             *)
(****************************************************************************)
EXTENDS StreamPool, TopicPool, FiniteSetTheorems, SequenceTheorems, TLAPS

(****************************************************************************)
(* StreamPool.  A stream has one owner at a time, the pool or a call in its *)
(* exchange; the pool's are empty, and what is in a call's stream is that   *)
(* call's own request or answer, or, once the peer has gone, nothing.       *)
(****************************************************************************)
InExchange == {"write", "read"}
Clean(k) == sockets[k].requests = << >> /\ sockets[k].answers = << >>
Carries(k, c) ==
  \/ sockets[k].requests = <<c>> /\ sockets[k].answers = << >>
  \/ sockets[k].requests = << >> /\ sockets[k].answers \in {<< >>, <<c>>}

SocketState == [requests : Seq(PoolCalls), answers : Seq(PoolCalls), gone : BOOLEAN]

StreamTypes ==
  /\ cpc \in [PoolCalls -> {"idle", "write", "read", "done", "dropped"}]
  /\ using \in [PoolCalls -> Nat]
  /\ got \in [PoolCalls -> PoolCalls \cup {"none", "error"}]
  /\ pooled \subseteq [socket : Nat, id : Nat]
  /\ nextId \in Nat
  /\ sockets \in Seq(SocketState)

StreamOwners ==
  /\ \A c \in PoolCalls : cpc[c] \in InExchange => using[c] \in DOMAIN sockets
  /\ \A e \in pooled : e.socket \in DOMAIN sockets
  /\ \A c, d \in PoolCalls :
       c # d /\ cpc[c] \in InExchange /\ cpc[d] \in InExchange => using[c] # using[d]
  /\ \A k \in DOMAIN sockets : sockets[k].gone => sockets[k].requests = << >>

StreamContents ==
  \A c \in PoolCalls :
    /\ cpc[c] = "write" => Clean(using[c])
    /\ cpc[c] = "read" => Carries(using[c], c)

StreamInv == StreamTypes /\ StreamOwners /\ StreamContents /\ StreamsInStep

(* What PutBack leaves in the pool was in it, or is the stream put back.    *)
LEMMA PutBackAdds ==
  ASSUME NEW c \in PoolCalls, StreamTypes, PutBack(c)
  PROVE  /\ \A e \in pooled' : e \in pooled \/ e.socket = using[c]
         /\ \A e, f \in pooled' : e.socket = using[c] /\ f.socket = using[c] =>
              e = f \/ e \in pooled \/ f \in pooled
         /\ pooled' \subseteq [socket : Nat, id : Nat] /\ nextId' \in Nat
<1> DEFINE new == [socket |-> using[c], id |-> nextId]
           all == pooled \cup {new}
<1>1. new \in [socket : Nat, id : Nat] /\ new.socket = using[c]
  BY DEF StreamTypes
<1>2. pooled' \subseteq all
  BY DEF PutBack
<1>3. nextId' \in Nat
  BY DEF PutBack, StreamTypes
<1> HIDE DEF new
<1> QED
  BY <1>1, <1>2, <1>3 DEF StreamTypes

(* The end of an exchange over a stream that is left empty: it is the       *)
(* pool's, and nobody else's.                                               *)
LEMMA GivesBack ==
  ASSUME StreamInv, NEW c \in PoolCalls, cpc[c] \in InExchange,
         PutBack(c), CallGoto(c, "done"), UNCHANGED using,
         got' = [got EXCEPT ![c] = got'[c]], got'[c] \in {c, "error"},
         sockets' \in Seq(SocketState), DOMAIN sockets' = DOMAIN sockets,
         Clean(using[c])',
         \A k \in DOMAIN sockets : k # using[c] => sockets'[k] = sockets[k]
  PROVE  StreamInv'
<1> DEFINE k == using[c]
<1>1. /\ \A e \in pooled' : e \in pooled \/ e.socket = k
      /\ \A e, f \in pooled' : e.socket = k /\ f.socket = k =>
           e = f \/ e \in pooled \/ f \in pooled
      /\ pooled' \subseteq [socket : Nat, id : Nat] /\ nextId' \in Nat
  BY PutBackAdds DEF StreamInv
<1>2. /\ StreamTypes /\ StreamOwners /\ StreamContents /\ StreamsInStep
  BY DEF StreamInv
<1>3. cpc' = [cpc EXCEPT ![c] = "done"] /\ cpc'[c] = "done" /\ k \in DOMAIN sockets
  BY <1>2 DEF CallGoto, StreamTypes, StreamOwners
<1>4. \A e \in pooled : e.socket # k
  BY <1>2 DEF StreamsInStep, InExchange
<1>5. StreamTypes'
  BY <1>1, <1>2, <1>3 DEF StreamTypes
<1>6. \A d \in PoolCalls : cpc'[d] \in InExchange =>
        d # c /\ cpc'[d] = cpc[d] /\ using[d] # k /\ using[d] \in DOMAIN sockets
  BY <1>2, <1>3 DEF StreamTypes, StreamOwners, InExchange
<1>7. StreamOwners'
  <2>1. \A e \in pooled' : e.socket \in DOMAIN sockets'
    BY <1>1, <1>2, <1>3 DEF StreamOwners
  <2>2. \A j \in DOMAIN sockets' : sockets'[j].gone => sockets'[j].requests = << >>
    BY <1>2 DEF StreamOwners, Clean
  <2>3. \A d \in PoolCalls : cpc'[d] \in InExchange => using'[d] \in DOMAIN sockets'
    BY <1>6
  <2>4. \A d, e \in PoolCalls : d # e /\ cpc'[d] \in InExchange /\ cpc'[e] \in InExchange
          => using'[d] # using'[e]
    BY <1>2, <1>6 DEF StreamOwners
  <2> QED
    BY <2>1, <2>2, <2>3, <2>4 DEF StreamOwners
<1>8. StreamContents'
  BY <1>2, <1>6 DEF StreamContents, Clean, Carries, InExchange
<1>9. StreamsInStep'
  <2>1. \A d \in PoolCalls : got'[d] \in {d, "none", "error"}
    BY <1>2 DEF StreamsInStep, StreamTypes
  <2>2. \A e \in pooled' : Clean(e.socket)'
    BY <1>1, <1>2, <1>4 DEF Clean, StreamsInStep, StreamOwners
  <2>3. \A e \in pooled' : \A f \in pooled' \ {e} : f.socket # e.socket
    BY <1>1, <1>2, <1>4 DEF StreamsInStep
  <2>4. \A e \in pooled', d \in PoolCalls :
          using'[d] = e.socket => cpc'[d] \notin InExchange
    BY <1>1, <1>2, <1>6 DEF StreamsInStep, InExchange
  <2> QED
    BY <2>1, <2>2, <2>3, <2>4 DEF StreamsInStep, Clean, InExchange
<1> QED
  BY <1>5, <1>7, <1>8, <1>9 DEF StreamInv

(* The steps of a call.                                                     *)
LEMMA StreamCall ==
  ASSUME StreamInv, NEW c \in PoolCalls,
         Hit(c) \/ Miss(c) \/ Write(c) \/ Read(c) \/ Broken(c) \/ DropStream(c)
  PROVE  StreamInv'
<1> DEFINE k == using[c]
<1>1. /\ StreamTypes /\ StreamOwners /\ StreamContents /\ StreamsInStep
  BY DEF StreamInv
<1>2. \A j \in DOMAIN sockets : sockets[j] \in SocketState
  BY <1>1 DEF StreamTypes
<1>3. CASE Hit(c)
  <2>1. PICK e \in pooled : using' = [using EXCEPT ![c] = e.socket] /\ pooled' = pooled \ {e}
    BY <1>3 DEF Hit
  <2>2. /\ cpc' = [cpc EXCEPT ![c] = "write"] /\ cpc'[c] = "write" /\ cpc[c] = "idle"
        /\ UNCHANGED <<got, nextId, sockets>> /\ using'[c] = e.socket
        /\ e.socket \in DOMAIN sockets /\ e.socket \in Nat
    BY <1>1, <1>3, <2>1 DEF Hit, CallGoto, StreamTypes, StreamOwners
  <2>3. \A d \in PoolCalls \ {c} : cpc'[d] = cpc[d] /\ using'[d] = using[d]
    BY <1>1, <2>1, <2>2 DEF StreamTypes
  <2>4. StreamTypes'
    BY <1>1, <2>1, <2>2 DEF StreamTypes
  <2>5. \A d \in PoolCalls : using[d] = e.socket => cpc[d] \notin InExchange
    BY <1>1 DEF StreamsInStep, InExchange
  <2>6. StreamOwners'
    BY <1>1, <2>1, <2>2, <2>3, <2>5 DEF StreamOwners
  <2>7. StreamContents'
    BY <1>1, <2>2, <2>3 DEF StreamContents, Clean, Carries, StreamsInStep
  <2>8. StreamsInStep'
    BY <1>1, <2>1, <2>2, <2>3 DEF StreamsInStep
  <2> QED
    BY <2>4, <2>6, <2>7, <2>8 DEF StreamInv
<1>4. CASE Miss(c)
  <2>1. CASE got' # got \/ sockets' = sockets
    <3>1. /\ cpc' = [cpc EXCEPT ![c] = "done"] /\ got' = [got EXCEPT ![c] = "error"]
          /\ UNCHANGED <<using, sockets, pooled, nextId>>
      BY <1>1, <1>4, <2>1, AppendProperties DEF Miss, CallGoto, StreamTypes
    <3> QED
      BY <1>1, <3>1 DEF StreamInv, StreamTypes, StreamOwners, StreamContents, StreamsInStep,
                        InExchange, Clean, Carries
  <2>2. CASE got' = got /\ sockets' # sockets
    <3> DEFINE s == [requests |-> << >>, answers |-> << >>, gone |-> FALSE]
               n == Len(sockets) + 1
    <3>1. /\ sockets' = Append(sockets, s) /\ using' = [using EXCEPT ![c] = n]
          /\ cpc' = [cpc EXCEPT ![c] = "write"] /\ pooled = {} /\ pooled' = {}
          /\ nextId' = nextId /\ got' = got
      BY <1>4, <2>2 DEF Miss, CallGoto
    <3>2. s \in SocketState /\ s.requests = << >> /\ s.answers = << >> /\ ~s.gone
      BY DEF SocketState
    <3> HIDE DEF s
    <3>3. /\ sockets' \in Seq(SocketState) /\ n \in Nat /\ n \notin DOMAIN sockets
          /\ DOMAIN sockets' = DOMAIN sockets \cup {n} /\ sockets'[n] = s
          /\ \A j \in DOMAIN sockets : sockets'[j] = sockets[j]
      BY <1>1, <3>1, <3>2, AppendProperties, LenProperties DEF StreamTypes
    <3> HIDE DEF n
    <3>4. /\ using'[c] = n /\ cpc'[c] = "write"
          /\ \A d \in PoolCalls \ {c} : cpc'[d] = cpc[d] /\ using'[d] = using[d]
      BY <1>1, <3>1 DEF StreamTypes
    <3>5. StreamTypes'
      BY <1>1, <3>1, <3>3 DEF StreamTypes
    <3>6. StreamOwners'
      BY <1>1, <3>1, <3>2, <3>3, <3>4 DEF StreamOwners
    <3>7. StreamContents'
      BY <1>1, <3>2, <3>3, <3>4 DEF StreamContents, StreamOwners, Clean, Carries, InExchange
    <3>8. StreamsInStep'
      BY <1>1, <3>1 DEF StreamsInStep
    <3> QED
      BY <3>5, <3>6, <3>7, <3>8 DEF StreamInv
  <2> QED
    BY <1>4, <2>1, <2>2 DEF Miss
<1>5. CASE Write(c)
  <2>1. /\ sockets' = [sockets EXCEPT ![k].requests = Append(@, c)] /\ cpc[c] = "write"
        /\ cpc' = [cpc EXCEPT ![c] = "read"] /\ ~sockets[k].gone
        /\ UNCHANGED <<using, got, pooled, nextId>>
    BY <1>5 DEF Write, CallGoto, Sock
  <2>2. k \in DOMAIN sockets /\ Clean(k)
    BY <1>1, <2>1 DEF StreamOwners, StreamContents, InExchange
  <2>3. /\ \A d \in PoolCalls \ {c} : cpc'[d] = cpc[d] /\ (cpc[d] \in InExchange => using[d] # k)
        /\ cpc'[c] = "read" /\ \A e \in pooled : e.socket # k
    BY <1>1, <2>1 DEF StreamTypes, StreamOwners, StreamsInStep, InExchange
  <2>4. /\ sockets'[k].requests = <<c>> /\ sockets'[k].answers = << >> /\ ~sockets'[k].gone
        /\ sockets'[k] \in SocketState
    <3>1. Append(sockets[k].requests, c) = <<c>> /\ <<c>> \in Seq(PoolCalls)
      BY <2>2 DEF Clean
    <3>2. sockets'[k] = [sockets[k] EXCEPT !.requests = <<c>>]
      BY <2>1, <2>2, <3>1
    <3> QED
      BY <1>2, <2>1, <2>2, <3>1, <3>2 DEF Clean, SocketState
  <2>5. /\ DOMAIN sockets' = DOMAIN sockets
        /\ \A j \in DOMAIN sockets \ {k} : sockets'[j] = sockets[j]
    BY <2>1
  <2>6. sockets' \in Seq(SocketState)
    BY <1>1, <2>1, <2>2, <2>4, ExceptSeq DEF StreamTypes
  <2>7. StreamTypes'
    BY <1>1, <2>1, <2>6 DEF StreamTypes
  <2>8. StreamOwners'
    BY <1>1, <2>1, <2>2, <2>3, <2>4, <2>5 DEF StreamOwners, InExchange
  <2>9. StreamContents'
    BY <1>1, <2>1, <2>3, <2>4, <2>5 DEF StreamContents, StreamOwners, Clean, Carries, InExchange
  <2>10. StreamsInStep'
    BY <1>1, <2>1, <2>3, <2>5 DEF StreamsInStep, StreamOwners, InExchange
  <2> QED
    BY <2>7, <2>8, <2>9, <2>10 DEF StreamInv
<1>6. CASE Read(c)
  <2>1. /\ cpc[c] = "read" /\ sockets[k].answers # << >> /\ PutBack(c) /\ CallGoto(c, "done")
        /\ sockets' = [sockets EXCEPT ![k].answers = Tail(@)] /\ UNCHANGED using
        /\ got' \in {[got EXCEPT ![c] = a] : a \in {Head(sockets[k].answers), "error"}}
    BY <1>6 DEF Read, Sock
  <2>2. k \in DOMAIN sockets /\ Carries(k, c)
    BY <1>1, <2>1 DEF StreamOwners, StreamContents, InExchange
  <2>3. sockets[k].answers = <<c>> /\ sockets[k].requests = << >>
    BY <2>1, <2>2 DEF Carries
  <2>4. got' = [got EXCEPT ![c] = got'[c]] /\ got'[c] \in {c, "error"}
    BY <1>1, <2>1, <2>3 DEF StreamTypes
  <2>5. Clean(k)' /\ sockets'[k] \in SocketState
    BY <1>2, <2>1, <2>2, <2>3 DEF Clean, SocketState
  <2>6. /\ DOMAIN sockets' = DOMAIN sockets
        /\ \A j \in DOMAIN sockets \ {k} : sockets'[j] = sockets[j]
    BY <2>1
  <2>7. sockets' \in Seq(SocketState)
    BY <1>1, <2>1, <2>2, <2>5, ExceptSeq DEF StreamTypes
  <2> QED
    BY <2>1, <2>4, <2>5, <2>6, <2>7, GivesBack DEF InExchange, Clean
<1>7. CASE Broken(c)
  <2>1. /\ cpc[c] \in InExchange
        /\ cpc[c] = "write" \/ (sockets[k].gone /\ sockets[k].answers = << >>)
        /\ PutBack(c) /\ CallGoto(c, "done") /\ UNCHANGED <<using, sockets>>
        /\ got' = [got EXCEPT ![c] = "error"]
    BY <1>7 DEF Broken, Sock, InExchange
  <2>2. Clean(k)'
    BY <1>1, <2>1 DEF StreamOwners, StreamContents, Clean
  <2>3. got'[c] = "error"
    BY <1>1, <2>1 DEF StreamTypes
  <2> QED
    BY <1>1, <2>1, <2>2, <2>3, GivesBack DEF StreamTypes, Clean
<1>8. CASE DropStream(c)
  <2>1. cpc' = [cpc EXCEPT ![c] = "dropped"] /\ UNCHANGED <<using, got, pooled, nextId, sockets>>
    BY <1>8 DEF DropStream, CallGoto
  <2> QED
    BY <1>1, <2>1 DEF StreamInv, StreamTypes, StreamOwners, StreamContents, StreamsInStep,
                      InExchange, Clean, Carries
<1> QED
  BY <1>3, <1>4, <1>5, <1>6, <1>7, <1>8

(* The steps of the pool and of the peer.                                   *)
LEMMA StreamPeer ==
  ASSUME StreamInv, Cleanup \/ \E k \in DOMAIN sockets : PeerAnswers(k) \/ PeerEnds(k)
  PROVE  StreamInv'
<1>1. /\ StreamTypes /\ StreamOwners /\ StreamContents /\ StreamsInStep
  BY DEF StreamInv
<1>2. CASE Cleanup
  BY <1>1, <1>2 DEF Cleanup, StreamInv, StreamTypes, StreamOwners, StreamContents,
                    StreamsInStep, InExchange, Clean, Carries
<1>3. ASSUME NEW k \in DOMAIN sockets, PeerAnswers(k) \/ PeerEnds(k)
      PROVE  StreamInv'
  <2>1. sockets[k] \in SocketState
    BY <1>1 DEF StreamTypes
  <2>2. UNCHANGED <<cpc, using, got, pooled, nextId>>
    BY <1>3 DEF PeerAnswers, PeerEnds
  <2>3. /\ sockets' = [sockets EXCEPT ![k] = sockets'[k]] /\ DOMAIN sockets' = DOMAIN sockets
        /\ \A j \in DOMAIN sockets \ {k} : sockets'[j] = sockets[j]
    BY <1>3 DEF PeerAnswers, PeerEnds
  <2>4. sockets'[k] \in SocketState /\ (sockets'[k].gone => sockets'[k].requests = << >>)
    <3>1. CASE PeerEnds(k)
      BY <2>1, <3>1 DEF PeerEnds, SocketState
    <3>2. CASE PeerAnswers(k)
      <4> DEFINE r == sockets[k].requests
                 a == sockets[k].answers
      <4>1. r \in Seq(PoolCalls) /\ a \in Seq(PoolCalls) /\ r # << >>
        BY <2>1, <3>2 DEF PeerAnswers, SocketState
      <4>2. /\ Head(r) \in PoolCalls /\ Tail(r) \in Seq(PoolCalls)
            /\ Append(a, Head(r)) \in Seq(PoolCalls)
        BY <4>1, HeadTailProperties, AppendProperties
      <4>3. /\ sockets'[k].requests = Tail(r) /\ sockets'[k].answers = Append(a, Head(r))
            /\ sockets'[k] = [requests |-> Tail(r), answers |-> Append(a, Head(r)),
                               gone |-> sockets[k].gone]
            /\ sockets'[k].gone = sockets[k].gone
        BY <2>1, <3>2 DEF PeerAnswers, SocketState
      <4>4. ~sockets[k].gone
        BY <1>1, <4>1 DEF StreamOwners
      <4> QED
        BY <2>1, <4>2, <4>3, <4>4 DEF SocketState
    <3> QED
      BY <1>3, <3>1, <3>2
  <2>5. sockets' \in Seq(SocketState)
    BY <1>1, <2>3, <2>4, ExceptSeq DEF StreamTypes
  <2>6. (Clean(k) => Clean(k)') /\ \A c \in PoolCalls : Carries(k, c) => Carries(k, c)'
    <3>1. CASE PeerEnds(k)
      BY <2>1, <3>1 DEF PeerEnds, SocketState, Clean, Carries
    <3>2. CASE PeerAnswers(k)
      <4>1. /\ sockets[k].requests # << >>
            /\ sockets'[k].requests = Tail(sockets[k].requests)
            /\ sockets'[k].answers = Append(sockets[k].answers, Head(sockets[k].requests))
        BY <2>1, <3>2 DEF PeerAnswers
      <4>2. ~Clean(k)
        BY <4>1 DEF Clean
      <4>3. ASSUME NEW c \in PoolCalls, Carries(k, c) PROVE Carries(k, c)'
        <5>1. sockets[k].requests = <<c>> /\ sockets[k].answers = << >>
          BY <4>1, <4>3 DEF Carries
        <5>2. sockets'[k].requests = << >> /\ sockets'[k].answers = <<c>>
          BY <4>1, <5>1
        <5> QED
          BY <5>2 DEF Carries
      <4> QED
        BY <4>2, <4>3
    <3> QED
      BY <1>3, <3>1, <3>2
  <2>7. StreamTypes'
    BY <1>1, <2>2, <2>5 DEF StreamTypes
  <2>8. StreamOwners'
    BY <1>1, <2>2, <2>3, <2>4 DEF StreamOwners
  <2>9. StreamContents'
    BY <1>1, <2>2, <2>3, <2>6 DEF StreamContents, StreamOwners, Clean, Carries, InExchange
  <2>10. StreamsInStep'
    BY <1>1, <2>2, <2>3, <2>6 DEF StreamsInStep, StreamOwners, Clean
  <2> QED
    BY <2>7, <2>8, <2>9, <2>10 DEF StreamInv
<1> QED
  BY <1>2, <1>3

(* The streams of UdsConnectionPool stay in step with their calls: none     *)
(* that goes back, after a failed exchange either, has anything in it, and  *)
(* nobody gets the answer to another call (pool.rs:166-173).                *)
THEOREM StreamsInStepCorrect == StreamPoolSpec => []StreamsInStep
<1>1. StreamPoolInit => StreamInv
  BY EmptySeq DEF StreamPoolInit, StreamInv, StreamTypes, StreamOwners, StreamContents,
                  StreamsInStep, InExchange
<1>2. StreamInv /\ [StreamPoolNext]_streamVars => StreamInv'
  <2> SUFFICES ASSUME StreamInv, [StreamPoolNext]_streamVars
               PROVE  StreamInv'
    OBVIOUS
  <2>1. CASE UNCHANGED streamVars
    BY <2>1 DEF streamVars, StreamInv, StreamTypes, StreamOwners, StreamContents,
                StreamsInStep, InExchange, Clean, Carries
  <2> QED
    BY <2>1, StreamCall, StreamPeer DEF StreamPoolNext
<1>3. StreamInv => StreamsInStep
  BY DEF StreamInv
<1> QED
  BY <1>1, <1>2, <1>3, PTL DEF StreamPoolSpec

(****************************************************************************)
(* TopicPool.  A topic has one client for good, whose mutex lets one call   *)
(* exchange at a time, and whose stream is the only one in which a request  *)
(* of the topic can be.  As long as the topic is undisturbed, that stream   *)
(* holds nothing but what the reading call is owed.                         *)
(****************************************************************************)
Undisturbed == Topics \ disturbed
Busy == {"send", "read"}
Quiet(k) == links[k].requests = << >> /\ links[k].answers = << >>
Owes(k, c) ==
  \/ links[k].requests = <<c>> /\ links[k].answers = << >>
  \/ links[k].requests = << >> /\ links[k].answers \in {<< >>, <<c>>}

LinkState == [requests : Seq(TopicCalls), answers : Seq(TopicCalls), gone : BOOLEAN]

TopicTypes ==
  /\ tpc \in [TopicCalls -> {"idle", "find", "join"} \cup InLine \cup Ended]
  /\ topic \in [TopicCalls -> Topics \cup {NoTopic}]
  /\ mine \in [TopicCalls -> TopicClients \cup {0}]
  /\ answered \in [TopicCalls -> TopicCalls \cup {"none", "error"}]
  /\ registry \in [Topics -> TopicClients \cup {0}]
  /\ ticket \in [TopicCalls -> Nat] /\ issued \in Nat
  /\ stream \in [TopicClients -> Nat]
  /\ links \in Seq(LinkState)
  /\ closes \in [at : {"no", "closing", "closed"}, left : SUBSET TopicClients,
                 client : TopicClients \cup {0}, ticket : Nat]
  /\ disturbed \subseteq Topics

\* The client of a call is its topic's, and no other topic's.
TopicOwners ==
  /\ \A c \in TopicCalls :
       /\ tpc[c] = "idle" => answered[c] = "none"
       /\ tpc[c] \in {"idle", "find"} => mine[c] = 0
       /\ tpc[c] \in {"join"} \cup InLine => mine[c] # 0
       /\ tpc[c] # "idle" => topic[c] \in Topics
       /\ mine[c] # 0 => tpc[c] # "idle" /\ mine[c] = registry[topic[c]]
  /\ \A t \in Topics : registry[t] # 0 => \E c \in TopicCalls : mine[c] = registry[t]
  /\ \A s, t \in Topics : s # t /\ registry[s] = registry[t] => registry[s] = 0

\* Tickets are given once; those in line have one.
TopicTickets ==
  /\ \A c \in TopicCalls : /\ ticket[c] <= issued
                           /\ tpc[c] \in InLine => ticket[c] # 0
                           /\ ticket[c] # 0 => tpc[c] \in InLine \cup Ended
  /\ \A c, d \in TopicCalls : c # d /\ ticket[c] = ticket[d] => ticket[c] = 0
  /\ closes.ticket <= issued
  /\ closes.client # 0 => closes.ticket # 0 /\ \A c \in TopicCalls : ticket[c] # closes.ticket

\* A client has a stream of its own.
TopicStreams ==
  /\ \A o \in TopicClients : stream[o] # 0 => stream[o] \in DOMAIN links
  /\ \A o \in Unused : stream[o] = 0
  /\ \A o, p \in TopicClients : o # p /\ stream[o] = stream[p] => stream[o] = 0

\* The call in its exchange is the first in line, on the stream of its client.
TopicTurns ==
  \A c \in TopicCalls : tpc[c] \in Busy =>
    stream[mine[c]] # 0 /\ First(mine[c], ticket[c])

\* The requests at the server are of calls that have written them.
TopicLinks ==
  \A k \in DOMAIN links :
    /\ links[k].gone => links[k].requests = << >>
    /\ \A c \in Range(links[k].requests) : tpc[c] \in {"read"} \cup Ended

\* What is in the streams of the undisturbed topics.
Reading(o) == {c \in TopicCalls : mine[c] = o /\ tpc[c] = "read"}
Tidy(o) ==
  stream[o] # 0 => /\ Reading(o) = {} => Quiet(stream[o])
                   /\ \A c \in Reading(o) : Owes(stream[o], c)
TopicContents == \A t \in Undisturbed : registry[t] # 0 => Tidy(registry[t])

\* Their calls have got their own answers; a request at the server is the reader's.
TopicAnswers ==
  \A c \in TopicCalls : topic[c] \in Undisturbed =>
    /\ answered[c] \in {c, "none", "error"}
    /\ \A k \in DOMAIN links : c \in Range(links[k].requests) =>
         tpc[c] = "read" /\ stream[mine[c]] = k

TopicInv ==
  /\ TopicTypes /\ TopicOwners /\ TopicTickets /\ TopicStreams /\ TopicTurns
  /\ TopicLinks /\ TopicContents /\ TopicAnswers

LEMMA Ranges ==
  ASSUME NEW S, NEW s \in Seq(S), NEW e \in S
  PROVE  /\ Range(<< >>) = {}
         /\ Range(Append(s, e)) = Range(s) \cup {e}
         /\ s # << >> => Range(Tail(s)) \subseteq Range(s)
<1>1. Range(<< >>) = {}
  BY DEF Range
<1>2. Range(Append(s, e)) = Range(s) \cup {e}
  <2> DEFINE a == Append(s, e)
             n == Len(s)
  <2>1. /\ n \in Nat /\ a \in Seq(S) /\ Len(a) = n + 1 /\ \A i \in 1..n : a[i] = s[i]
        /\ a[n + 1] = e
    BY AppendProperties, LenProperties
  <2>2. Range(a) = {a[i] : i \in 1..Len(a)} /\ Range(s) = {s[i] : i \in 1..n}
    BY <2>1, RangeEquality
  <2> HIDE DEF a, n
  <2>3. 1..n + 1 = 1..n \cup {n + 1}
    BY <2>1
  <2> QED
    BY <2>1, <2>2, <2>3 DEF a
<1>3. ASSUME s # << >> PROVE Range(Tail(s)) \subseteq Range(s)
  <2> DEFINE r == Tail(s)
             n == Len(r)
  <2>1. /\ r \in Seq(S) /\ n = Len(s) - 1 /\ n \in Nat /\ Len(s) \in Nat
        /\ \A i \in 1..n : r[i] = s[i + 1]
    BY <1>3, HeadTailProperties, LenProperties
  <2>2. Range(r) = {r[i] : i \in 1..n} /\ Range(s) = {s[i] : i \in 1..Len(s)}
    BY <2>1, RangeEquality
  <2> HIDE DEF r, n
  <2>3. \A i \in 1..n : i + 1 \in 1..Len(s)
    BY <2>1
  <2> QED
    BY <2>1, <2>2, <2>3 DEF r
<1> QED
  BY <1>1, <1>2, <1>3

LEMMA ClientsFinite == Cardinality(TopicCalls) \in Nat /\ 0 \notin TopicClients
BY TopicAssumption, FS_CardinalityType DEF TopicClients

(* Clients belong to topics, and a mutex to one call.                       *)
LEMMA TopicFacts ==
  ASSUME TopicInv
  PROVE  /\ \A c, d \in TopicCalls :
              c # d /\ mine[c] = mine[d] /\ tpc[c] \in Busy => tpc[d] \notin Busy
         /\ \A c \in TopicCalls, t \in Topics :
              mine[c] # 0 /\ mine[c] = registry[t] => topic[c] = t
         /\ \A c \in TopicCalls : tpc[c] \in Busy =>
              /\ mine[c] \in TopicClients /\ stream[mine[c]] \in DOMAIN links
              /\ topic[c] \in Topics /\ mine[c] = registry[topic[c]]
              /\ links[stream[mine[c]]] \in LinkState
         /\ \A c \in TopicCalls :
              closes.client # 0 /\ First(closes.client, closes.ticket)
                /\ mine[c] = closes.client => tpc[c] \notin Busy
<1>1. TopicTypes /\ TopicOwners /\ TopicTickets /\ TopicStreams /\ TopicTurns
  BY DEF TopicInv
<1>2. Busy \subseteq InLine
  BY DEF Busy, InLine
<1>3. ASSUME NEW c \in TopicCalls, NEW d \in TopicCalls, c # d, mine[c] = mine[d],
             tpc[c] \in Busy, tpc[d] \in Busy
      PROVE  FALSE
  <2>1. First(mine[c], ticket[c]) /\ First(mine[c], ticket[d])
    BY <1>1, <1>3 DEF TopicTurns
  <2>2. ticket[c] <= ticket[d] /\ ticket[d] <= ticket[c]
    BY <1>2, <1>3, <2>1 DEF First
  <2>3. ticket[c] = ticket[d]
    BY <1>1, <2>2 DEF TopicTypes
  <2> QED
    BY <1>1, <1>2, <1>3, <2>3 DEF TopicTickets
<1>4. \A c \in TopicCalls, t \in Topics :
        mine[c] # 0 /\ mine[c] = registry[t] => topic[c] = t
  BY <1>1 DEF TopicOwners
<1>5. ASSUME NEW c \in TopicCalls, tpc[c] \in Busy
      PROVE  /\ mine[c] \in TopicClients /\ stream[mine[c]] \in DOMAIN links
             /\ topic[c] \in Topics /\ mine[c] = registry[topic[c]]
             /\ links[stream[mine[c]]] \in LinkState
  <2>1. mine[c] # 0 /\ mine[c] \in TopicClients /\ tpc[c] # "idle"
    BY <1>1, <1>2, <1>5 DEF TopicOwners, TopicTypes, Busy
  <2>2. stream[mine[c]] \in DOMAIN links
    BY <1>1, <1>5, <2>1 DEF TopicStreams, TopicTurns
  <2> QED
    BY <1>1, <2>1, <2>2 DEF TopicOwners, TopicTypes
<1>6. ASSUME NEW c \in TopicCalls, closes.client # 0, First(closes.client, closes.ticket),
             mine[c] = closes.client, tpc[c] \in Busy
      PROVE  FALSE
  <2>1. closes.ticket <= ticket[c] /\ ticket[c] <= closes.ticket
    BY <1>1, <1>2, <1>6 DEF First, TopicTurns
  <2> QED
    BY <1>1, <1>6, <2>1 DEF TopicTypes, TopicTickets
<1> QED
  BY <1>3, <1>4, <1>5, <1>6

(* A step leaves tidy the streams that neither it nor its call has to do    *)
(* with, and a topic once undisturbed has always been.                      *)
LEMMA StaysTidy ==
  ASSUME NEW o, Tidy(o), stream'[o] = stream[o], Reading(o)' = Reading(o),
         stream[o] # 0 => links'[stream[o]] = links[stream[o]]
  PROVE  Tidy(o)'
BY DEF Tidy, Quiet, Owes

LEMMA TidyTopics ==
  ASSUME TopicTypes',
         \A t \in Undisturbed', o \in TopicClients : registry'[t] = o => Tidy(o)'
  PROVE  TopicContents'
BY DEF TopicContents, TopicTypes, Tidy, Quiet, Owes, Reading, Undisturbed

LEMMA StartsTopic ==
  ASSUME TopicInv, NEW c \in TopicCalls, StartTopic(c)
  PROVE  TopicInv'
<1>1. /\ TopicTypes /\ TopicOwners /\ TopicTickets /\ TopicStreams
      /\ TopicTurns /\ TopicLinks /\ TopicContents /\ TopicAnswers
  BY DEF TopicInv
<1>2. PICK t \in Topics : topic' = [topic EXCEPT ![c] = t]
  BY DEF StartTopic
<1>3. /\ tpc[c] = "idle" /\ tpc' = [tpc EXCEPT ![c] = "find"]
      /\ UNCHANGED <<mine, answered, registry, ticket, issued, stream, links, closes, disturbed>>
      /\ mine[c] = 0 /\ answered[c] = "none" /\ tpc'[c] = "find" /\ topic'[c] = t
      /\ ticket[c] = 0
  <2>1. /\ tpc[c] = "idle" /\ tpc' = [tpc EXCEPT ![c] = "find"]
        /\ UNCHANGED <<mine, answered, registry, ticket, issued, stream, links, closes, disturbed>>
    BY DEF StartTopic, TopicGoto
  <2>2. tpc'[c] = "find" /\ topic'[c] = t
    BY <1>1, <1>2, <2>1 DEF TopicTypes
  <2>3. mine[c] = 0 /\ answered[c] = "none"
    BY <1>1, <2>1 DEF TopicOwners
  <2>4. ticket[c] = 0
    BY <1>1, <2>1 DEF TopicTickets, InLine, Ended
  <2> QED
    BY <2>1, <2>2, <2>3, <2>4
<1>4. \A d \in TopicCalls \ {c} : tpc'[d] = tpc[d] /\ topic'[d] = topic[d]
  BY <1>1, <1>2, <1>3 DEF TopicTypes
<1>5. TopicTypes'
  BY <1>1, <1>2, <1>3 DEF TopicTypes
<1>6. TopicOwners'
  BY <1>1, <1>3, <1>4 DEF TopicOwners, InLine
<1>7. TopicTickets'
  BY <1>1, <1>3, <1>4 DEF TopicTickets, InLine
<1>8. TopicStreams'
  BY <1>1, <1>3 DEF TopicStreams, Unused
<1>11. TopicTurns'
  BY <1>1, <1>3, <1>4 DEF TopicTurns, First, InLine, Busy
<1>12. TopicLinks'
  BY <1>1, <1>3, <1>4 DEF TopicLinks, Ended
<1>9. TopicContents'
  <2>1. \A o : o # 0 => Reading(o)' = Reading(o)
    BY <1>3, <1>4 DEF Reading
  <2> QED
    BY <1>1, <1>3, <2>1, StaysTidy DEF TopicContents, Undisturbed
<1>10. TopicAnswers'
  BY <1>1, <1>3, <1>4 DEF TopicAnswers, TopicLinks, Undisturbed, Ended
<1> QED
  BY <1>5, <1>6, <1>7, <1>8, <1>9, <1>10, <1>11, <1>12 DEF TopicInv

LEMMA Finds ==
  ASSUME TopicInv, NEW c \in TopicCalls, Find(c)
  PROVE  TopicInv'
<1> DEFINE t == topic[c]
<1>1. /\ TopicTypes /\ TopicOwners /\ TopicTickets /\ TopicStreams
      /\ TopicTurns /\ TopicLinks /\ TopicContents /\ TopicAnswers
  BY DEF TopicInv
<1>2. PICK o \in TopicClients :
        /\ IF registry[t] = 0 THEN o \in Unused ELSE o = registry[t]
        /\ mine' = [mine EXCEPT ![c] = o] /\ registry' = [registry EXCEPT ![t] = o]
  BY DEF Find
<1>3. /\ tpc[c] = "find" /\ tpc' = [tpc EXCEPT ![c] = "join"] /\ tpc'[c] = "join"
      /\ UNCHANGED <<topic, answered, ticket, issued, stream, links, closes, disturbed>>
      /\ mine[c] = 0 /\ mine'[c] = o /\ t \in Topics /\ registry'[t] = o /\ o # 0
      /\ ticket[c] = 0
  <2>1. /\ tpc[c] = "find" /\ tpc' = [tpc EXCEPT ![c] = "join"]
        /\ UNCHANGED <<topic, answered, ticket, issued, stream, links, closes, disturbed>>
    BY DEF Find, TopicGoto
  <2>2. mine[c] = 0 /\ t \in Topics
    BY <1>1, <2>1 DEF TopicOwners
  <2>3. tpc'[c] = "join" /\ mine'[c] = o /\ registry'[t] = o
    BY <1>1, <1>2, <2>1, <2>2 DEF TopicTypes
  <2>4. ticket[c] = 0 /\ o # 0
    BY <1>1, <2>1, ClientsFinite DEF TopicTickets, InLine, Ended
  <2> QED
    BY <2>1, <2>2, <2>3, <2>4
<1>4. /\ \A d \in TopicCalls \ {c} : tpc'[d] = tpc[d] /\ mine'[d] = mine[d]
      /\ \A s \in Topics \ {t} : registry'[s] = registry[s]
  BY <1>1, <1>2, <1>3 DEF TopicTypes
<1>5. TopicTypes'
  BY <1>1, <1>2, <1>3 DEF TopicTypes
<1>6. \A s \in Topics \ {t} : registry[s] # o
  BY <1>1, <1>2, <1>3 DEF TopicOwners, Unused
<1>7. registry[t] # 0 => registry[t] = o
  BY <1>2
<1>8. TopicOwners'
  <2>1. \A d \in TopicCalls :
          /\ tpc'[d] = "idle" => answered'[d] = "none"
          /\ tpc'[d] \in {"idle", "find"} => mine'[d] = 0
          /\ tpc'[d] \in {"join"} \cup InLine => mine'[d] # 0
          /\ tpc'[d] # "idle" => topic'[d] \in Topics
    BY <1>1, <1>3, <1>4 DEF TopicOwners
  <2>2. ASSUME NEW d \in TopicCalls, mine'[d] # 0
        PROVE  tpc'[d] # "idle" /\ mine'[d] = registry'[topic'[d]]
    <3>1. CASE d = c
      BY <1>3, <3>1
    <3>2. CASE d # c
      BY <1>1, <1>3, <1>4, <1>7, <2>2, <3>2 DEF TopicOwners
    <3> QED
      BY <3>1, <3>2
  <2>3. \A s \in Topics : registry'[s] # 0 => \E d \in TopicCalls : mine'[d] = registry'[s]
    BY <1>1, <1>3, <1>4 DEF TopicOwners
  <2>4. \A s, u \in Topics : s # u /\ registry'[s] = registry'[u] => registry'[s] = 0
    BY <1>1, <1>3, <1>4, <1>6 DEF TopicOwners
  <2> QED
    BY <2>1, <2>2, <2>3, <2>4 DEF TopicOwners
<1>9. TopicTickets'
  BY <1>1, <1>3, <1>4 DEF TopicTickets, InLine
<1>10. TopicStreams'
  <2>1. Unused' \subseteq Unused
    BY <1>3, <1>4, ClientsFinite DEF Unused
  <2> QED
    BY <1>1, <1>3, <2>1 DEF TopicStreams
<1>13. TopicTurns'
  BY <1>1, <1>3, <1>4 DEF TopicTurns, First, InLine, Busy
<1>14. TopicLinks'
  BY <1>1, <1>3, <1>4 DEF TopicLinks, Ended
<1>11. TopicContents'
  <2>1. ASSUME NEW s \in Undisturbed, NEW p \in TopicClients, registry'[s] = p
        PROVE  Tidy(p)'
    <3>1. Reading(p)' = Reading(p)
      BY <1>3, <1>4 DEF Reading
    <3>2. CASE registry[s] = p
      <4>1. Tidy(p)
        BY <1>1, <3>2, ClientsFinite DEF TopicContents
      <4> QED
        BY <1>3, <3>1, <4>1, StaysTidy
    <3>3. CASE registry[s] # p
      <4>1. p = o /\ o \in Unused
        BY <1>2, <1>3, <1>4, <1>7, <2>1, <3>3 DEF Undisturbed
      <4> QED
        BY <1>1, <1>3, <4>1 DEF TopicStreams, Tidy
    <3> QED
      BY <3>2, <3>3
  <2> QED
    BY <1>3, <1>5, <2>1, TidyTopics DEF Undisturbed
<1>12. TopicAnswers'
  BY <1>1, <1>3, <1>4 DEF TopicAnswers, TopicLinks, Undisturbed, Ended
<1> QED
  BY <1>5, <1>8, <1>9, <1>10, <1>11, <1>12, <1>13, <1>14 DEF TopicInv

LEMMA Joins ==
  ASSUME TopicInv, NEW c \in TopicCalls, Join(c)
  PROVE  TopicInv'
<1>1. /\ TopicTypes /\ TopicOwners /\ TopicTickets /\ TopicStreams
      /\ TopicTurns /\ TopicLinks /\ TopicContents /\ TopicAnswers
  BY DEF TopicInv
<1>2. /\ tpc[c] = "join" /\ tpc' = [tpc EXCEPT ![c] = "wait"]
      /\ issued' = issued + 1 /\ ticket' = [ticket EXCEPT ![c] = issued + 1]
      /\ UNCHANGED <<topic, mine, answered, registry, stream, links, closes, disturbed>>
  BY DEF Join, TopicGoto
<1>3. /\ tpc'[c] = "wait" /\ ticket'[c] = issued + 1
      /\ \A d \in TopicCalls \ {c} : tpc'[d] = tpc[d] /\ ticket'[d] = ticket[d]
  BY <1>1, <1>2 DEF TopicTypes
<1>4. TopicTypes'
  BY <1>1, <1>2 DEF TopicTypes, InLine
<1>5. TopicOwners'
  BY <1>1, <1>2, <1>3 DEF TopicOwners, InLine
<1>6. issued \in Nat /\ closes.ticket \in Nat /\ \A d \in TopicCalls : ticket[d] \in Nat
  BY <1>1 DEF TopicTypes
<1>7. TopicTickets'
  <2>1. \A d \in TopicCalls : /\ ticket'[d] <= issued'
                              /\ tpc'[d] \in InLine => ticket'[d] # 0
                              /\ ticket'[d] # 0 => tpc'[d] \in InLine \cup Ended
    BY <1>1, <1>2, <1>3, <1>6 DEF TopicTickets, InLine
  <2>2. \A d \in TopicCalls : ticket[d] # issued + 1
    BY <1>1, <1>6 DEF TopicTickets
  <2>3. \A d, e \in TopicCalls : d # e /\ ticket'[d] = ticket'[e] => ticket'[d] = 0
    BY <1>1, <1>3, <2>2 DEF TopicTickets
  <2>4. closes'.ticket <= issued' /\ closes'.ticket # issued + 1
    BY <1>1, <1>2, <1>6 DEF TopicTickets
  <2>5. closes'.client # 0 =>
          closes'.ticket # 0 /\ \A d \in TopicCalls : ticket'[d] # closes'.ticket
    BY <1>1, <1>2, <1>3, <2>4 DEF TopicTickets
  <2> QED
    BY <2>1, <2>3, <2>4, <2>5 DEF TopicTickets
<1>8. TopicStreams'
  BY <1>1, <1>2 DEF TopicStreams, Unused
<1>9. TopicTurns'
  <2>1. \A d \in TopicCalls : ticket[d] <= issued + 1
    BY <1>1, <1>6 DEF TopicTickets
  <2>2. ASSUME NEW d \in TopicCalls, tpc'[d] \in Busy
        PROVE  /\ stream[mine[d]] # 0
               /\ \A e \in TopicCalls : mine[e] = mine[d] /\ tpc'[e] \in InLine =>
                    ticket'[d] <= ticket'[e]
               /\ closes.client = mine[d] => ticket'[d] <= closes.ticket
    <3>1. d # c /\ tpc[d] \in Busy
      BY <1>3, <2>2 DEF Busy
    <3>2. stream[mine[d]] # 0 /\ First(mine[d], ticket[d])
      BY <1>1, <3>1 DEF TopicTurns
    <3>3. \A e \in TopicCalls : mine[e] = mine[d] /\ tpc'[e] \in InLine =>
            ticket[d] <= ticket'[e]
      BY <1>3, <2>1, <3>2 DEF First
    <3> QED
      BY <1>3, <3>1, <3>2, <3>3 DEF First
  <2> QED
    BY <1>2, <2>2 DEF TopicTurns, First
<1>10. TopicLinks'
  BY <1>1, <1>2, <1>3 DEF TopicLinks, Ended
<1>11. TopicContents'
  <2>1. \A p : Reading(p)' = Reading(p)
    BY <1>2, <1>3 DEF Reading
  <2> QED
    BY <1>1, <1>2, <1>4, <2>1, StaysTidy, ClientsFinite, TidyTopics
       DEF TopicContents, Undisturbed
<1>12. TopicAnswers'
  BY <1>1, <1>2, <1>3 DEF TopicAnswers, Undisturbed
<1> QED
  BY <1>4, <1>5, <1>7, <1>8, <1>9, <1>10, <1>11, <1>12 DEF TopicInv

(* What a step of a call that is given its client has to see to: its own    *)
(* turn, its own stream, its own request.                                   *)
LEMMA CallMoves ==
  ASSUME TopicInv, NEW c \in TopicCalls, NEW o, o = mine[c],
         UNCHANGED <<topic, mine, registry, ticket, issued, closes>>,
         disturbed \subseteq disturbed', TopicTypes', TopicStreams', TopicLinks',
         \A d \in TopicCalls \ {c} : tpc'[d] = tpc[d] /\ answered'[d] = answered[d],
         tpc[c] # "idle",
         tpc'[c] \in Ended \/ (tpc[c] \in InLine /\ tpc'[c] \in InLine),
         tpc'[c] \in Busy => stream'[o] # 0 /\ First(o, ticket[c]),
         \A d \in TopicCalls \ {c} : tpc[d] \in Busy => stream'[mine[d]] = stream[mine[d]],
         \A p \in TopicClients \ {o} : stream'[p] = stream[p],
         \A k \in DOMAIN links :
           links'[k] = links[k] \/ (o # 0 /\ k = stream[o]),
         \A k \in DOMAIN links' : Range(links'[k].requests) \subseteq
           (IF k \in DOMAIN links THEN Range(links[k].requests) ELSE {}) \cup {c},
         topic[c] \in Undisturbed' =>
           /\ o # 0 => Tidy(o)'
           /\ answered'[c] \in {c, "none", "error"}
           /\ \A k \in DOMAIN links' : c \in Range(links'[k].requests) =>
                tpc'[c] = "read" /\ stream'[o] = k
  PROVE  TopicInv'
<1>1. /\ TopicTypes /\ TopicOwners /\ TopicTickets /\ TopicStreams
      /\ TopicTurns /\ TopicLinks /\ TopicContents /\ TopicAnswers
  BY DEF TopicInv
<1>2. TopicOwners'
  BY <1>1 DEF TopicOwners, InLine, Ended
<1>3. TopicTickets'
  <2>1. \A d \in TopicCalls : /\ tpc'[d] \in InLine => tpc[d] \in InLine
                              /\ tpc[d] \in InLine \cup Ended => tpc'[d] \in InLine \cup Ended
    BY DEF InLine, Ended
  <2> QED
    BY <1>1, <2>1 DEF TopicTickets
<1>4. TopicTurns'
  <2>1. \A d \in TopicCalls : tpc'[d] \in InLine => tpc[d] \in InLine
    BY DEF InLine, Ended
  <2>2. ASSUME NEW d \in TopicCalls, tpc'[d] \in Busy
        PROVE  stream'[mine[d]] # 0 /\ First(mine[d], ticket[d])
    <3>1. CASE d = c
      BY <2>2, <3>1
    <3>2. CASE d # c
      BY <1>1, <2>2, <3>2 DEF TopicTurns
    <3> QED
      BY <3>1, <3>2
  <2> QED
    BY <2>1, <2>2 DEF TopicTurns, First
<1>5. TopicContents'
  <2>1. ASSUME NEW t \in Undisturbed', NEW p \in TopicClients, registry'[t] = p
        PROVE  Tidy(p)'
    <3>1. t \in Undisturbed /\ t \in Topics /\ registry[t] = p /\ p # 0
      BY <2>1, ClientsFinite DEF Undisturbed
    <3>2. CASE p = o
      <4>1. topic[c] = t
        BY <3>1, <3>2, TopicFacts
      <4> QED
        BY <2>1, <3>1, <3>2, <4>1
    <3>3. CASE p # o
      <4>1. Reading(p)' = Reading(p)
        BY <3>3 DEF Reading
      <4>2. Tidy(p)
        BY <1>1, <3>1 DEF TopicContents
      <4>3. stream'[p] = stream[p]
        BY <3>3
      <4>4. stream[p] # 0 => links'[stream[p]] = links[stream[p]]
        <5>1. o # 0 => o \in TopicClients
          BY <1>1 DEF TopicTypes
        <5> QED
          BY <1>1, <3>3, <5>1 DEF TopicStreams
      <4> QED
        BY <4>1, <4>2, <4>3, <4>4, StaysTidy
    <3> QED
      BY <3>2, <3>3
  <2> QED
    BY <2>1, TidyTopics
<1>6. TopicAnswers'
  <2> SUFFICES ASSUME NEW d \in TopicCalls, topic[d] \in Undisturbed'
               PROVE  /\ answered'[d] \in {d, "none", "error"}
                      /\ \A k \in DOMAIN links' : d \in Range(links'[k].requests) =>
                           tpc'[d] = "read" /\ stream'[mine[d]] = k
    BY DEF TopicAnswers
  <2>1. CASE d = c
    BY <2>1
  <2>2. CASE d # c
    <3>1. topic[d] \in Undisturbed
      BY DEF Undisturbed
    <3> QED
      BY <1>1, <2>2, <3>1 DEF TopicAnswers, Busy
  <2> QED
    BY <2>1, <2>2
<1> QED
  BY <1>2, <1>3, <1>4, <1>5, <1>6 DEF TopicInv

LEMMA RequestsOfCalls ==
  ASSUME TopicTypes, NEW k \in DOMAIN links
  PROVE  /\ links[k] \in LinkState
         /\ links[k].requests \in Seq(TopicCalls) /\ links[k].answers \in Seq(TopicCalls)
         /\ Range(links[k].requests) \subseteq TopicCalls
<1>1. links[k] \in LinkState
  BY DEF TopicTypes
<1>2. links[k].requests \in Seq(TopicCalls) /\ links[k].answers \in Seq(TopicCalls)
  BY <1>1 DEF LinkState
<1>3. PICK s : s = links[k].requests
  OBVIOUS
<1>4. Range(s) = {s[i] : i \in DOMAIN s} /\ \A i \in DOMAIN s : s[i] \in TopicCalls
  BY <1>2, <1>3 DEF Range
<1> QED
  BY <1>1, <1>2, <1>3, <1>4

LEMMA LinkSet ==
  ASSUME NEW S, NEW s \in Seq(S), NEW i \in DOMAIN s, NEW e \in S
  PROVE  [s EXCEPT ![i] = e] \in Seq(S)
BY ExceptSeq

LEMMA Connects ==
  ASSUME TopicInv, NEW c \in TopicCalls, Connect(c)
  PROVE  TopicInv'
<1>0. PICK o : o = mine[c]
  OBVIOUS
<1>1. /\ TopicTypes /\ TopicOwners /\ TopicTickets /\ TopicStreams
      /\ TopicTurns /\ TopicLinks /\ TopicContents /\ TopicAnswers
  BY DEF TopicInv
<1>2. /\ tpc[c] = "wait" /\ First(o, ticket[c])
      /\ UNCHANGED <<topic, mine, registry, ticket, issued, closes, disturbed>>
  BY <1>0 DEF Connect
<1>3. /\ o # 0 /\ o \in TopicClients /\ topic[c] \in Topics /\ tpc[c] # "idle"
      /\ tpc[c] \in InLine /\ tpc[c] \notin Busy
  BY <1>0, <1>1, <1>2 DEF TopicTypes, TopicOwners, InLine, Busy
<1>4. topic[c] \in Undisturbed' =>
        /\ answered[c] \in {c, "none", "error"} /\ Tidy(o)
        /\ \A k \in DOMAIN links : c \notin Range(links[k].requests)
  <2> SUFFICES ASSUME topic[c] \in Undisturbed
               PROVE  /\ answered[c] \in {c, "none", "error"} /\ Tidy(o)
                      /\ \A k \in DOMAIN links : c \notin Range(links[k].requests)
    BY <1>0, <1>2 DEF Undisturbed
  <2>1. o = registry[topic[c]]
    BY <1>0, <1>1, <1>3 DEF TopicOwners
  <2> QED
    BY <1>0, <1>1, <1>2, <1>3, <2>1 DEF TopicAnswers, TopicContents
<1>5. ASSUME NEW l \in {"send", "done"}, tpc' = [tpc EXCEPT ![c] = l]
      PROVE  /\ tpc'[c] = l /\ (\A d \in TopicCalls \ {c} : tpc'[d] = tpc[d])
             /\ Reading(o)' = Reading(o)
             /\ tpc' \in [TopicCalls -> {"idle", "find", "join"} \cup InLine \cup Ended]
  <2>1. tpc'[c] = l /\ \A d \in TopicCalls \ {c} : tpc'[d] = tpc[d]
    BY <1>0, <1>1, <1>5 DEF TopicTypes
  <2>2. tpc' \in [TopicCalls -> {"idle", "find", "join"} \cup InLine \cup Ended]
    BY <1>0, <1>1, <1>5 DEF TopicTypes, InLine, Ended
  <2> QED
    BY <1>0, <1>2, <2>1, <2>2 DEF Reading
<1>6. CASE stream[o] # 0 /\ TopicGoto(c, "send") /\ UNCHANGED <<answered, stream, links>>
  <2>1. tpc' = [tpc EXCEPT ![c] = "send"]
    BY <1>0, <1>6 DEF TopicGoto
  <2>2. TopicTypes'
    BY <1>0, <1>1, <1>2, <1>5, <1>6, <2>1 DEF TopicTypes
  <2>3. TopicStreams'
    BY <1>0, <1>1, <1>2, <1>6 DEF TopicStreams, Unused
  <2>4. TopicLinks'
    BY <1>0, <1>1, <1>2, <1>5, <1>6, <2>1 DEF TopicLinks, Ended
  <2>5. topic[c] \in Undisturbed' => Tidy(o)'
    BY <1>0, <1>4, <1>5, <1>6, <2>1, StaysTidy
  <2>6. "send" \in InLine
    BY DEF InLine
  <2> QED
    BY <1>0, <1>2, <1>3, <1>4, <1>5, <1>6, <2>1, <2>2, <2>3, <2>4, <2>5, <2>6, CallMoves
<1>7. CASE stream[o] = 0 /\ ReturnTopic(c, "error") /\ UNCHANGED <<stream, links>>
  <2>1. tpc' = [tpc EXCEPT ![c] = "done"] /\ answered' = [answered EXCEPT ![c] = "error"]
    BY <1>0, <1>7 DEF TopicGoto, ReturnTopic
  <2>2. TopicTypes' /\ answered'[c] = "error"
        /\ \A d \in TopicCalls \ {c} : answered'[d] = answered[d]
    BY <1>0, <1>1, <1>2, <1>5, <1>7, <2>1 DEF TopicTypes
  <2>3. TopicStreams'
    BY <1>0, <1>1, <1>2, <1>7 DEF TopicStreams, Unused
  <2>4. TopicLinks'
    BY <1>0, <1>1, <1>2, <1>5, <1>7, <2>1 DEF TopicLinks, Ended
  <2>5. topic[c] \in Undisturbed' => Tidy(o)'
    BY <1>0, <1>4, <1>5, <1>7, <2>1, StaysTidy
  <2>6. "done" \in Ended /\ "done" \notin Busy
    BY DEF Ended, Busy
  <2> QED
    BY <1>0, <1>2, <1>3, <1>4, <1>5, <1>7, <2>1, <2>2, <2>3, <2>4, <2>5, <2>6, CallMoves
<1>8. ASSUME NEW l, l = [requests |-> << >>, answers |-> << >>, gone |-> FALSE],
             stream[o] = 0, links' = Append(links, l),
             stream' = [stream EXCEPT ![o] = Len(links) + 1],
             TopicGoto(c, "send"), UNCHANGED answered
      PROVE  TopicInv'
  <2>0. PICK n : n = Len(links) + 1
    OBVIOUS
  <2>1. /\ tpc' = [tpc EXCEPT ![c] = "send"] /\ tpc'[c] = "send"
        /\ \A d \in TopicCalls \ {c} : tpc'[d] = tpc[d]
        /\ Reading(o)' = Reading(o)
        /\ tpc' \in [TopicCalls -> {"idle", "find", "join"} \cup InLine \cup Ended]
    BY <1>5, <1>8 DEF TopicGoto
  <2>2. l \in LinkState /\ Range(l.requests) = {}
    BY <1>0, <1>8 DEF LinkState, Range
  <2>3. /\ links' \in Seq(LinkState) /\ n \in Nat /\ n # 0 /\ n \notin DOMAIN links
        /\ DOMAIN links' = DOMAIN links \cup {n} /\ links'[n] = l
        /\ \A j \in DOMAIN links : links'[j] = links[j]
    BY <1>1, <1>8, <2>0, <2>2, AppendProperties, LenProperties DEF TopicTypes
  <2>4. stream' = [stream EXCEPT ![o] = n]
    BY <1>8, <2>0
  <2>5. stream'[o] = n /\ \A p \in TopicClients \ {o} : stream'[p] = stream[p]
    BY <1>0, <1>1, <1>3, <2>4 DEF TopicTypes
  <2>6. TopicTypes'
    <3>1. stream' \in [TopicClients -> Nat]
      BY <1>1, <2>3, <2>4 DEF TopicTypes
    <3> QED
      BY <1>1, <1>2, <1>8, <2>1, <2>3, <3>1 DEF TopicTypes
  <2>7. TopicStreams'
    <3>1. \A p \in TopicClients : stream'[p] # 0 => stream'[p] \in DOMAIN links'
      BY <1>0, <1>1, <2>3, <2>5 DEF TopicStreams
    <3>2. \A p \in Unused' : stream'[p] = 0
      BY <1>0, <1>1, <1>2, <2>5 DEF TopicStreams, Unused
    <3>3. \A p, q \in TopicClients : p # q /\ stream'[p] = stream'[q] => stream'[p] = 0
      BY <1>0, <1>1, <2>3, <2>5 DEF TopicStreams
    <3> QED
      BY <1>0, <3>1, <3>2, <3>3 DEF TopicStreams
  <2>8. TopicLinks'
    BY <1>0, <1>1, <1>2, <1>5, <1>8, <2>1, <2>2, <2>3 DEF TopicLinks, Ended
  <2>9. \A d \in TopicCalls : mine[d] = o => tpc[d] \notin Busy
    BY <1>0, <1>1, <1>8 DEF TopicTurns
  <2>10. Tidy(o)'
    <3>1. Reading(o)' = {}
      BY <2>1, <2>9 DEF Reading, Busy
    <3>2. Quiet(n)'
      BY <1>8, <2>3 DEF Quiet
    <3> QED
      BY <2>5, <3>1, <3>2 DEF Tidy, Quiet
  <2>11. \A d \in TopicCalls \ {c} : tpc[d] \in Busy => stream'[mine[d]] = stream[mine[d]]
    BY <1>0, <2>5, <2>9, TopicFacts
  <2>12. /\ "send" \in InLine
         /\ \A k \in DOMAIN links' : Range(links'[k].requests) \subseteq
              (IF k \in DOMAIN links THEN Range(links[k].requests) ELSE {}) \cup {c}
    BY <1>0, <2>2, <2>3 DEF InLine
  <2>13. topic[c] \in Undisturbed' => \A k \in DOMAIN links' : c \notin Range(links'[k].requests)
    BY <1>0, <1>4, <2>2, <2>3
  <2>14. /\ \A d \in TopicCalls \ {c} : tpc'[d] = tpc[d] /\ answered'[d] = answered[d]
         /\ tpc[c] \in InLine /\ tpc'[c] \in InLine
         /\ stream'[o] # 0 /\ First(o, ticket[c]) /\ disturbed \subseteq disturbed'
    BY <1>2, <1>3, <1>8, <2>1, <2>3, <2>5, <2>12
  <2>15. topic[c] \in Undisturbed' =>
           /\ o # 0 => Tidy(o)'
           /\ answered'[c] \in {c, "none", "error"}
           /\ \A k \in DOMAIN links' : c \in Range(links'[k].requests) =>
                tpc'[c] = "read" /\ stream'[o] = k
    BY <1>4, <1>8, <2>10, <2>13
  <2>16. \A k \in DOMAIN links : links'[k] = links[k] \/ (o # 0 /\ k = stream[o])
    BY <2>3
  <2>17. UNCHANGED <<topic, mine, registry, ticket, issued, closes>> /\ tpc[c] # "idle"
    BY <1>2, <1>3
  <2>18. \A p \in TopicClients \ {o} : stream'[p] = stream[p]
    BY <2>5
  <2>19. \A k \in DOMAIN links' : Range(links'[k].requests) \subseteq
           (IF k \in DOMAIN links THEN Range(links[k].requests) ELSE {}) \cup {c}
    BY <2>12
  <2> QED
    BY <1>0, <2>6, <2>7, <2>8, <2>11, <2>14, <2>15, <2>16, <2>17, <2>18, <2>19, CallMoves
<1> QED
  BY <1>0, <1>6, <1>7, <1>8 DEF Connect

LEMMA Sends ==
  ASSUME TopicInv, NEW c \in TopicCalls, Send(c)
  PROVE  TopicInv'
<1>0. PICK o, k : o = mine[c] /\ k = stream[o]
  OBVIOUS
<1>1. /\ TopicTypes /\ TopicOwners /\ TopicTickets /\ TopicStreams
      /\ TopicTurns /\ TopicLinks /\ TopicContents /\ TopicAnswers
  BY DEF TopicInv
<1>2. /\ tpc[c] = "send" /\ ~links[k].gone
      /\ links' = [links EXCEPT ![k].requests = Append(@, c)]
      /\ tpc' = [tpc EXCEPT ![c] = "read"]
      /\ UNCHANGED <<topic, mine, answered, registry, ticket, issued, stream, closes, disturbed>>
  BY <1>0 DEF Send, Link, TopicGoto
<1>3. /\ tpc[c] \in Busy /\ tpc[c] \in InLine /\ "read" \in InLine /\ tpc[c] # "idle"
  BY <1>0, <1>2 DEF Busy, InLine
<1>4. /\ o \in TopicClients /\ k \in DOMAIN links /\ o # 0 /\ k # 0
      /\ o = registry[topic[c]] /\ links[k] \in LinkState /\ First(o, ticket[c])
  BY <1>0, <1>1, <1>3, TopicFacts, ClientsFinite DEF TopicTurns
<1>5. tpc'[c] = "read" /\ \A d \in TopicCalls \ {c} : tpc'[d] = tpc[d]
  BY <1>0, <1>1, <1>2 DEF TopicTypes
<1>6. /\ DOMAIN links' = DOMAIN links /\ \A j \in DOMAIN links \ {k} : links'[j] = links[j]
      /\ links'[k] = [links[k] EXCEPT !.requests = Append(@, c)]
  BY <1>0, <1>2, <1>4
<1>7. links[k].requests \in Seq(TopicCalls) /\ links'[k].requests = Append(links[k].requests, c)
      /\ links'[k].answers = links[k].answers /\ ~links'[k].gone
  BY <1>0, <1>2, <1>4, <1>6 DEF LinkState
<1>8. /\ links'[k] \in LinkState
      /\ Range(links'[k].requests) = Range(links[k].requests) \cup {c}
  <2>1. /\ Append(links[k].requests, c) \in Seq(TopicCalls)
        /\ Range(Append(links[k].requests, c)) = Range(links[k].requests) \cup {c}
    BY <1>7, AppendProperties, Ranges
  <2> QED
    BY <1>4, <1>6, <1>7, <2>1 DEF LinkState
<1>9. TopicTypes'
  <2>1. PICK l : l = links'[k]
    OBVIOUS
  <2>2. links' = [links EXCEPT ![k] = l] /\ l \in LinkState
    BY <1>2, <1>8, <2>1
  <2>3. links \in Seq(LinkState)
    BY <1>1 DEF TopicTypes
  <2>4. links' \in Seq(LinkState)
    BY <1>4, <2>2, <2>3, LinkSet
  <2> QED
    BY <1>1, <1>2, <1>3, <2>4 DEF TopicTypes
<1>10. TopicStreams'
  BY <1>0, <1>1, <1>2, <1>6 DEF TopicStreams, Unused
<1>11. TopicLinks'
  <2>1. ASSUME NEW j \in DOMAIN links'
        PROVE  /\ links'[j].gone => links'[j].requests = << >>
               /\ \A d \in Range(links'[j].requests) : tpc'[d] \in {"read"} \cup Ended
    <3>0. /\ j \in DOMAIN links
          /\ links[j].gone => links[j].requests = << >>
          /\ \A d \in Range(links[j].requests) : tpc[d] \in {"read"} \cup Ended
          /\ \A d \in Range(links[j].requests) : tpc'[d] \in {"read"} \cup Ended
      <4>1. /\ j \in DOMAIN links
            /\ links[j].gone => links[j].requests = << >>
            /\ \A d \in Range(links[j].requests) : tpc[d] \in {"read"} \cup Ended
        BY <1>1, <1>6 DEF TopicLinks
      <4>2. Range(links[j].requests) \subseteq TopicCalls
        BY <1>1, <4>1, RequestsOfCalls
      <4> QED
        BY <1>5, <4>1, <4>2
    <3>1. CASE j = k
      BY <1>5, <1>7, <1>8, <3>0, <3>1
    <3>2. CASE j # k
      BY <1>6, <3>0, <3>2
    <3> QED
      BY <3>1, <3>2
  <2> QED
    BY <2>1 DEF TopicLinks
<1>12. topic[c] \in Undisturbed' =>
         /\ answered[c] \in {c, "none", "error"} /\ Tidy(o)'
         /\ \A j \in DOMAIN links' : c \in Range(links'[j].requests) => j = k
  <2> SUFFICES ASSUME topic[c] \in Undisturbed
               PROVE  /\ answered[c] \in {c, "none", "error"} /\ Tidy(o)'
                      /\ \A j \in DOMAIN links' : c \in Range(links'[j].requests) => j = k
    BY <1>0, <1>2 DEF Undisturbed
  <2>1. Reading(o) = {}
    BY <1>0, <1>2, <1>3, TopicFacts DEF Reading, Busy
  <2>2. Quiet(k)
    BY <1>0, <1>1, <1>4, <2>1 DEF TopicContents, Tidy
  <2>3. links'[k].requests = <<c>> /\ links'[k].answers = << >>
    BY <1>0, <1>7, <2>2 DEF Quiet
  <2>4. Reading(o)' = {c}
    BY <1>0, <1>2, <1>5, <2>1 DEF Reading
  <2>5. Tidy(o)'
    BY <1>0, <1>2, <2>3, <2>4 DEF Tidy, Owes
  <2> QED
    BY <1>0, <1>1, <1>6, <2>5 DEF TopicAnswers
<1>13. \A j \in DOMAIN links' : Range(links'[j].requests) \subseteq
         (IF j \in DOMAIN links THEN Range(links[j].requests) ELSE {}) \cup {c}
  BY <1>6, <1>8
<1>14. /\ \A d \in TopicCalls \ {c} : tpc'[d] = tpc[d] /\ answered'[d] = answered[d]
       /\ tpc[c] \in InLine /\ tpc'[c] \in InLine /\ disturbed \subseteq disturbed'
       /\ stream'[o] # 0 /\ First(o, ticket[c])
       /\ \A d \in TopicCalls \ {c} : stream'[mine[d]] = stream[mine[d]]
       /\ \A p \in TopicClients \ {o} : stream'[p] = stream[p]
  BY <1>0, <1>2, <1>3, <1>4, <1>5
<1>15. topic[c] \in Undisturbed' =>
         /\ o # 0 => Tidy(o)'
         /\ answered'[c] \in {c, "none", "error"}
         /\ \A j \in DOMAIN links' : c \in Range(links'[j].requests) =>
              tpc'[c] = "read" /\ stream'[o] = j
  BY <1>0, <1>2, <1>5, <1>12
<1>16. \A j \in DOMAIN links : links'[j] = links[j] \/ (o # 0 /\ j = stream[o])
  BY <1>0, <1>4, <1>6
<1>17. UNCHANGED <<topic, mine, registry, ticket, issued, closes>> /\ tpc[c] # "idle"
  BY <1>2, <1>3
<1> QED
  BY <1>0, <1>9, <1>10, <1>11, <1>13, <1>14, <1>15, <1>16, <1>17, CallMoves

(* Setting one connection keeps the shape of the others.                    *)
LEMMA LinkMoves ==
  ASSUME TopicTypes, NEW k \in DOMAIN links, NEW l \in LinkState,
         links' = [links EXCEPT ![k] = l]
  PROVE  /\ links' \in Seq(LinkState) /\ DOMAIN links' = DOMAIN links /\ links'[k] = l
         /\ \A j \in DOMAIN links \ {k} : links'[j] = links[j]
<1>1. links \in Seq(LinkState)
  BY DEF TopicTypes
<1>2. links' \in Seq(LinkState)
  BY <1>1, LinkSet
<1> QED
  BY <1>2

LEMMA Receives ==
  ASSUME TopicInv, NEW c \in TopicCalls, Receive(c)
  PROVE  TopicInv'
<1>0. PICK o, k : o = mine[c] /\ k = stream[o]
  OBVIOUS
<1>000. PICK a : a = links[k].answers
  OBVIOUS
<1>1. /\ TopicTypes /\ TopicOwners /\ TopicTickets /\ TopicStreams
      /\ TopicTurns /\ TopicLinks /\ TopicContents /\ TopicAnswers
  BY DEF TopicInv
<1>2. /\ tpc[c] = "read" /\ a # << >>
      /\ links' = [links EXCEPT ![k].answers = Tail(@)]
      /\ tpc' = [tpc EXCEPT ![c] = "done"]
      /\ answered' = [answered EXCEPT ![c] = Head(a)]
      /\ UNCHANGED <<topic, mine, registry, ticket, issued, stream, closes, disturbed>>
  BY <1>0, <1>000 DEF Receive, Link, TopicGoto, ReturnTopic
<1>3. /\ tpc[c] \in Busy /\ "done" \notin Busy /\ "done" \in Ended /\ "done" \notin InLine
      /\ tpc[c] # "idle"
  BY <1>2 DEF Busy, Ended, InLine
<1>4. /\ o \in TopicClients /\ k \in DOMAIN links /\ o # 0 /\ k # 0
      /\ o = registry[topic[c]] /\ links[k] \in LinkState
  BY <1>0, <1>1, <1>3, TopicFacts, ClientsFinite DEF TopicTurns
<1>5. tpc'[c] = "done" /\ \A d \in TopicCalls \ {c} : tpc'[d] = tpc[d]
  BY <1>1, <1>2 DEF TopicTypes
<1>6. /\ a \in Seq(TopicCalls) /\ Tail(a) \in Seq(TopicCalls) /\ Head(a) \in TopicCalls
  BY <1>000, <1>1, <1>2, <1>4, RequestsOfCalls, HeadTailProperties
<1>7. PICK l : l = [links[k] EXCEPT !.answers = Tail(a)]
  OBVIOUS
<1>8. /\ links' = [links EXCEPT ![k] = l] /\ l \in LinkState
      /\ l.requests = links[k].requests /\ l.answers = Tail(a) /\ l.gone = links[k].gone
  BY <1>000, <1>2, <1>4, <1>6, <1>7 DEF LinkState
<1>9. /\ links' \in Seq(LinkState) /\ DOMAIN links' = DOMAIN links /\ links'[k] = l
      /\ \A j \in DOMAIN links \ {k} : links'[j] = links[j]
  BY <1>1, <1>4, <1>8, LinkMoves
<1>10. /\ answered'[c] = Head(a)
       /\ \A d \in TopicCalls \ {c} : answered'[d] = answered[d]
       /\ answered' \in [TopicCalls -> TopicCalls \cup {"none", "error"}]
  BY <1>1, <1>2, <1>6 DEF TopicTypes
<1>11. tpc' \in [TopicCalls -> {"idle", "find", "join"} \cup InLine \cup Ended]
  BY <1>1, <1>2, <1>3 DEF TopicTypes
<1>12. TopicTypes'
  BY <1>1, <1>2, <1>9, <1>10, <1>11 DEF TopicTypes
<1>13. TopicStreams'
  BY <1>1, <1>2, <1>9 DEF TopicStreams, Unused
<1>14. \A j \in DOMAIN links : /\ links'[j].requests = links[j].requests
                               /\ links'[j].gone = links[j].gone
  BY <1>8, <1>9
<1>15. TopicLinks'
  <2>1. ASSUME NEW j \in DOMAIN links'
        PROVE  /\ links'[j].gone => links'[j].requests = << >>
               /\ \A d \in Range(links'[j].requests) : tpc'[d] \in {"read"} \cup Ended
    <3>1. Range(links[j].requests) \subseteq TopicCalls
      BY <1>1, <1>9, <2>1, RequestsOfCalls
    <3>2. /\ links[j].gone => links[j].requests = << >>
          /\ \A d \in Range(links[j].requests) : tpc[d] \in {"read"} \cup Ended
      BY <1>1, <1>9, <2>1 DEF TopicLinks
    <3> QED
      BY <1>3, <1>5, <1>9, <1>14, <3>1, <3>2
  <2> QED
    BY <2>1 DEF TopicLinks
<1>16. topic[c] \in Undisturbed' =>
         /\ answered'[c] \in {c, "none", "error"} /\ Tidy(o)'
         /\ \A j \in DOMAIN links' : c \notin Range(links'[j].requests)
  <2> SUFFICES ASSUME topic[c] \in Undisturbed
               PROVE  /\ answered'[c] \in {c, "none", "error"} /\ Tidy(o)'
                      /\ \A j \in DOMAIN links' : c \notin Range(links'[j].requests)
    BY <1>2 DEF Undisturbed
  <2>1. c \in Reading(o)
    BY <1>0, <1>2 DEF Reading
  <2>2. Owes(k, c)
    BY <1>0, <1>1, <1>4, <2>1 DEF TopicContents, Tidy
  <2>3. a = <<c>> /\ links[k].requests = << >>
    BY <1>000, <1>2, <2>2 DEF Owes
  <2>4. Reading(o)' = {}
    BY <1>0, <1>2, <1>3, <1>5, TopicFacts DEF Reading, Busy
  <2>5. Quiet(k)'
    BY <1>8, <1>9, <2>3 DEF Quiet
  <2>6. Tidy(o)'
    BY <1>0, <1>2, <2>4, <2>5 DEF Tidy, Quiet
  <2>7. \A j \in DOMAIN links : c \notin Range(links[j].requests)
    BY <1>0, <1>1, <2>3 DEF TopicAnswers, Range
  <2> QED
    BY <1>9, <1>10, <1>14, <2>3, <2>6, <2>7
<1>17. /\ \A d \in TopicCalls \ {c} : tpc'[d] = tpc[d] /\ answered'[d] = answered[d]
       /\ tpc'[c] \in Ended /\ tpc'[c] \notin Busy /\ disturbed \subseteq disturbed'
       /\ \A d \in TopicCalls \ {c} : stream'[mine[d]] = stream[mine[d]]
       /\ \A p \in TopicClients \ {o} : stream'[p] = stream[p]
  BY <1>2, <1>3, <1>5, <1>10
<1>18. topic[c] \in Undisturbed' =>
         /\ o # 0 => Tidy(o)'
         /\ answered'[c] \in {c, "none", "error"}
         /\ \A j \in DOMAIN links' : c \in Range(links'[j].requests) =>
              tpc'[c] = "read" /\ stream'[o] = j
  BY <1>16
<1>19. \A j \in DOMAIN links : links'[j] = links[j] \/ (o # 0 /\ j = stream[o])
  BY <1>0, <1>4, <1>9
<1>20. \A j \in DOMAIN links' : Range(links'[j].requests) \subseteq
         (IF j \in DOMAIN links THEN Range(links[j].requests) ELSE {}) \cup {c}
  BY <1>9, <1>14
<1>21. UNCHANGED <<topic, mine, registry, ticket, issued, closes>> /\ tpc[c] # "idle"
  BY <1>2, <1>3
<1> QED
  BY <1>0, <1>12, <1>13, <1>15, <1>17, <1>18, <1>19, <1>20, <1>21, CallMoves

LEMMA Fails ==
  ASSUME TopicInv, NEW c \in TopicCalls, Fail(c)
  PROVE  TopicInv'
<1>0. PICK o, k : o = mine[c] /\ k = stream[o]
  OBVIOUS
<1>1. /\ TopicTypes /\ TopicOwners /\ TopicTickets /\ TopicStreams
      /\ TopicTurns /\ TopicLinks /\ TopicContents /\ TopicAnswers
  BY DEF TopicInv
<1>2. /\ tpc[c] = "read" \/ (tpc[c] = "send" /\ links[k].gone)
      /\ tpc' = [tpc EXCEPT ![c] = "done"]
      /\ answered' = [answered EXCEPT ![c] = "error"]
      /\ stream' = [stream EXCEPT ![o] = 0]
      /\ disturbed' = IF links[k].gone \/ links[k].answers # << >>
                        THEN disturbed ELSE disturbed \cup {topic[c]}
      /\ UNCHANGED <<topic, mine, registry, ticket, issued, links, closes>>
  BY <1>0 DEF Fail, Link, TopicGoto, ReturnTopic
<1>3. /\ tpc[c] \in Busy /\ "done" \notin Busy /\ "done" \in Ended /\ "done" \notin InLine
      /\ tpc[c] # "idle"
  BY <1>2 DEF Busy, Ended, InLine
<1>4. /\ o \in TopicClients /\ k \in DOMAIN links /\ o # 0 /\ k # 0
      /\ topic[c] \in Topics /\ o = registry[topic[c]]
  BY <1>0, <1>1, <1>3, TopicFacts, ClientsFinite DEF TopicTurns
<1>5. tpc'[c] = "done" /\ \A d \in TopicCalls \ {c} : tpc'[d] = tpc[d]
  BY <1>1, <1>2 DEF TopicTypes
<1>6. /\ answered'[c] = "error"
      /\ \A d \in TopicCalls \ {c} : answered'[d] = answered[d]
      /\ answered' \in [TopicCalls -> TopicCalls \cup {"none", "error"}]
  BY <1>1, <1>2 DEF TopicTypes
<1>7. tpc' \in [TopicCalls -> {"idle", "find", "join"} \cup InLine \cup Ended]
  BY <1>1, <1>2, <1>3 DEF TopicTypes
<1>8. /\ stream'[o] = 0 /\ \A p \in TopicClients \ {o} : stream'[p] = stream[p]
      /\ stream' \in [TopicClients -> Nat]
  BY <1>1, <1>2, <1>4 DEF TopicTypes
<1>9. /\ disturbed \subseteq disturbed' /\ disturbed' \subseteq disturbed \cup {topic[c]}
      /\ topic[c] \notin disturbed' => links[k].gone \/ links[k].answers # << >>
  BY <1>2
<1>10. TopicTypes'
  <2>1. disturbed' \subseteq Topics
    BY <1>1, <1>4, <1>9 DEF TopicTypes
  <2> QED
    BY <1>1, <1>2, <1>6, <1>7, <1>8, <2>1 DEF TopicTypes
<1>11. TopicStreams'
  BY <1>1, <1>2, <1>8 DEF TopicStreams, Unused
<1>12. TopicLinks'
  <2>1. ASSUME NEW j \in DOMAIN links
        PROVE  /\ links[j].gone => links[j].requests = << >>
               /\ \A d \in Range(links[j].requests) : tpc'[d] \in {"read"} \cup Ended
    <3>1. Range(links[j].requests) \subseteq TopicCalls
      BY <1>1, RequestsOfCalls
    <3>2. /\ links[j].gone => links[j].requests = << >>
          /\ \A d \in Range(links[j].requests) : tpc[d] \in {"read"} \cup Ended
      BY <1>1, <2>1 DEF TopicLinks
    <3> QED
      BY <1>3, <1>5, <3>1, <3>2
  <2> QED
    BY <1>2, <2>1 DEF TopicLinks
<1>13. topic[c] \in Undisturbed' =>
         \A j \in DOMAIN links' : c \notin Range(links'[j].requests)
  <2> SUFFICES ASSUME topic[c] \in Undisturbed', NEW j \in DOMAIN links,
                      c \in Range(links[j].requests)
               PROVE  FALSE
    BY <1>2
  <2>1. topic[c] \in Undisturbed /\ (links[k].gone \/ links[k].answers # << >>)
    BY <1>2, <1>9 DEF Undisturbed
  <2>2. tpc[c] = "read" /\ j = k
    BY <1>0, <1>1, <2>1 DEF TopicAnswers
  <2>3. links[k].requests # << >>
    BY <2>2 DEF Range
  <2>4. c \in Reading(o)
    BY <1>0, <2>2 DEF Reading
  <2>5. Owes(k, c)
    BY <1>0, <1>1, <1>4, <2>1, <2>4 DEF TopicContents, Tidy
  <2> QED
    BY <1>1, <1>4, <2>1, <2>3, <2>5 DEF Owes, TopicLinks
<1>14. /\ \A d \in TopicCalls \ {c} : tpc'[d] = tpc[d] /\ answered'[d] = answered[d]
       /\ tpc'[c] \in Ended /\ tpc'[c] \notin Busy
  BY <1>3, <1>5, <1>6
<1>15. \A d \in TopicCalls \ {c} : tpc[d] \in Busy => stream'[mine[d]] = stream[mine[d]]
  <2>1. \A d \in TopicCalls \ {c} : tpc[d] \in Busy => mine[d] \in TopicClients \ {o}
    BY <1>0, <1>3, TopicFacts
  <2> QED
    BY <1>8, <2>1
<1>16. topic[c] \in Undisturbed' =>
         /\ o # 0 => Tidy(o)'
         /\ answered'[c] \in {c, "none", "error"}
         /\ \A j \in DOMAIN links' : c \in Range(links'[j].requests) =>
              tpc'[c] = "read" /\ stream'[o] = j
  BY <1>6, <1>8, <1>13 DEF Tidy
<1>17. /\ \A j \in DOMAIN links : links'[j] = links[j] \/ (o # 0 /\ j = stream[o])
       /\ \A j \in DOMAIN links' : Range(links'[j].requests) \subseteq
            (IF j \in DOMAIN links THEN Range(links[j].requests) ELSE {}) \cup {c}
  BY <1>2
<1>18. UNCHANGED <<topic, mine, registry, ticket, issued, closes>> /\ tpc[c] # "idle"
  BY <1>2, <1>3
<1>19. /\ \A p \in TopicClients \ {o} : stream'[p] = stream[p]
       /\ disturbed \subseteq disturbed'
  BY <1>8, <1>9
<1> QED
  BY <1>0, <1>10, <1>11, <1>12, <1>14, <1>15, <1>16, <1>17, <1>18, <1>19, CallMoves

LEMMA Drops ==
  ASSUME TopicInv, NEW c \in TopicCalls, DropCall(c)
  PROVE  TopicInv'
<1>0. PICK o : o = mine[c]
  OBVIOUS
<1>1. /\ TopicTypes /\ TopicOwners /\ TopicTickets /\ TopicStreams
      /\ TopicTurns /\ TopicLinks /\ TopicContents /\ TopicAnswers
  BY DEF TopicInv
<1>2. /\ tpc[c] \notin {"idle"} \cup Ended
      /\ tpc' = [tpc EXCEPT ![c] = "dropped"]
      /\ disturbed' = disturbed \cup IF tpc[c] \in Busy THEN {topic[c]} ELSE {}
      /\ UNCHANGED <<topic, mine, answered, registry, ticket, issued, stream, links, closes>>
  BY DEF DropCall, TopicGoto, Busy
<1>3. /\ "dropped" \notin Busy /\ "dropped" \in Ended /\ "dropped" \notin InLine
      /\ tpc[c] # "idle" /\ topic[c] \in Topics
  BY <1>1, <1>2 DEF Busy, Ended, InLine, TopicOwners
<1>4. tpc'[c] = "dropped" /\ \A d \in TopicCalls \ {c} : tpc'[d] = tpc[d]
  BY <1>1, <1>2 DEF TopicTypes
<1>5. tpc' \in [TopicCalls -> {"idle", "find", "join"} \cup InLine \cup Ended]
  BY <1>1, <1>2, <1>3 DEF TopicTypes
<1>6. /\ disturbed \subseteq disturbed' /\ disturbed' \subseteq disturbed \cup {topic[c]}
      /\ topic[c] \notin disturbed' => tpc[c] \notin Busy
  BY <1>2
<1>7. TopicTypes'
  <2>1. disturbed' \subseteq Topics
    BY <1>1, <1>3, <1>6 DEF TopicTypes
  <2> QED
    BY <1>1, <1>2, <1>5, <2>1 DEF TopicTypes
<1>8. TopicStreams'
  BY <1>1, <1>2 DEF TopicStreams, Unused
<1>9. TopicLinks'
  <2>1. ASSUME NEW j \in DOMAIN links
        PROVE  /\ links[j].gone => links[j].requests = << >>
               /\ \A d \in Range(links[j].requests) : tpc'[d] \in {"read"} \cup Ended
    <3>1. Range(links[j].requests) \subseteq TopicCalls
      BY <1>1, RequestsOfCalls
    <3>2. /\ links[j].gone => links[j].requests = << >>
          /\ \A d \in Range(links[j].requests) : tpc[d] \in {"read"} \cup Ended
      BY <1>1, <2>1 DEF TopicLinks
    <3> QED
      BY <1>3, <1>4, <3>1, <3>2
  <2> QED
    BY <1>2, <2>1 DEF TopicLinks
<1>10. topic[c] \in Undisturbed' =>
         /\ o # 0 => Tidy(o)'
         /\ answered'[c] \in {c, "none", "error"}
         /\ \A j \in DOMAIN links' : c \notin Range(links'[j].requests)
  <2> SUFFICES ASSUME topic[c] \in Undisturbed'
               PROVE  /\ o # 0 => Tidy(o)'
                      /\ answered[c] \in {c, "none", "error"}
                      /\ \A j \in DOMAIN links : c \notin Range(links[j].requests)
    BY <1>2
  <2>1. topic[c] \in Undisturbed /\ tpc[c] \notin Busy
    BY <1>2, <1>6 DEF Undisturbed
  <2>2. answered[c] \in {c, "none", "error"}
        /\ \A j \in DOMAIN links : c \notin Range(links[j].requests)
    BY <1>1, <2>1 DEF TopicAnswers, Busy
  <2>3. ASSUME o # 0 PROVE Tidy(o)'
    <3>1. o = registry[topic[c]]
      BY <1>0, <1>1, <2>3 DEF TopicOwners
    <3>2. Tidy(o)
      BY <1>1, <2>1, <2>3, <3>1 DEF TopicContents
    <3>3. Reading(o)' = Reading(o)
      BY <1>2, <1>3, <1>4, <2>1 DEF Reading, Busy
    <3> QED
      BY <1>2, <3>2, <3>3, StaysTidy
  <2> QED
    BY <2>2, <2>3
<1>11. /\ \A d \in TopicCalls \ {c} : tpc'[d] = tpc[d] /\ answered'[d] = answered[d]
       /\ tpc'[c] \in Ended /\ tpc'[c] \notin Busy
       /\ \A d \in TopicCalls \ {c} : stream'[mine[d]] = stream[mine[d]]
       /\ \A p \in TopicClients \ {o} : stream'[p] = stream[p]
  BY <1>2, <1>3, <1>4
<1>12. topic[c] \in Undisturbed' =>
         /\ o # 0 => Tidy(o)'
         /\ answered'[c] \in {c, "none", "error"}
         /\ \A j \in DOMAIN links' : c \in Range(links'[j].requests) =>
              tpc'[c] = "read" /\ stream'[o] = j
  BY <1>10
<1>13. /\ \A j \in DOMAIN links : links'[j] = links[j] \/ (o # 0 /\ j = stream[o])
       /\ \A j \in DOMAIN links' : Range(links'[j].requests) \subseteq
            (IF j \in DOMAIN links THEN Range(links[j].requests) ELSE {}) \cup {c}
  BY <1>2
<1>14. UNCHANGED <<topic, mine, registry, ticket, issued, closes>> /\ tpc[c] # "idle"
  BY <1>2, <1>3
<1> QED
  BY <1>0, <1>6, <1>7, <1>8, <1>9, <1>11, <1>12, <1>13, <1>14, CallMoves

(* close() takes part in the line, and empties a client only in its turn.   *)
LEMMA Closes ==
  ASSUME TopicInv, CloseStarts \/ CloseJoins \/ CloseClient
  PROVE  TopicInv'
<1>1. /\ TopicTypes /\ TopicOwners /\ TopicTickets /\ TopicStreams
      /\ TopicTurns /\ TopicLinks /\ TopicContents /\ TopicAnswers
  BY DEF TopicInv
<1>2. /\ UNCHANGED <<tpc, topic, mine, answered, registry, ticket, links, disturbed>>
      /\ \A p : Reading(p)' = Reading(p)
  BY DEF CloseStarts, CloseJoins, CloseClient, Reading
<1>3. TopicOwners' /\ TopicLinks'
  BY <1>1, <1>2 DEF TopicOwners, TopicLinks
<1>4. issued \in Nat /\ \A d \in TopicCalls : ticket[d] \in Nat /\ ticket[d] <= issued
  BY <1>1 DEF TopicTypes, TopicTickets
<1>5. ASSUME UNCHANGED stream
      PROVE  /\ TopicStreams' /\ TopicContents'
             /\ (TopicTypes' => TopicAnswers')
  <2>1. TopicStreams' /\ TopicAnswers'
    BY <1>1, <1>2, <1>5 DEF TopicStreams, TopicAnswers, Unused, Undisturbed
  <2>2. ASSUME NEW t \in Topics \ disturbed', registry'[t] # 0 PROVE Tidy(registry[t])'
    BY <1>1, <1>2, <1>5, <2>2 DEF TopicContents, Undisturbed, Tidy, Quiet, Owes
  <2> QED
    BY <1>2, <2>1, <2>2 DEF TopicContents, Undisturbed
<1>6. CASE CloseStarts
  <2>1. /\ UNCHANGED <<issued, stream>> /\ closes'.client = closes.client
        /\ closes'.ticket = closes.ticket
    BY <1>1, <1>6 DEF CloseStarts, TopicTypes
  <2>2. TopicTypes'
    <3>1. {registry[t] : t \in Topics} \ {0} \subseteq TopicClients
      BY <1>1 DEF TopicTypes
    <3>2. closes' = [at |-> "closing", left |-> {registry[t] : t \in Topics} \ {0},
                     client |-> closes.client, ticket |-> closes.ticket]
      BY <1>1, <1>6 DEF CloseStarts, TopicTypes
    <3>3. closes' \in [at : {"no", "closing", "closed"}, left : SUBSET TopicClients,
                       client : TopicClients \cup {0}, ticket : Nat]
      BY <1>1, <3>1, <3>2 DEF TopicTypes
    <3> QED
      BY <1>1, <1>2, <2>1, <3>3 DEF TopicTypes
  <2>3. TopicTickets' /\ TopicTurns'
    BY <1>1, <1>2, <2>1 DEF TopicTickets, TopicTurns, First
  <2> QED
    BY <1>3, <1>5, <2>1, <2>2, <2>3 DEF TopicInv
<1>7. CASE CloseJoins
  <2>1. closes.client = 0 /\ UNCHANGED stream
    BY <1>7 DEF CloseJoins
  <2>2. CASE UNCHANGED issued /\ closes' = [closes EXCEPT !.at = "closed"]
    <3>1. TopicTypes' /\ closes'.client = closes.client /\ closes'.ticket = closes.ticket
      BY <1>1, <1>2, <2>1, <2>2 DEF TopicTypes
    <3>2. TopicTickets' /\ TopicTurns'
      BY <1>1, <1>2, <2>1, <2>2, <3>1 DEF TopicTickets, TopicTurns, First
    <3> QED
      BY <1>3, <1>5, <2>1, <3>1, <3>2 DEF TopicInv
  <2>3. ASSUME NEW o \in closes.left, issued' = issued + 1,
               closes' = [closes EXCEPT !.client = o, !.ticket = issued + 1]
        PROVE  TopicInv'
    <3>1. o \in TopicClients /\ o # 0
      BY <1>1, <2>3, ClientsFinite DEF TopicTypes
    <3>2. closes'.client = o /\ closes'.ticket = issued + 1
      BY <1>1, <2>3 DEF TopicTypes
    <3>3. TopicTypes'
      <4>1. closes' = [at |-> closes.at, left |-> closes.left, client |-> o,
                       ticket |-> issued + 1]
        BY <1>1, <2>3 DEF TopicTypes
      <4>2. closes' \in [at : {"no", "closing", "closed"}, left : SUBSET TopicClients,
                         client : TopicClients \cup {0}, ticket : Nat]
        BY <1>1, <3>1, <4>1 DEF TopicTypes
      <4> QED
        BY <1>1, <1>2, <2>1, <2>3, <4>2 DEF TopicTypes
    <3>4. TopicTickets'
      BY <1>1, <1>2, <1>4, <2>3, <3>2 DEF TopicTickets
    <3>5. TopicTurns'
      BY <1>1, <1>2, <1>4, <2>1, <3>2 DEF TopicTurns, First
    <3> QED
      BY <1>3, <1>5, <2>1, <3>3, <3>4, <3>5 DEF TopicInv
  <2> QED
    BY <1>7, <2>2, <2>3 DEF CloseJoins
<1>8. CASE CloseClient
  <2>0. PICK o : o = closes.client
    OBVIOUS
  <2>1. /\ o # 0 /\ First(o, closes.ticket) /\ stream' = [stream EXCEPT ![o] = 0]
        /\ closes' = [closes EXCEPT !.left = @ \ {o}, !.client = 0, !.ticket = 0]
        /\ UNCHANGED issued
    BY <1>8, <2>0 DEF CloseClient
  <2>2. \A d \in TopicCalls : mine[d] = o => tpc[d] \notin Busy
    BY <2>0, <2>1, TopicFacts
  <2>3. /\ o \in TopicClients /\ stream' \in [TopicClients -> Nat] /\ stream'[o] = 0
        /\ \A p \in TopicClients \ {o} : stream'[p] = stream[p]
        /\ closes'.client = 0 /\ closes'.ticket = 0
    BY <1>1, <2>0, <2>1 DEF TopicTypes
  <2>4. TopicTypes'
    <3>1. closes' = [at |-> closes.at, left |-> closes.left \ {o}, client |-> 0, ticket |-> 0]
      BY <1>1, <2>1 DEF TopicTypes
    <3>2. closes' \in [at : {"no", "closing", "closed"}, left : SUBSET TopicClients,
                       client : TopicClients \cup {0}, ticket : Nat]
      BY <1>1, <3>1 DEF TopicTypes
    <3> QED
      BY <1>1, <1>2, <2>1, <2>3, <3>2 DEF TopicTypes
  <2>5. TopicTickets'
    BY <1>1, <1>2, <1>4, <2>1, <2>3 DEF TopicTickets
  <2>6. TopicStreams'
    BY <1>1, <1>2, <2>3 DEF TopicStreams, Unused
  <2>7. TopicTurns'
    <3>1. ASSUME NEW d \in TopicCalls, tpc[d] \in Busy
          PROVE  stream'[mine[d]] # 0 /\ First(mine[d], ticket[d])'
      <4>1. mine[d] \in TopicClients \ {o}
        BY <2>2, <3>1, TopicFacts
      <4>2. stream[mine[d]] # 0 /\ First(mine[d], ticket[d])
        BY <1>1, <3>1 DEF TopicTurns
      <4> QED
        BY <1>2, <2>3, <4>1, <4>2, ClientsFinite DEF First
    <3> QED
      BY <1>2, <3>1 DEF TopicTurns
  <2>8. TopicContents'
    <3>1. ASSUME NEW t \in Undisturbed', NEW p \in TopicClients, registry'[t] = p
          PROVE  Tidy(p)'
      <4>1. CASE p = o
        BY <2>3, <4>1 DEF Tidy
      <4>2. CASE p # o
        <5>1. Tidy(p)
          BY <1>1, <1>2, <3>1, ClientsFinite DEF TopicContents, Undisturbed
        <5> QED
          BY <1>2, <2>3, <4>2, <5>1, StaysTidy
      <4> QED
        BY <4>1, <4>2
    <3> QED
      BY <2>4, <3>1, TidyTopics
  <2>9. TopicAnswers'
    <3>1. ASSUME NEW d \in TopicCalls, topic[d] \in Undisturbed
          PROVE  /\ answered[d] \in {d, "none", "error"}
                 /\ \A k \in DOMAIN links : d \in Range(links[k].requests) =>
                      tpc[d] = "read" /\ stream'[mine[d]] = k
      <4>1. /\ answered[d] \in {d, "none", "error"}
            /\ \A k \in DOMAIN links : d \in Range(links[k].requests) =>
                 tpc[d] = "read" /\ stream[mine[d]] = k
        BY <1>1, <3>1 DEF TopicAnswers
      <4>2. tpc[d] = "read" => mine[d] \in TopicClients \ {o}
        BY <2>2, TopicFacts DEF Busy
      <4> QED
        BY <2>3, <4>1, <4>2
    <3> QED
      BY <1>2, <3>1 DEF TopicAnswers, Undisturbed
  <2> QED
    BY <1>3, <2>4, <2>5, <2>6, <2>7, <2>8, <2>9 DEF TopicInv
<1> QED
  BY <1>6, <1>7, <1>8

(* What UdsServer does on a connection leaves it owing no one anything new. *)
LEMMA Serves ==
  ASSUME TopicInv, NEW k \in DOMAIN links, Answer(k) \/ ServerEnds(k)
  PROVE  TopicInv'
<1>1. /\ TopicTypes /\ TopicOwners /\ TopicTickets /\ TopicStreams
      /\ TopicTurns /\ TopicLinks /\ TopicContents /\ TopicAnswers
  BY DEF TopicInv
<1>2. PICK q, a : q = links[k].requests /\ a = links[k].answers
  OBVIOUS
<1>3. UNCHANGED <<tpc, topic, mine, answered, registry, ticket, issued, stream, closes, disturbed>>
  BY DEF Answer, ServerEnds
<1>4. q \in Seq(TopicCalls) /\ a \in Seq(TopicCalls) /\ links[k] \in LinkState
  BY <1>1, <1>2, RequestsOfCalls
<1>5. PICK l \in LinkState :
        /\ links' = [links EXCEPT ![k] = l]
        /\ \/ /\ q # << >>
              /\ l.requests = Tail(q) /\ l.answers = Append(a, Head(q)) /\ ~l.gone
           \/ /\ l.requests = << >> /\ l.answers = a
  <2>1. CASE Answer(k)
    <3> DEFINE l == [requests |-> Tail(q), answers |-> Append(a, Head(q)),
                     gone |-> links[k].gone]
    <3>1. q # << >> /\ links' = [links EXCEPT ![k] = l]
      BY <1>2, <2>1 DEF Answer
    <3>2. Tail(q) \in Seq(TopicCalls) /\ Append(a, Head(q)) \in Seq(TopicCalls)
      BY <1>4, <3>1, HeadTailProperties, AppendProperties
    <3>3. ~links[k].gone
      BY <1>1, <1>2, <3>1 DEF TopicLinks
    <3>4. l \in LinkState
      BY <1>4, <3>2 DEF LinkState
    <3> QED
      BY <3>1, <3>3, <3>4
  <2>2. CASE ServerEnds(k)
    <3> DEFINE l == [requests |-> << >>, answers |-> a, gone |-> TRUE]
    <3>1. links' = [links EXCEPT ![k] = l]
      BY <1>2, <2>2 DEF ServerEnds
    <3>2. l \in LinkState
      BY <1>4 DEF LinkState
    <3> QED
      BY <3>1, <3>2
  <2> QED
    BY <2>1, <2>2
<1>6. /\ links' \in Seq(LinkState) /\ DOMAIN links' = DOMAIN links /\ links'[k] = l
      /\ \A j \in DOMAIN links \ {k} : links'[j] = links[j]
  BY <1>1, <1>5, LinkMoves
<1>7. Range(l.requests) \subseteq Range(q) /\ (l.gone => l.requests = << >>)
  <2>1. CASE q # << >> /\ l.requests = Tail(q) /\ ~l.gone
    <3>1. Head(q) \in TopicCalls
      BY <1>4, <2>1, HeadTailProperties
    <3> QED
      BY <1>4, <2>1, <3>1, Ranges
  <2>2. CASE l.requests = << >>
    BY <2>2 DEF Range
  <2> QED
    BY <1>5, <2>1, <2>2
<1>8. /\ TopicTypes' /\ TopicOwners' /\ TopicTickets'
  BY <1>1, <1>3, <1>6 DEF TopicTypes, TopicOwners, TopicTickets
<1>9. TopicStreams' /\ TopicTurns'
  BY <1>1, <1>3, <1>6 DEF TopicStreams, Unused, TopicTurns, First
<1>10. \A j \in DOMAIN links : Range(links'[j].requests) \subseteq Range(links[j].requests)
  BY <1>2, <1>6, <1>7
<1>11. TopicLinks'
  BY <1>1, <1>3, <1>6, <1>7, <1>10 DEF TopicLinks
<1>12. (Quiet(k) => Quiet(k)') /\ \A c \in TopicCalls : Owes(k, c) => Owes(k, c)'
  <2>1. ASSUME NEW c, q = <<c>> PROVE Head(q) = c /\ Tail(q) = << >>
    BY <2>1
  <2>2. ASSUME NEW c, a = << >> PROVE Append(a, c) = <<c>>
    BY <2>2
  <2>3. Quiet(k) => Quiet(k)'
    BY <1>2, <1>5, <1>6 DEF Quiet
  <2>4. ASSUME NEW c \in TopicCalls, Owes(k, c) PROVE Owes(k, c)'
    <3>1. \/ q = <<c>> /\ a = << >>
          \/ q = << >> /\ a \in {<< >>, <<c>>}
      BY <1>2, <2>4 DEF Owes
    <3>2. \/ l.requests = <<c>> /\ l.answers = << >>
          \/ l.requests = << >> /\ l.answers \in {<< >>, <<c>>}
      BY <1>5, <2>1, <2>2, <3>1
    <3> QED
      BY <1>6, <3>2 DEF Owes
  <2> QED
    BY <2>3, <2>4
<1>13. TopicContents'
  <2>1. ASSUME NEW t \in Undisturbed', NEW p \in TopicClients, registry'[t] = p
        PROVE  Tidy(p)'
    <3>1. Tidy(p) /\ Reading(p)' = Reading(p) /\ Reading(p) \subseteq TopicCalls
      BY <1>1, <1>3, <2>1, ClientsFinite DEF TopicContents, Undisturbed, Reading
    <3>2. CASE stream[p] = k
      BY <1>3, <1>12, <3>1, <3>2 DEF Tidy, Quiet, Owes
    <3>3. CASE stream[p] # k
      BY <1>1, <1>3, <1>6, <3>1, <3>3, StaysTidy DEF TopicStreams
    <3> QED
      BY <3>2, <3>3
  <2> QED
    BY <1>8, <2>1, TidyTopics
<1>14. TopicAnswers'
  <2>1. ASSUME NEW c \in TopicCalls, topic[c] \in Undisturbed
        PROVE  /\ answered[c] \in {c, "none", "error"}
               /\ \A j \in DOMAIN links' : c \in Range(links'[j].requests) =>
                    tpc[c] = "read" /\ stream[mine[c]] = j
    <3>1. /\ answered[c] \in {c, "none", "error"}
          /\ \A j \in DOMAIN links : c \in Range(links[j].requests) =>
               tpc[c] = "read" /\ stream[mine[c]] = j
      BY <1>1, <2>1 DEF TopicAnswers
    <3> QED
      BY <1>6, <1>10, <3>1
  <2> QED
    BY <1>3, <2>1 DEF TopicAnswers, Undisturbed
<1> QED
  BY <1>8, <1>9, <1>11, <1>13, <1>14 DEF TopicInv

(* A topic is serial: TopicInv says whose the requests at the server are.   *)
LEMMA InvSerial == TopicInv => TopicSerial
<1> SUFFICES ASSUME TopicInv, NEW c \in TopicCalls, topic[c] \in Topics \ disturbed
             PROVE  /\ answered[c] \in {c, "none", "error"}
                    /\ c \in AtServer => \A d \in TopicCalls \ {c} : topic[d] = topic[c] =>
                         /\ d \notin AtServer
                         /\ ticket[d] \in 1 .. ticket[c] - 1 => tpc[d] \in Ended
  BY DEF TopicSerial
<1>1. /\ TopicTypes /\ TopicOwners /\ TopicTickets /\ TopicStreams
      /\ TopicTurns /\ TopicLinks /\ TopicContents /\ TopicAnswers
  BY DEF TopicInv
<1>2. \A d \in TopicCalls : d \in AtServer /\ topic[d] = topic[c] => tpc[d] = "read"
  BY <1>1 DEF AtServer, TopicAnswers, Undisturbed
<1>3. ASSUME c \in AtServer, NEW d \in TopicCalls \ {c}, topic[d] = topic[c]
      PROVE  d \notin AtServer /\ (ticket[d] \in 1 .. ticket[c] - 1 => tpc[d] \in Ended)
  <2>1. tpc[c] = "read" /\ tpc[c] \in Busy
    BY <1>2, <1>3 DEF Busy
  <2>2. mine[c] = registry[topic[c]] /\ First(mine[c], ticket[c])
    BY <1>1, <2>1, TopicFacts DEF TopicTurns
  <2>3. d \notin AtServer
    <3>1. SUFFICES ASSUME d \in AtServer PROVE FALSE
      OBVIOUS
    <3>2. tpc[d] \in Busy
      BY <1>2, <1>3, <3>1 DEF Busy
    <3> QED
      BY <1>3, <2>1, <2>2, <3>2, TopicFacts
  <2>4. ASSUME ticket[d] \in 1 .. ticket[c] - 1 PROVE tpc[d] \in Ended
    <3>1. ticket[d] \in Nat /\ ticket[c] \in Nat
      BY <1>1 DEF TopicTypes
    <3>2. ticket[d] # 0 /\ ~(ticket[c] <= ticket[d])
      BY <2>4, <3>1
    <3>3. tpc[d] \in InLine \cup Ended
      BY <1>1, <3>2 DEF TopicTickets
    <3>4. ASSUME tpc[d] \in InLine PROVE FALSE
      <4>1. mine[d] = registry[topic[d]]
        BY <1>1, <3>4 DEF TopicOwners
      <4> QED
        BY <1>3, <2>2, <3>2, <3>4, <4>1 DEF First
    <3> QED
      BY <3>3, <3>4
  <2> QED
    BY <2>3, <2>4
<1> QED
  BY <1>1, <1>3 DEF TopicAnswers, Undisturbed

(* TopicSerial, for any calls and topics: the calls of an undisturbed topic *)
(* are at the server one at a time, in the order of their tickets, and each *)
(* gets its own answer (call_serial, pool.rs).                              *)
THEOREM TopicSerialCorrect == TopicSpec => []TopicSerial
<1>1. TopicInit => TopicInv
  <2> SUFFICES ASSUME TopicInit PROVE TopicInv
    OBVIOUS
  <2>1. TopicTypes
    <3>1. << >> \in Seq(LinkState)
      BY EmptySeq
    <3> QED
      BY <3>1, ClientsFinite DEF TopicInit, TopicTypes
  <2>2. TopicOwners /\ TopicTickets
    BY TopicAssumption DEF TopicInit, TopicOwners, TopicTickets, InLine
  <2>3. DOMAIN links = {}
    BY DEF TopicInit
  <2>4. TopicStreams /\ TopicTurns /\ TopicLinks /\ TopicContents /\ TopicAnswers
    <3>1. TopicStreams /\ TopicTurns
      BY <2>3 DEF TopicInit, TopicStreams, TopicTurns, Busy, Unused
    <3>2. TopicLinks /\ TopicContents
      BY <2>3 DEF TopicInit, TopicLinks, TopicContents, Undisturbed
    <3>3. TopicAnswers
      BY <2>3 DEF TopicInit, TopicAnswers
    <3> QED
      BY <3>1, <3>2, <3>3
  <2> QED
    BY <2>1, <2>2, <2>4 DEF TopicInv
<1>2. TopicInv /\ [TopicNext]_topicVars => TopicInv'
  <2> SUFFICES ASSUME TopicInv, [TopicNext]_topicVars PROVE TopicInv'
    OBVIOUS
  <2>1. ASSUME NEW c \in TopicCalls, StartTopic(c) \/ CallStep(c) \/ DropCall(c)
        PROVE  TopicInv'
    BY <2>1, StartsTopic, Finds, Joins, Connects, Sends, Receives, Fails, Drops DEF CallStep
  <2>2. CASE CloseStarts \/ CloseStep
    BY <2>2, Closes DEF CloseStep
  <2>3. ASSUME NEW k \in DOMAIN links, Answer(k) \/ ServerEnds(k) PROVE TopicInv'
    BY <2>3, Serves
  <2>4. CASE UNCHANGED topicVars
    BY <2>4 DEF topicVars, TopicInv, TopicTypes, TopicOwners, TopicTickets, TopicStreams,
       TopicTurns, TopicLinks, TopicContents, TopicAnswers, First, Unused, Tidy, Reading,
       Quiet, Owes, Undisturbed
  <2> QED
    BY <2>1, <2>2, <2>3, <2>4 DEF TopicNext
<1> QED
  BY <1>1, <1>2, InvSerial, PTL DEF TopicSpec

==============================================================================
