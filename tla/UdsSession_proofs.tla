--------------------------- MODULE UdsSession_proofs ---------------------------
(****************************************************************************)
(* Theorems about the counters of UdsServer, for any number of clients and  *)
(* connections and any limits.                                              *)
(*                                                                          *)
(* Every step moves at most one connection from one phase to another, so    *)
(* that the counters can be followed by counting connections by phase.      *)
(****************************************************************************)
EXTENDS UdsSession, FiniteSetTheorems, SequenceTheorems, TLAPS

Phases == {"none", "queued"} \cup Live \cup Over

\* How many connections are in a phase of P, and what one in phase p adds.
Count(P) == Cardinality(InPhase(P))
One(p, P) == IF p \in P THEN 1 ELSE 0

\* Connections that ACTIVE_CONNECTIONS counts, requests that active_requests
\* counts.
Counted == Live \cup {"panicked", "crashed"}
Pending == {"handling", "cut", "panicked"}

Types == phase \in [Conns -> Phases] /\ active \in Int /\ requests \in Int

CountInv ==
  /\ Types
  /\ active = Count(Counted)
  /\ requests = Count(Pending)
  /\ Count(Live) <= MaxConnections

(* A connection that goes to phase p is counted where p is and no longer    *)
(* where it was.                                                            *)
LEMMA CountMove ==
  ASSUME NEW k \in Conns, NEW p, NEW P, phase \in [Conns -> Phases],
         phase' = [phase EXCEPT ![k] = p]
  PROVE  /\ Count(P) \in Nat
         /\ Count(P)' \in Nat
         /\ Count(P)' = Count(P) + One(p, P) - One(phase[k], P)
<1> DEFINE S == {j \in Conns : phase[j] \in P}
           T == {j \in Conns : phase'[j] \in P}
<1>0. IsFiniteSet(Conns)
  <2>1. MaxConns \in Nat
    BY UdsAssumption
  <2> QED
    BY <2>1, FS_Interval DEF Conns
<1>1. IsFiniteSet(S) /\ Cardinality(S) \in Nat
  BY <1>0, FS_Subset, FS_CardinalityType
<1>2. Cardinality(T) = Cardinality(S) + One(p, P) - One(phase[k], P)
  <2>1. CASE p \in P
    <3>1. T = S \cup {k}
      BY <2>1
    <3>2. k \in S <=> phase[k] \in P
      OBVIOUS
    <3> HIDE DEF S, T
    <3>3. Cardinality(S \cup {k})
            = IF k \in S THEN Cardinality(S) ELSE Cardinality(S) + 1
      BY <1>1, FS_AddElement
    <3> QED
      BY <1>1, <2>1, <3>1, <3>2, <3>3 DEF One
  <2>2. CASE p \notin P
    <3>1. T = S \ {k}
      BY <2>2
    <3>2. k \in S <=> phase[k] \in P
      OBVIOUS
    <3> HIDE DEF S, T
    <3>3. Cardinality(S \ {k})
            = IF k \in S THEN Cardinality(S) - 1 ELSE Cardinality(S)
      BY <1>1, FS_RemoveElement
    <3> QED
      BY <1>1, <2>2, <3>1, <3>2, <3>3 DEF One
  <2> QED
    BY <2>1, <2>2
<1>3. IsFiniteSet(T) /\ Cardinality(T) \in Nat
  BY <1>0, FS_Subset, FS_CardinalityType
<1>4. Count(P) = Cardinality(S) /\ Count(P)' = Cardinality(T)
  BY DEF Count, InPhase
<1> QED
  BY <1>1, <1>2, <1>3, <1>4

(* Counts are natural numbers and grow with the set of phases.              *)
LEMMA CountMonotonic ==
  ASSUME NEW P, NEW Q, P \subseteq Q
  PROVE  Count(P) \in Nat /\ Count(Q) \in Nat /\ Count(P) <= Count(Q)
<1> DEFINE S == {j \in Conns : phase[j] \in P}
           T == {j \in Conns : phase[j] \in Q}
<1>1. IsFiniteSet(T)
  <2>1. MaxConns \in Nat
    BY UdsAssumption
  <2>2. IsFiniteSet(Conns)
    BY <2>1, FS_Interval DEF Conns
  <2> QED
    BY <2>2, FS_Subset
<1>2. S \in SUBSET T
  OBVIOUS
<1> HIDE DEF S, T
<1>3. IsFiniteSet(S) /\ Cardinality(S) <= Cardinality(T)
  BY <1>1, <1>2, FS_Subset
<1>4. Cardinality(S) \in Nat /\ Cardinality(T) \in Nat
  BY <1>1, <1>3, FS_CardinalityType
<1> QED
  BY <1>3, <1>4 DEF Count, InPhase, S, T

(* A connection moves and the counters with it: it is counted in as it      *)
(* leaves the queue, and a request as it begins to be handled.              *)
LEMMA MoveInv ==
  ASSUME CountInv, NEW k \in Conns, NEW p \in Phases,
         phase' = [phase EXCEPT ![k] = p],
         active' = active + One(p, Counted) - One(phase[k], Counted),
         requests' = requests + One(p, Pending) - One(phase[k], Pending),
         p \in Live => phase[k] \in Live \/ active < MaxConnections
  PROVE  CountInv'
<1>1. phase \in [Conns -> Phases] /\ MaxConnections \in Nat
  BY UdsAssumption DEF CountInv, Types
<1>2. Types'
  BY <1>1 DEF CountInv, Types, One
<1>3. active' = Count(Counted)'
  BY <1>1, CountMove DEF CountInv, Types
<1>4. requests' = Count(Pending)'
  BY <1>1, CountMove DEF CountInv, Types
<1>5. Count(Live)' <= MaxConnections
  <2>1. /\ Count(Live) \in Nat /\ Count(Live)' \in Nat
        /\ Count(Live)' = Count(Live) + One(p, Live) - One(phase[k], Live)
    BY <1>1, CountMove
  <2>2. Count(Live) <= active /\ active \in Nat /\ Count(Live) <= MaxConnections
    BY CountMonotonic DEF CountInv, Counted
  <2> QED
    BY <1>1, <2>1, <2>2 DEF One
<1> QED
  BY <1>2, <1>3, <1>4, <1>5 DEF CountInv

(* Every step of a connection's task keeps the counters.                    *)
LEMMA ServerInv ==
  ASSUME CountInv, NEW k \in Conns, ServerStep(k) \/ IdleTimeout(k)
  PROVE  CountInv'
<1>0. active \in Int /\ requests \in Int /\ phase \in [Conns -> Phases]
  BY DEF CountInv, Types
<1>1. ASSUME NEW p \in Phases, phase' = [phase EXCEPT ![k] = p],
             active' = active + One(p, Counted) - One(phase[k], Counted),
             requests' = requests + One(p, Pending) - One(phase[k], Pending),
             p \in Live => phase[k] \in Live \/ active < MaxConnections
      PROVE  CountInv'
  BY <1>1, MoveInv
\* A task ends, and was not handling a request.
<1>2. ASSUME NEW p \in {"ended", "crashed"}, End(k, p), requests' = requests,
             phase[k] \in {"new", "serving", "streaming"}
      PROVE  CountInv'
  <2>1. /\ p \in Phases /\ p \notin Live
        /\ One(p, Pending) = 0 /\ One(phase[k], Pending) = 0
        /\ One(phase[k], Counted) = 1
    BY <1>2 DEF Phases, Over, Live, One, Counted, Pending
  <2>2. One(p, Counted) = IF p = "crashed" THEN 1 ELSE 0
    BY <1>2 DEF One, Counted, Live
  <2>3. phase' = [phase EXCEPT ![k] = p] /\ active' = active + One(p, Counted) - 1
    BY <1>0, <1>2, <2>2 DEF End
  <2>4. requests' = requests + One(p, Pending) - One(phase[k], Pending)
    BY <1>0, <1>2, <2>1
  <2> QED
    BY <1>1, <2>1, <2>3, <2>4
\* A task goes on, and neither begins nor ends a request.
<1>3. ASSUME NEW p \in {"serving", "streaming"}, phase' = [phase EXCEPT ![k] = p],
             UNCHANGED <<active, requests>>, phase[k] \in {"new", "serving", "streaming"}
      PROVE  CountInv'
  <2>1. /\ p \in Phases /\ phase[k] \in Live
        /\ One(p, Pending) = 0 /\ One(phase[k], Pending) = 0
        /\ One(p, Counted) = 1 /\ One(phase[k], Counted) = 1
    BY <1>3 DEF Phases, Live, One, Counted, Pending
  <2>2. /\ active' = active + One(p, Counted) - One(phase[k], Counted)
        /\ requests' = requests + One(p, Pending) - One(phase[k], Pending)
    BY <1>0, <1>3, <2>1
  <2> QED
    BY <1>1, <1>3, <2>1, <2>2
<1>4. CASE Accept(k)
  BY <1>0, <1>1, <1>4 DEF Accept, One, Counted, Pending, Live, Over, Phases
<1>5. CASE Handshake(k)
  BY <1>2, <1>3, <1>5 DEF Handshake, Turn
<1>6. CASE RateLimited(k)
  BY <1>2, <1>6 DEF RateLimited
<1>7. CASE Request(k)
  BY <1>0, <1>1, <1>7 DEF Request, One, Counted, Pending, Live, Over, Phases
<1>8. CASE TooLarge(k) \/ SchemaRequest(k) \/ Disabled(k)
  BY <1>2, <1>3, <1>8 DEF TooLarge, SchemaRequest, Disabled, Turn, countVars
<1>9. CASE Invalid(k)
  BY <1>0, <1>1, <1>9 DEF Invalid, Turn, End, One, Counted, Pending, Live, Over, Phases
<1>10. CASE Respond(k)
  BY <1>0, <1>1, <1>10 DEF Respond, Turn, End, One, Counted, Pending, Live, Over, Phases
<1>11. CASE StreamRequest(k)
  BY <1>2, <1>3, <1>11 DEF StreamRequest
<1>12. CASE StreamEnd(k)
  BY <1>2, <1>3, <1>12 DEF StreamEnd, Turn
<1>13. CASE Eof(k) \/ IdleTimeout(k)
  BY <1>2, <1>13 DEF Eof, IdleTimeout
<1> QED
  BY <1>4, <1>5, <1>6, <1>7, <1>8, <1>9, <1>10, <1>11, <1>12, <1>13 DEF ServerStep

(* What the clients do moves no connection but the one that is dialled.     *)
LEMMA ClientInv ==
  ASSUME CountInv, NEW u \in Clients,
         Close(u) \/ ClientStep(u) \/ Abandon(u) \/ \E o \in Kinds \cup {"connect"} : Start(u, o)
  PROVE  CountInv'
<1>0. active \in Int /\ requests \in Int /\ phase \in [Conns -> Phases]
  BY DEF CountInv, Types
<1>1. CASE Dial(u)
  <2>1. PICK k \in Conns : phase[k] = "none" /\ phase' = [phase EXCEPT ![k] = "queued"]
    BY <1>1 DEF Dial
  <2>2. UNCHANGED <<active, requests>>
    BY <1>1 DEF Dial, countVars
  <2>3. /\ One("queued", Counted) = 0 /\ One("none", Counted) = 0
        /\ One("queued", Pending) = 0 /\ One("none", Pending) = 0
    BY DEF One, Counted, Pending, Live
  <2>4. "queued" \in Phases /\ "queued" \notin Live
    BY DEF Phases, Live
  <2>5. /\ active' = active + One("queued", Counted) - One(phase[k], Counted)
        /\ requests' = requests + One("queued", Pending) - One(phase[k], Pending)
    BY <1>0, <2>1, <2>2, <2>3
  <2> QED
    BY <2>1, <2>4, <2>5, MoveInv
<1>2. CASE ~Dial(u)
  <2>1. UNCHANGED <<phase, active, requests>>
    BY <1>2 DEF Close, ClientStep, Abandon, Start, ConnectFails, Hello, ReadAck, Rejected,
                Write, Read, ExchangeFails, countVars
  <2> QED
    BY <2>1 DEF CountInv, Types, Count, InPhase
<1> QED
  BY <1>1, <1>2

(* The counters follow the connections, whatever clients, handlers and the  *)
(* loop of accepts do.                                                      *)
THEOREM CountInvariant == Spec => []CountInv
<1>1. Init => CountInv
  <2> SUFFICES ASSUME Init PROVE CountInv
    OBVIOUS
  <2>1. \A P \in {Counted, Pending, Live} : InPhase(P) = {}
    BY DEF Init, InPhase, Counted, Pending, Live
  <2>2. Count(Counted) = 0 /\ Count(Pending) = 0 /\ Count(Live) = 0
    BY <2>1, FS_EmptySet DEF Count
  <2>3. Types
    BY DEF Init, Types, Phases
  <2> QED
    BY <2>2, <2>3, UdsAssumption DEF Init, CountInv
<1>2. CountInv /\ [Next]_vars => CountInv'
  <2> SUFFICES ASSUME CountInv, [Next]_vars PROVE CountInv'
    OBVIOUS
  <2>1. CASE \E k \in Conns : ServerStep(k) \/ IdleTimeout(k)
    BY <2>1, ServerInv
  <2>2. CASE \E u \in Clients : \/ \E o \in Kinds \cup {"connect"} : Start(u, o)
                                \/ Close(u) \/ ClientStep(u) \/ Abandon(u)
    BY <2>2, ClientInv
  <2>3. CASE Expire \/ UNCHANGED vars
    <3>1. UNCHANGED <<phase, active, requests>>
      BY <2>3 DEF Expire, vars, countVars
    <3> QED
      BY <3>1 DEF CountInv, Types, Count, InPhase
  <2> QED
    BY <2>1, <2>2, <2>3 DEF Next
<1> QED
  BY <1>1, <1>2, PTL DEF Spec

(* The limit is compared in one step of the accept loop and counted in the  *)
(* next; the loop is one task, so that it holds (server.rs:91-106).         *)
THEOREM WithinMaxConnectionsCorrect == Spec => []WithinMaxConnections
<1>1. CountInv => WithinMaxConnections
  BY DEF CountInv, WithinMaxConnections, Count
<1> QED
  BY <1>1, CountInvariant, PTL

(* ACTIVE_CONNECTIONS is the connections served and those lost to a panic   *)
(* (server.rs:106-114): no other way a task ends leaves it too high.        *)
THEOREM ConnectionsCountedCorrect == Spec => []ConnectionsCounted
<1>1. CountInv => ConnectionsCounted
  BY DEF CountInv, ConnectionsCounted, Count, Counted
<1> QED
  BY <1>1, CountInvariant, PTL

(* active_requests is the requests being handled and those whose task left  *)
(* between request_start and request_end (server.rs:211, 256, 259).         *)
THEOREM RequestsCountedCorrect == Spec => []RequestsCounted
<1>1. CountInv => RequestsCounted
  BY DEF CountInv, RequestsCounted, Count, Pending
<1> QED
  BY <1>1, CountInvariant, PTL

------------------------------------------------------------------------------
(* Sessions.  Frames on their way are the handshake that a client waits for *)
(* on `temp`, or the exchange it is in on `stream`, as long as nobody       *)
(* dropped one of its operations.                                           *)
FrameTypes == {"handshake", "ack", "nack", "error", "call", "response", "stream",
               "start", "end", "schema"}
Frames == [type : FrameTypes, op : Nat]

ClientTypes ==
  /\ pc \in [Clients -> {"idle", "dial", "hello", "ack", "write", "read"}]
  /\ op \in [Clients -> Kinds \cup {"connect"}]
  /\ stream \in [Clients -> Conns \cup {None}]
  /\ temp \in [Clients -> Conns \cup {None}]
  /\ begun \in Nat /\ ops \in [Clients -> Nat]
  /\ result \in [Clients -> Nat]
  /\ fault \in [Clients -> {"none", "frame", "error"}]
  /\ dropped \in [Clients -> BOOLEAN]

NetTypes ==
  /\ phase \in [Conns -> Phases]
  /\ up \in [Conns -> Seq(Frames)]
  /\ down \in [Conns -> Seq(Frames)]
  /\ torn \in [Conns -> BOOLEAN]

Quiet(k) == up[k] = << >> /\ down[k] = << >> /\ ~torn[k]

\* A connection nobody has dialled is quiet; a task that handles a request has
\* not yet taken it from its stream.
Tasks ==
  \A k \in Conns :
    /\ phase[k] = "none" => Quiet(k)
    /\ phase[k] = "handling" => Reading(k, "call")
    /\ phase[k] = "streaming" => Reading(k, "stream")

\* A connection has one owner, and one use.
Owners ==
  /\ \A u, v \in Clients : u # v => {stream[u], temp[u]} \cap {stream[v], temp[v]} \subseteq {None}
  /\ \A u \in Clients : stream[u] = temp[u] => temp[u] = None
  /\ \A u \in Clients : \A k \in {stream[u], temp[u]} \ {None} : phase[k] # "none"

Places ==
  \A u \in Clients :
    /\ pc[u] \in {"hello", "ack"} <=> temp[u] # None
    /\ pc[u] \in {"write", "read"} => stream[u] # None /\ op[u] \in Kinds

\* What the server may answer to a frame of type q.
Fits(q, t) == q \in {"call", "schema"} => t \in {Reply[q], "error"}

Greeting(u) ==
  /\ pc[u] = "hello" => Quiet(temp[u])
  /\ pc[u] = "ack" =>
       /\ ~torn[temp[u]]
       /\ Len(up[temp[u]]) + Len(down[temp[u]]) <= 1
       /\ \A i \in DOMAIN up[temp[u]] : up[temp[u]][i].type = "handshake"

Exchange(u) ==
  ~dropped[u] /\ stream[u] # None =>
    /\ pc[u] # "read" => Quiet(stream[u])
    /\ pc[u] = "read" /\ op[u] # "stream" =>
         /\ ~torn[stream[u]]
         /\ Len(up[stream[u]]) + Len(down[stream[u]]) <= 1
         /\ \A i \in DOMAIN up[stream[u]] : up[stream[u]][i] = Frame(op[u], ops[u])
         /\ \A i \in DOMAIN down[stream[u]] :
              /\ down[stream[u]][i].op = ops[u]
              /\ Fits(op[u], down[stream[u]][i].type)

SessionInv ==
  /\ ClientTypes /\ NetTypes /\ Tasks /\ Owners /\ Places
  /\ \A u \in Clients : Greeting(u) /\ Exchange(u)
  /\ InStep

------------------------------------------------------------------------------
\* What a step of the task of connection k does: it takes frames from `up`, or
\* answers the first one, which stays there only while a stream is begun.
Serves(k) ==
  /\ UNCHANGED <<clientVars, torn>>
  /\ phase[k] # "none" /\ phase'[k] # "none"
  /\ \A j \in Conns \ {k} : phase'[j] = phase[j] /\ up'[j] = up[j] /\ down'[j] = down[j]
  /\ phase'[k] = "handling" => Reading(k, "call") /\ up'[k] = up[k]
  /\ phase'[k] = "streaming" => Reading(k, "stream") /\ up'[k] = up[k]
  /\ \/ /\ down'[k] = down[k]
        /\ \/ up'[k] \in {up[k], << >>}
           \/ up[k] # << >> /\ up'[k] = Tail(up[k])
     \/ /\ up[k] # << >>
        /\ \E t \in FrameTypes :
             /\ Fits(Head(up[k]).type, t)
             /\ down'[k] = Append(down[k], Frame(t, Head(up[k]).op))
        /\ Head(up[k]).type = "stream" \/ up'[k] \in {Tail(up[k]), << >>}

LEMMA HeadTail ==
  ASSUME NEW s \in Seq(Frames), s # << >>
  PROVE  /\ Head(s) = s[1] /\ s[1] \in Frames /\ 1 \in DOMAIN s /\ Tail(s) \in Seq(Frames)
         /\ Len(s) \in Nat \ {0} /\ Len(Tail(s)) = Len(s) - 1
         /\ Len(s) = 1 => Tail(s) = << >>
         /\ \A i \in DOMAIN Tail(s) : i + 1 \in DOMAIN s /\ Tail(s)[i] = s[i + 1]
<1>1. Len(s) \in Nat \ {0} /\ Head(s) = s[1] /\ 1 \in DOMAIN s /\ s[1] \in Frames
  OBVIOUS
<1>2. Tail(s) \in Seq(Frames) /\ Len(Tail(s)) = Len(s) - 1
  OBVIOUS
<1>3. \A i \in DOMAIN Tail(s) : i + 1 \in DOMAIN s /\ Tail(s)[i] = s[i + 1]
  <2>1. \A i \in 1 .. Len(Tail(s)) : Tail(s)[i] = s[i + 1]
    BY HeadTailProperties
  <2>2. DOMAIN Tail(s) = 1 .. Len(Tail(s)) /\ DOMAIN s = 1 .. Len(s)
    BY <1>2
  <2> DEFINE r == Tail(s)
  <2>3. /\ \A i \in 1 .. Len(r) : r[i] = s[i + 1]
        /\ DOMAIN r = 1 .. Len(r) /\ Len(r) = Len(s) - 1
    BY <1>2, <2>1, <2>2
  <2> HIDE DEF r
  <2>4. \A i \in DOMAIN r : i + 1 \in DOMAIN s /\ r[i] = s[i + 1]
    BY <1>1, <2>2, <2>3
  <2> QED
    BY <2>4 DEF r
<1>4. Len(s) = 1 => Tail(s) = << >>
  <2>1. \A r \in Seq(Frames) : Len(r) = 0 => r = << >>
    OBVIOUS
  <2>2. Len(s) = 1 => Len(Tail(s)) = 0
    BY <1>2
  <2> QED
    BY <1>2, <2>1, <2>2
<1> QED
  BY <1>1, <1>2, <1>3, <1>4

LEMMA AppendFrame ==
  ASSUME NEW s \in Seq(Frames), NEW f \in Frames
  PROVE  /\ Append(s, f) \in Seq(Frames) /\ Append(s, f) # << >>
         /\ Len(s) \in Nat /\ Len(Append(s, f)) = Len(s) + 1
         /\ \A i \in DOMAIN Append(s, f) :
              \/ i \in DOMAIN s /\ Append(s, f)[i] = s[i]
              \/ i = Len(s) + 1 /\ Append(s, f)[i] = f
         /\ s # << >> => Head(Append(s, f)) = Head(s)
<1> DEFINE t == Append(s, f)
<1>1. /\ t \in Seq(Frames) /\ t # << >> /\ Len(t) = Len(s) + 1 /\ Len(s) \in Nat
      /\ \A i \in 1 .. Len(s) : t[i] = s[i]
      /\ t[Len(s) + 1] = f
  BY AppendProperties
<1>2. s # << >> => Head(t) = Head(s)
  BY HeadTailAppend
<1>3. DOMAIN t = 1 .. Len(s) + 1 /\ DOMAIN s = 1 .. Len(s)
  <2> HIDE DEF t
  <2> QED
    BY <1>1
<1> HIDE DEF t
<1>4. \A i \in DOMAIN t : (i \in DOMAIN s /\ t[i] = s[i]) \/ (i = Len(s) + 1 /\ t[i] = f)
  BY <1>1, <1>3
<1> QED
  BY <1>1, <1>2, <1>4, Zenon DEF t

(* Every step of a task is of that form, and keeps the types.               *)
LEMMA ServerServes ==
  ASSUME NetTypes, Tasks, NEW k \in Conns, ServerStep(k) \/ IdleTimeout(k)
  PROVE  Serves(k) /\ NetTypes'
<1>0. /\ phase \in [Conns -> Phases] /\ torn \in [Conns -> BOOLEAN]
      /\ up \in [Conns -> Seq(Frames)] /\ down \in [Conns -> Seq(Frames)]
      /\ up = [up EXCEPT ![k] = up[k]] /\ down = [down EXCEPT ![k] = down[k]]
  BY DEF NetTypes
<1>1. ASSUME UNCHANGED <<clientVars, torn>>, phase[k] # "none",
             NEW p \in Phases \ {"none"}, phase' = [phase EXCEPT ![k] = p],
             NEW x \in Seq(Frames), up' = [up EXCEPT ![k] = x],
             NEW y \in Seq(Frames), down' = [down EXCEPT ![k] = y],
             p = "handling" => Reading(k, "call") /\ x = up[k],
             p = "streaming" => Reading(k, "stream") /\ x = up[k],
             \/ y = down[k] /\ x \in {up[k], << >>}
             \/ y = down[k] /\ up[k] # << >> /\ x = Tail(up[k])
             \/ /\ up[k] # << >>
                /\ \E t \in FrameTypes : /\ Fits(Head(up[k]).type, t)
                                         /\ y = Append(down[k], Frame(t, Head(up[k]).op))
                /\ Head(up[k]).type = "stream" \/ x \in {Tail(up[k]), << >>}
      PROVE  Serves(k) /\ NetTypes'
  BY <1>0, <1>1 DEF Serves, NetTypes
\* The task ends without an answer.
<1>2. ASSUME UNCHANGED <<clientVars, torn>>, phase[k] # "none", NEW p \in Over,
             End(k, p), UNCHANGED down
      PROVE  Serves(k) /\ NetTypes'
  <2>1. << >> \in Seq(Frames) /\ p \in Phases \ {"none"} /\ p \notin {"handling", "streaming"}
    BY <1>2 DEF Phases, Over
  <2> QED
    BY <1>0, <1>1, <1>2, <2>1 DEF End
\* The frame is answered and taken, or the task ends with it.
<1>3. ASSUME UNCHANGED <<clientVars, torn>>, phase[k] # "none",
             NEW p \in {"serving", "ended", "streaming"},
             phase' = [phase EXCEPT ![k] = p],
             NEW q, Reading(k, q), NEW t \in FrameTypes, Fits(q, t), Answer(k, t),
             \/ p # "streaming" /\ up' = [up EXCEPT ![k] = Tail(@)]
             \/ p # "streaming" /\ up' = [up EXCEPT ![k] = << >>]
             \/ q = "stream" /\ UNCHANGED up
      PROVE  Serves(k) /\ NetTypes'
  <2> DEFINE y == Append(down[k], Frame(t, Head(up[k]).op))
  <2>1. up[k] # << >> /\ Head(up[k]).type = q /\ Head(up[k]).op \in Nat
        /\ Tail(up[k]) \in Seq(Frames)
    BY <1>0, <1>3, HeadTail DEF Reading, Frames
  <2>2. Frame(t, Head(up[k]).op) \in Frames
    BY <1>3, <2>1 DEF Frame, Frames
  <2>3. y \in Seq(Frames) /\ down' = [down EXCEPT ![k] = y] /\ << >> \in Seq(Frames)
    BY <1>0, <1>3, <2>2, AppendFrame DEF Answer
  <2>4. p \in Phases \ {"none"}
    BY DEF Phases, Live, Over
  <2> HIDE DEF y
  <2>5. \E s \in FrameTypes : /\ Fits(Head(up[k]).type, s)
                              /\ y = Append(down[k], Frame(s, Head(up[k]).op))
    BY <1>3, <2>1 DEF y
  <2>6. CASE up' = [up EXCEPT ![k] = Tail(@)] /\ p # "streaming"
    BY <1>1, <1>3, <2>1, <2>3, <2>4, <2>5, <2>6
  <2>7. CASE up' = [up EXCEPT ![k] = << >>] /\ p # "streaming"
    BY <1>1, <1>3, <2>1, <2>3, <2>4, <2>5, <2>7
  <2>8. CASE q = "stream" /\ UNCHANGED up
    <3>1. up' = [up EXCEPT ![k] = up[k]] /\ up[k] \in Seq(Frames)
      BY <1>0, <2>8
    <3> QED
      BY <1>1, <1>3, <2>1, <2>3, <2>4, <2>5, <2>8, <3>1
  <2> QED
    BY <1>3, <2>6, <2>7, <2>8
\* The task goes on and nothing is written.
<1>4. ASSUME UNCHANGED <<clientVars, torn, down>>, phase[k] # "none",
             NEW p \in {"new", "ended", "handling", "serving"},
             phase' = [phase EXCEPT ![k] = p],
             \/ UNCHANGED up /\ (p = "handling" => Reading(k, "call"))
             \/ p # "handling" /\ up' = [up EXCEPT ![k] = << >>]
             \/ p # "handling" /\ up[k] # << >> /\ up' = [up EXCEPT ![k] = Tail(@)]
      PROVE  Serves(k) /\ NetTypes'
  <2>1. p \in Phases \ {"none"} /\ << >> \in Seq(Frames) /\ up[k] \in Seq(Frames)
    BY <1>0 DEF Phases, Live, Over
  <2>2. CASE UNCHANGED up /\ (p = "handling" => Reading(k, "call"))
    BY <1>0, <1>1, <1>4, <2>1, <2>2
  <2>3. CASE p # "handling" /\ up' = [up EXCEPT ![k] = << >>]
    BY <1>0, <1>1, <1>4, <2>1, <2>3
  <2>4. CASE p # "handling" /\ up[k] # << >> /\ up' = [up EXCEPT ![k] = Tail(@)]
    <3>1. Tail(up[k]) \in Seq(Frames)
      BY <2>1, <2>4, HeadTail
    <3> QED
      BY <1>0, <1>1, <1>4, <2>1, <2>4, <3>1
  <2> QED
    BY <1>4, <2>2, <2>3, <2>4
<1>5. CASE Accept(k)
  BY <1>4, <1>5 DEF Accept
<1>6. CASE Handshake(k)
  <2>1. \A t \in {"ack", "nack"} : t \in FrameTypes /\ Fits("handshake", t)
    BY DEF FrameTypes, Fits
  <2>2. CASE \E t \in {"ack", "nack"} : Turn(k, "serving") /\ Answer(k, t)
    BY <1>3, <1>6, <2>1, <2>2 DEF Handshake, Turn
  <2>3. CASE \E p \in {"ended", "crashed"} : End(k, p) /\ UNCHANGED down
    BY <1>2, <1>6, <2>3 DEF Handshake, Over
  <2> QED
    BY <1>6, <2>2, <2>3 DEF Handshake
<1>7. CASE RateLimited(k)
  <2>1. "error" \in FrameTypes /\ Fits("handshake", "error")
    BY DEF FrameTypes, Fits
  <2>2. CASE Open(k)
    BY <1>3, <1>7, <2>1, <2>2 DEF RateLimited, End
  <2>3. CASE ~Open(k)
    BY <1>2, <1>7, <2>3 DEF RateLimited, Over
  <2> QED
    BY <2>2, <2>3
<1>8. CASE Request(k)
  BY <1>4, <1>8 DEF Request, netVars
\* An answer, or the end of a task whose client has gone.
<1>9. ASSUME UNCHANGED <<clientVars, torn>>, phase[k] # "none",
             NEW q, Reading(k, q), NEW t \in FrameTypes, Fits(q, t),
             IF Open(k) THEN Turn(k, "serving") /\ Answer(k, t)
                        ELSE End(k, "ended") /\ UNCHANGED down
      PROVE  Serves(k) /\ NetTypes'
  <2>1. CASE Open(k)
    BY <1>3, <1>9, <2>1 DEF Turn
  <2>2. CASE ~Open(k)
    BY <1>2, <1>9, <2>2 DEF Over
  <2> QED
    BY <2>1, <2>2
<1>10. /\ {"error", "response", "start", "end", "schema"} \subseteq FrameTypes
       /\ Fits("call", "error") /\ Fits("call", "response") /\ Fits("stream", "error")
       /\ Fits("stream", "start") /\ Fits("stream", "end") /\ Fits("schema", "schema")
  BY DEF FrameTypes, Fits, Reply
<1>11. CASE TooLarge(k)
  <2>1. PICK q \in {"call", "stream"} : Reading(k, q)
    BY <1>11 DEF TooLarge
  <2> QED
    BY <1>9, <1>10, <1>11, <2>1 DEF TooLarge
<1>12. CASE Invalid(k)
  <2>1. Reading(k, "call")
    BY <1>12 DEF Invalid, Tasks
  <2> QED
    BY <1>9, <1>10, <1>12, <2>1 DEF Invalid
<1>13. CASE Respond(k)
  <2>1. Reading(k, "call")
    BY <1>13 DEF Respond, Tasks
  <2>2. CASE Turn(k, "serving") /\ Answer(k, "response")
    BY <1>3, <1>10, <1>13, <2>1, <2>2 DEF Respond, Turn
  <2>3. CASE \E p \in {"cut", "panicked"} : End(k, p) /\ UNCHANGED down
    BY <1>2, <1>13, <2>3 DEF Respond, Over
  <2> QED
    BY <1>13, <2>2, <2>3 DEF Respond
<1>14. CASE StreamRequest(k)
  <2>1. CASE Open(k)
    BY <1>3, <1>10, <1>14, <2>1 DEF StreamRequest
  <2>2. CASE ~Open(k)
    BY <1>2, <1>14, <2>2 DEF StreamRequest, Over
  <2> QED
    BY <2>1, <2>2
<1>15. CASE StreamEnd(k)
  <2>1. Reading(k, "stream")
    BY <1>15 DEF StreamEnd, Tasks
  <2>2. CASE Turn(k, "serving") /\ Answer(k, "end")
    BY <1>3, <1>10, <1>15, <2>1, <2>2 DEF StreamEnd, Turn
  <2>3. CASE \E p \in {"ended", "crashed"} : End(k, p) /\ UNCHANGED down
    BY <1>2, <1>15, <2>3 DEF StreamEnd, Over
  <2> QED
    BY <1>15, <2>2, <2>3 DEF StreamEnd
<1>16. CASE SchemaRequest(k)
  BY <1>9, <1>10, <1>16 DEF SchemaRequest
<1>17. CASE Disabled(k)
  BY <1>4, <1>17 DEF Disabled, Turn, Reading
<1>18. CASE Eof(k) \/ IdleTimeout(k)
  <2>1. End(k, "ended") /\ UNCHANGED <<clientVars, netVars>> /\ phase[k] # "none"
        /\ up[k] = << >>
    BY <1>18 DEF Eof, IdleTimeout
  <2>2. UNCHANGED <<down, torn>> /\ "ended" \in Over
    BY <2>1 DEF netVars, Over
  <2> QED
    BY <1>2, <2>1, <2>2
<1> QED
  BY <1>5, <1>6, <1>7, <1>8, <1>11, <1>12, <1>13, <1>14, <1>15, <1>16, <1>17, <1>18
     DEF ServerStep

(* With at most one frame on a connection, and no stream begun on it, a     *)
(* task takes that frame away or puts its answer in its place.              *)
LEMMA ServesOne ==
  ASSUME NetTypes, NEW k \in Conns, Serves(k), NetTypes',
         Len(up[k]) + Len(down[k]) <= 1,
         \A i \in DOMAIN up[k] : up[k][i].type # "stream"
  PROVE  /\ Len(up'[k]) + Len(down'[k]) <= 1
         /\ \A i \in DOMAIN up'[k] : i \in DOMAIN up[k] /\ up'[k][i] = up[k][i]
         /\ \A i \in DOMAIN down'[k] :
              \/ i \in DOMAIN down[k] /\ down'[k][i] = down[k][i]
              \/ /\ 1 \in DOMAIN up[k]
                 /\ \E t \in FrameTypes : /\ Fits(up[k][1].type, t)
                                          /\ down'[k][i] = Frame(t, up[k][1].op)
<1>1. /\ up[k] \in Seq(Frames) /\ down[k] \in Seq(Frames) /\ up'[k] \in Seq(Frames)
      /\ Len(up[k]) \in Nat /\ Len(down[k]) \in Nat /\ Len(<< >>) = 0
  BY DEF NetTypes
<1>2. CASE up[k] = << >>
  BY <1>1, <1>2 DEF Serves
<1>3. CASE up[k] # << >>
  <2>1. /\ Len(up[k]) = 1 /\ Tail(up[k]) = << >> /\ Head(up[k]) = up[k][1]
        /\ 1 \in DOMAIN up[k] /\ up[k][1] \in Frames
    <3>1. /\ Head(up[k]) = up[k][1] /\ 1 \in DOMAIN up[k] /\ up[k][1] \in Frames
          /\ Len(up[k]) \in Nat \ {0} /\ (Len(up[k]) = 1 => Tail(up[k]) = << >>)
      BY <1>1, <1>3, HeadTail
    <3> DEFINE m == Len(up[k])
               n == Len(down[k])
    <3>2. m \in Nat /\ m # 0 /\ n \in Nat /\ m + n <= 1
      BY <1>1, <3>1
    <3> HIDE DEF m, n
    <3>3. m = 1
      BY <3>2
    <3> QED
      BY <3>1, <3>3 DEF m
  <2>2. Len(down[k]) = 0 /\ down[k] = << >> /\ Head(up[k]).type # "stream"
    BY <1>1, <2>1
  <2>3. CASE down'[k] = down[k] /\ up'[k] \in {up[k], << >>}
    BY <1>1, <2>1, <2>2, <2>3
  <2>4. CASE ~(down'[k] = down[k] /\ up'[k] \in {up[k], << >>})
    <3>1. /\ up'[k] = << >>
          /\ \E t \in FrameTypes : /\ Fits(up[k][1].type, t)
                                   /\ down'[k] = Append(<< >>, Frame(t, up[k][1].op))
      BY <2>1, <2>2, <2>4 DEF Serves
    <3>2. PICK t \in FrameTypes : /\ Fits(up[k][1].type, t)
                                  /\ down'[k] = Append(<< >>, Frame(t, up[k][1].op))
      BY <3>1
    <3> DEFINE f == Frame(t, up[k][1].op)
    <3>3. f \in Frames
      BY <2>1 DEF Frame, Frames
    <3> HIDE DEF f
    <3>4. down'[k] = <<f>> /\ Len(<<f>>) = 1 /\ DOMAIN <<f>> = {1} /\ <<f>>[1] = f
      BY <3>2 DEF f
    <3>5. \A i \in DOMAIN down'[k] : down'[k][i] = f
      BY <3>4
    <3>6. Len(up'[k]) + Len(down'[k]) <= 1 /\ DOMAIN up'[k] = {}
      BY <1>1, <3>1, <3>4
    <3> QED
      BY <2>1, <3>2, <3>5, <3>6 DEF f
  <2> QED
    BY <2>3, <2>4
<1> QED
  BY <1>2, <1>3

(* A task answers on its own connection, and what fits the frame it read.   *)
LEMMA ServerSession ==
  ASSUME SessionInv, NEW k \in Conns, ServerStep(k) \/ IdleTimeout(k)
  PROVE  SessionInv'
<1>1. Serves(k) /\ NetTypes' /\ NetTypes /\ ClientTypes
  BY ServerServes DEF SessionInv
<1>2. /\ UNCHANGED <<pc, op, stream, temp, begun, ops, result, fault, dropped, torn>>
      /\ phase[k] # "none" /\ phase'[k] # "none"
      /\ \A j \in Conns \ {k} : phase'[j] = phase[j] /\ up'[j] = up[j] /\ down'[j] = down[j]
  BY <1>1 DEF Serves, clientVars
<1>3. up[k] = << >> => up'[k] = << >> /\ down'[k] = down[k]
  BY <1>1 DEF Serves
<1>4. ClientTypes' /\ Places' /\ InStep'
  BY <1>2 DEF SessionInv, ClientTypes, Places, InStep
<1>5. Tasks'
  BY <1>1, <1>2 DEF SessionInv, Tasks, Quiet, Reading, Serves
<1>6. Owners'
  <2>1. \A j \in Conns : phase[j] # "none" => phase'[j] # "none"
    BY <1>2
  <2>2. \A u \in Clients : {stream[u], temp[u]} \ {None} \subseteq Conns
    BY <1>1 DEF ClientTypes
  <2> QED
    BY <1>2, <2>1, <2>2 DEF SessionInv, Owners
<1>7. ASSUME NEW u \in Clients
      PROVE  Greeting(u)'
  <2> DEFINE j == temp[u]
  <2>0. Greeting(u) /\ (pc[u] \in {"hello", "ack"} => j \in Conns)
    BY <1>1 DEF SessionInv, Places, ClientTypes
  <2>1. CASE pc[u] = "hello"
    BY <1>2, <1>3, <2>0, <2>1 DEF Greeting, Quiet
  <2>2. CASE pc[u] = "ack" /\ j # k
    BY <1>2, <2>0, <2>2 DEF Greeting
  <2>3. CASE pc[u] = "ack" /\ j = k
    <3>1. /\ ~torn[k] /\ Len(up[k]) + Len(down[k]) <= 1
          /\ \A i \in DOMAIN up[k] : up[k][i].type = "handshake"
      BY <2>0, <2>3 DEF Greeting
    <3>2. /\ Len(up'[k]) + Len(down'[k]) <= 1
          /\ \A i \in DOMAIN up'[k] : i \in DOMAIN up[k] /\ up'[k][i] = up[k][i]
      BY <1>1, <3>1, ServesOne
    <3> QED
      BY <1>2, <2>3, <3>1, <3>2 DEF Greeting
  <2> QED
    BY <1>2, <2>1, <2>2, <2>3 DEF Greeting
<1>8. ASSUME NEW u \in Clients
      PROVE  Exchange(u)'
  <2> DEFINE j == stream[u]
  <2> SUFFICES ASSUME ~dropped[u], j # None
               PROVE  Exchange(u)'
    BY <1>2 DEF Exchange
  <2>0. Exchange(u) /\ j \in Conns /\ (pc[u] = "read" => op[u] \in Kinds)
    BY <1>1 DEF SessionInv, Places, ClientTypes
  <2>1. CASE pc[u] # "read"
    BY <1>2, <1>3, <2>0, <2>1 DEF Exchange, Quiet
  <2>2. CASE j # k
    BY <1>2, <2>0, <2>2 DEF Exchange, Quiet
  <2>3. CASE pc[u] = "read" /\ op[u] # "stream" /\ j = k
    <3>1. /\ ~torn[k] /\ Len(up[k]) + Len(down[k]) <= 1
          /\ \A i \in DOMAIN up[k] : up[k][i] = Frame(op[u], ops[u])
          /\ \A i \in DOMAIN down[k] : down[k][i].op = ops[u] /\ Fits(op[u], down[k][i].type)
      BY <2>0, <2>3 DEF Exchange
    <3>2. \A i \in DOMAIN up[k] : up[k][i].type = op[u] /\ up[k][i].op = ops[u]
      BY <3>1 DEF Frame
    <3>3. /\ Len(up'[k]) + Len(down'[k]) <= 1
          /\ \A i \in DOMAIN up'[k] : i \in DOMAIN up[k] /\ up'[k][i] = up[k][i]
          /\ \A i \in DOMAIN down'[k] :
               \/ i \in DOMAIN down[k] /\ down'[k][i] = down[k][i]
               \/ /\ 1 \in DOMAIN up[k]
                  /\ \E t \in FrameTypes : /\ Fits(up[k][1].type, t)
                                           /\ down'[k][i] = Frame(t, up[k][1].op)
      BY <1>1, <2>3, <3>1, <3>2, ServesOne
    <3>4. \A i \in DOMAIN down'[k] : down'[k][i].op = ops[u] /\ Fits(op[u], down'[k][i].type)
      <4> SUFFICES ASSUME NEW i \in DOMAIN down'[k]
                   PROVE  down'[k][i].op = ops[u] /\ Fits(op[u], down'[k][i].type)
        OBVIOUS
      <4>1. CASE i \in DOMAIN down[k] /\ down'[k][i] = down[k][i]
        BY <3>1, <4>1
      <4>2. CASE ~(i \in DOMAIN down[k] /\ down'[k][i] = down[k][i])
        <5>1. PICK t \in FrameTypes : /\ Fits(up[k][1].type, t)
                                      /\ down'[k][i] = Frame(t, up[k][1].op)
          BY <3>3, <4>2
        <5>2. up[k][1].type = op[u] /\ up[k][1].op = ops[u]
          BY <3>2, <3>3, <4>2
        <5> QED
          BY <5>1, <5>2 DEF Frame
      <4> QED
        BY <4>1, <4>2
    <3>5. \A i \in DOMAIN up'[k] : up'[k][i] = Frame(op[u], ops[u])
      BY <3>1, <3>3
    <3> QED
      BY <1>2, <2>3, <3>1, <3>3, <3>4, <3>5 DEF Exchange
  <2> QED
    BY <1>2, <2>1, <2>2, <2>3 DEF Exchange
<1> QED
  BY <1>1, <1>4, <1>5, <1>6, <1>7, <1>8 DEF SessionInv

------------------------------------------------------------------------------
\* What the steps of client u, but for dialling, have in common: they are about
\* its own two connections.
Minds(u) ==
  /\ \A v \in Clients \ {u} :
       /\ pc'[v] = pc[v] /\ op'[v] = op[v] /\ stream'[v] = stream[v] /\ temp'[v] = temp[v]
       /\ ops'[v] = ops[v] /\ result'[v] = result[v] /\ fault'[v] = fault[v]
       /\ dropped'[v] = dropped[v]
  /\ \A k \in Conns \ {stream[u], temp[u]} :
       up'[k] = up[k] /\ down'[k] = down[k] /\ torn'[k] = torn[k]
  /\ \A k \in Conns : up'[k] = up[k] \/ \E f \in Frames : up'[k] = Append(up[k], f)
  /\ stream'[u] \in {stream[u], temp[u], None} /\ temp'[u] \in {temp[u], None}
  /\ stream'[u] = temp'[u] => temp'[u] = None
  /\ phase' = phase

\* The parts of the invariant that are about client u alone.
Mine(u) ==
  /\ Greeting(u) /\ Exchange(u)
  /\ pc[u] \in {"hello", "ack"} <=> temp[u] # None
  /\ pc[u] \in {"write", "read"} => stream[u] # None /\ op[u] \in Kinds
  /\ ~dropped[u] => /\ result[u] \in {0, ops[u]}
                    /\ fault[u] = "frame" => op[u] = "stream"

LEMMA SessionParts ==
  SessionInv <=> /\ ClientTypes /\ NetTypes /\ Tasks /\ Owners
                 /\ \A u \in Clients : Mine(u)
  BY DEF SessionInv, Mine, Places, InStep

(* What is on one client's connections is nobody else's.                    *)
LEMMA ClientMinds ==
  ASSUME SessionInv, NEW u \in Clients, Minds(u), ClientTypes', NetTypes', Mine(u)'
  PROVE  SessionInv'
<1>1. /\ ClientTypes /\ NetTypes /\ Tasks /\ Owners /\ \A v \in Clients : Mine(v)
      /\ \A v \in Clients : stream[v] \in Conns \cup {None} /\ temp[v] \in Conns \cup {None}
  BY SessionParts DEF SessionInv, ClientTypes
<1>2. \A k \in {stream[u], temp[u]} \ {None} : phase[k] # "none"
  BY <1>1 DEF Owners
<1>3. Tasks'
  <2> SUFFICES ASSUME NEW k \in Conns
               PROVE  /\ phase[k] = "none" => Quiet(k)'
                      /\ phase[k] = "handling" => Reading(k, "call")'
                      /\ phase[k] = "streaming" => Reading(k, "stream")'
    BY DEF Tasks, Minds
  <2>0. k # None
    BY DEF Conns, None
  <2>1. phase[k] = "none" => Quiet(k)'
    BY <1>1, <1>2, <2>0 DEF Minds, Tasks, Quiet
  <2>2. \A q : Reading(k, q) => Reading(k, q)'
    <3>1. up[k] \in Seq(Frames)
      BY <1>1 DEF NetTypes
    <3>2. CASE up'[k] = up[k]
      BY <3>2 DEF Reading
    <3>3. ASSUME NEW f \in Frames, up'[k] = Append(up[k], f)
          PROVE  \A q : Reading(k, q) => Reading(k, q)'
      BY <3>1, <3>3, AppendFrame DEF Reading
    <3> QED
      BY <3>2, <3>3 DEF Minds
  <2> QED
    BY <1>1, <2>1, <2>2 DEF Tasks
<1>4. Owners'
  <2>1. {stream'[u], temp'[u]} \subseteq {stream[u], temp[u], None}
    BY DEF Minds
  <2>2. ASSUME NEW v \in Clients, NEW w \in Clients, v # w
        PROVE  {stream'[v], temp'[v]} \cap {stream'[w], temp'[w]} \subseteq {None}
    BY <1>1, <2>1, <2>2 DEF Owners, Minds
  <2>3. ASSUME NEW v \in Clients
        PROVE  /\ stream'[v] = temp'[v] => temp'[v] = None
               /\ \A k \in {stream'[v], temp'[v]} \ {None} : phase'[k] # "none"
    BY <1>1, <2>1, <2>3 DEF Owners, Minds
  <2> QED
    BY <2>2, <2>3 DEF Owners
<1>5. ASSUME NEW v \in Clients, v # u
      PROVE  Mine(v)'
  <2>1. /\ pc'[v] = pc[v] /\ op'[v] = op[v] /\ stream'[v] = stream[v] /\ temp'[v] = temp[v]
        /\ ops'[v] = ops[v] /\ result'[v] = result[v] /\ fault'[v] = fault[v]
        /\ dropped'[v] = dropped[v]
    BY <1>5 DEF Minds
  <2>2. \A k \in {stream[v], temp[v]} \ {None} :
          up'[k] = up[k] /\ down'[k] = down[k] /\ torn'[k] = torn[k]
    <3>1. {stream[v], temp[v]} \cap {stream[u], temp[u]} \subseteq {None}
      BY <1>1, <1>5 DEF Owners
    <3>2. {stream[v], temp[v]} \ {None} \subseteq Conns \ {stream[u], temp[u]}
      BY <1>1, <3>1
    <3> QED
      BY <3>2 DEF Minds
  <2>3. Mine(v) /\ (pc[v] \in {"hello", "ack"} => temp[v] # None)
    BY <1>1 DEF Mine
  <2>4. Greeting(v)'
    <3>1. CASE pc[v] \in {"hello", "ack"}
      <4> DEFINE k == temp[v]
      <4>1. up'[k] = up[k] /\ down'[k] = down[k] /\ torn'[k] = torn[k] /\ Greeting(v)
        BY <2>2, <2>3, <3>1 DEF Mine
      <4> QED
        BY <2>1, <4>1 DEF Greeting, Quiet
    <3>2. CASE pc[v] \notin {"hello", "ack"}
      BY <2>1, <3>2 DEF Greeting
    <3> QED
      BY <3>1, <3>2
  <2>5. Exchange(v)'
    <3>1. CASE stream[v] # None
      <4> DEFINE k == stream[v]
      <4>1. up'[k] = up[k] /\ down'[k] = down[k] /\ torn'[k] = torn[k] /\ Exchange(v)
        BY <2>2, <2>3, <3>1 DEF Mine
      <4> QED
        BY <2>1, <4>1 DEF Exchange, Quiet
    <3>2. CASE stream[v] = None
      BY <2>1, <3>2 DEF Exchange
    <3> QED
      BY <3>1, <3>2
  <2> QED
    BY <2>1, <2>3, <2>4, <2>5 DEF Mine
<1> QED
  BY <1>3, <1>4, <1>5 DEF SessionInv, Mine, Places, InStep

(* Sockets that are dropped take along what was not read from them.         *)
LEMMA Discarded ==
  ASSUME NetTypes, NEW K, Discard(K)
  PROVE  /\ down' \in [Conns -> Seq(Frames)] /\ torn' \in [Conns -> BOOLEAN]
         /\ \A k \in Conns \ K : down'[k] = down[k] /\ torn'[k] = torn[k]
         /\ \A k \in Conns \cap K : down'[k] = << >> /\ ~torn'[k]
<1>1. << >> \in Seq(Frames)
  OBVIOUS
<1> QED
  BY <1>1 DEF Discard, NetTypes

(* Operations that fail before they have a stream keep the former one; those*)
(* that fail on the stream drop it.                                         *)
LEMMA Leaves ==
  ASSUME SessionInv, NEW u \in Clients, Leave(u, "error"),
         UNCHANGED <<op, begun, ops, result, phase, up>>,
         dropped' = [dropped EXCEPT ![u] = dropped'[u]], dropped'[u] \in BOOLEAN,
         ~dropped'[u] => ~dropped[u] /\ pc[u] # "read"
  PROVE  SessionInv'
<1>1. ClientTypes /\ NetTypes /\ Owners /\ Mine(u)
  BY SessionParts
<1>2. /\ down' \in [Conns -> Seq(Frames)] /\ torn' \in [Conns -> BOOLEAN]
      /\ \A k \in Conns \ {temp[u]} : down'[k] = down[k] /\ torn'[k] = torn[k]
  BY <1>1, Discarded DEF Leave
<1>3. /\ pc' = [pc EXCEPT ![u] = "idle"] /\ temp' = [temp EXCEPT ![u] = None]
      /\ fault' = [fault EXCEPT ![u] = "error"] /\ stream' = stream
  BY DEF Leave, Goto
<1>4. ClientTypes' /\ NetTypes'
  BY <1>1, <1>2, <1>3 DEF ClientTypes, NetTypes
<1>5. Minds(u)
  BY <1>1, <1>2, <1>3 DEF Minds, ClientTypes, NetTypes
<1>6. pc'[u] = "idle" /\ temp'[u] = None /\ fault'[u] = "error" /\ stream'[u] = stream[u]
  BY <1>1, <1>3 DEF ClientTypes
<1>7. Greeting(u)'
  BY <1>6 DEF Greeting
<1>8. Exchange(u)'
  <2> SUFFICES ASSUME ~dropped'[u], stream[u] # None
               PROVE  Quiet(stream[u])'
    BY <1>6 DEF Exchange
  <2>1. Quiet(stream[u]) /\ stream[u] # temp[u] /\ stream[u] \in Conns
    BY <1>1 DEF Mine, Exchange, Owners, ClientTypes
  <2> QED
    BY <1>2, <1>3, <2>1 DEF Quiet
<1>9. Mine(u)'
  BY <1>1, <1>6, <1>7, <1>8 DEF Mine
<1> QED
  BY <1>4, <1>5, <1>9, ClientMinds

LEMMA Drops ==
  ASSUME SessionInv, NEW u \in Clients, pc[u] \in {"write", "read"},
         NEW e \in {"error", "frame"}, DropStream(u, e),
         ~dropped[u] /\ e = "frame" => op[u] = "stream",
         UNCHANGED <<op, begun, ops, result, dropped, phase, up>>
  PROVE  SessionInv'
<1>1. ClientTypes /\ NetTypes /\ Owners /\ Mine(u)
  BY SessionParts
<1>2. /\ down' \in [Conns -> Seq(Frames)] /\ torn' \in [Conns -> BOOLEAN]
      /\ \A k \in Conns \ {stream[u]} : down'[k] = down[k] /\ torn'[k] = torn[k]
  BY <1>1, Discarded DEF DropStream
<1>3. /\ pc' = [pc EXCEPT ![u] = "idle"] /\ stream' = [stream EXCEPT ![u] = None]
      /\ fault' = [fault EXCEPT ![u] = e] /\ temp' = temp
  BY DEF DropStream, Goto
<1>4. ClientTypes' /\ NetTypes'
  BY <1>1, <1>2, <1>3 DEF ClientTypes, NetTypes
<1>5. temp[u] = None
  BY <1>1 DEF Mine
<1>6. pc'[u] = "idle" /\ stream'[u] = None /\ fault'[u] = e /\ temp'[u] = None
  BY <1>1, <1>3, <1>5 DEF ClientTypes
<1>7. Minds(u)
  BY <1>1, <1>2, <1>3, <1>6 DEF Minds, ClientTypes, NetTypes
<1>8. Mine(u)'
  BY <1>1, <1>6 DEF Mine, Greeting, Exchange
<1> QED
  BY <1>4, <1>7, <1>8, ClientMinds

(* The steps of a client, one by one.                                       *)
LEMMA ClientSession ==
  ASSUME SessionInv, NEW u \in Clients,
         \/ \E o \in Kinds \cup {"connect"} : Start(u, o)
         \/ Close(u) \/ ClientStep(u) \/ Abandon(u)
  PROVE  SessionInv'
<1> DEFINE s == stream[u]
           t == temp[u]
<1>1. ClientTypes /\ NetTypes /\ Tasks /\ Owners /\ Mine(u)
  BY SessionParts
<1>2. /\ s \in Conns \cup {None} /\ t \in Conns \cup {None} /\ None \notin Conns
      /\ s = t => t = None
      /\ up \in [Conns -> Seq(Frames)] /\ down \in [Conns -> Seq(Frames)]
      /\ torn \in [Conns -> BOOLEAN] /\ \A k \in Conns : up[k] \in Seq(Frames)
  <2>1. s \in Conns \cup {None} /\ t \in Conns \cup {None}
    BY <1>1 DEF ClientTypes
  <2>2. None \notin Conns
    BY UdsAssumption DEF Conns, None
  <2>3. s = t => t = None
    BY <1>1 DEF Owners
  <2>4. /\ up \in [Conns -> Seq(Frames)] /\ down \in [Conns -> Seq(Frames)]
        /\ torn \in [Conns -> BOOLEAN]
    BY <1>1 DEF NetTypes
  <2>5. \A k \in Conns : up[k] \in Seq(Frames)
    BY <2>4
  <2> QED
    BY <2>1, <2>2, <2>3, <2>4, <2>5
<1>3. CASE \E o \in Kinds \cup {"connect"} : Start(u, o)
  <2>1. PICK o \in Kinds \cup {"connect"} : Start(u, o)
    BY <1>3
  <2>2. UNCHANGED <<stream, temp, dropped, phase, up, down, torn>> /\ pc[u] = "idle"
    BY <2>1 DEF Start, netVars
  <2>3. ClientTypes' /\ NetTypes'
    BY <1>1, <2>1, <2>2 DEF Start, Goto, ClientTypes, NetTypes
  <2>4. Minds(u)
    BY <1>1, <1>2, <2>1, <2>2 DEF Minds, Start, Goto
  <2>5. /\ pc'[u] = IF o \in Kinds /\ s # None THEN "write" ELSE "dial"
        /\ op'[u] = o /\ result'[u] = 0 /\ fault'[u] = "none"
    BY <1>1, <2>1 DEF Start, Goto, ClientTypes
  <2>6. Mine(u)'
    BY <1>1, <2>2, <2>5 DEF Mine, Greeting, Exchange, Quiet
  <2> QED
    BY <2>3, <2>4, <2>6, ClientMinds
<1>4. CASE Close(u)
  <2>1. /\ UNCHANGED <<pc, op, temp, begun, ops, result, fault, dropped, phase, up>>
        /\ pc[u] = "idle" /\ stream' = [stream EXCEPT ![u] = None]
    BY <1>4 DEF Close
  <2>2. /\ down' \in [Conns -> Seq(Frames)] /\ torn' \in [Conns -> BOOLEAN]
        /\ \A k \in Conns \ {s} : down'[k] = down[k] /\ torn'[k] = torn[k]
    BY <1>1, <1>4, Discarded DEF Close
  <2>3. ClientTypes' /\ NetTypes'
    BY <1>1, <2>1, <2>2 DEF ClientTypes, NetTypes
  <2>4. t = None /\ stream'[u] = None
    BY <1>1, <2>1 DEF Mine, ClientTypes
  <2>5. Minds(u)
    BY <1>1, <2>1, <2>2, <2>4 DEF Minds
  <2>6. Mine(u)'
    BY <1>1, <2>1, <2>4 DEF Mine, Greeting, Exchange
  <2> QED
    BY <2>3, <2>5, <2>6, ClientMinds
<1>5. CASE ConnectFails(u) \/ Rejected(u)
  <2>1. /\ Leave(u, "error") /\ UNCHANGED <<op, begun, ops, result, dropped, phase, up>>
        /\ pc[u] # "read"
    BY <1>5 DEF ConnectFails, Rejected
  <2>2. dropped' = [dropped EXCEPT ![u] = dropped'[u]] /\ dropped'[u] \in BOOLEAN
    BY <1>1, <2>1 DEF ClientTypes
  <2> QED
    BY <2>1, <2>2, Leaves
<1>6. CASE Dial(u)
  <2>1. PICK k \in Conns : /\ phase[k] = "none" /\ phase' = [phase EXCEPT ![k] = "queued"]
                           /\ temp' = [temp EXCEPT ![u] = k]
    BY <1>6 DEF Dial
  <2>2. /\ UNCHANGED <<op, stream, begun, ops, result, fault, dropped, up, down, torn>>
        /\ pc[u] = "dial" /\ pc' = [pc EXCEPT ![u] = "hello"]
    BY <1>6 DEF Dial, Goto, netVars
  <2>3. ClientTypes' /\ NetTypes'
    BY <1>1, <2>1, <2>2 DEF ClientTypes, NetTypes, Phases
  <2>4. Quiet(k) /\ k # None /\ \A v \in Clients : k \notin {stream[v], temp[v]}
    BY <1>1, <1>2, <2>1 DEF Tasks, Owners
  <2>5. Tasks'
    BY <1>1, <2>1, <2>2 DEF Tasks, Quiet, Reading, NetTypes
  <2>6. /\ pc'[u] = "hello" /\ temp'[u] = k
        /\ \A v \in Clients \ {u} : pc'[v] = pc[v] /\ temp'[v] = temp[v]
        /\ \A j \in Conns : phase'[j] = "none" => phase[j] = "none" /\ j # k
    BY <1>1, <2>1, <2>2 DEF ClientTypes, NetTypes
  <2>7. Owners'
    <3>1. ASSUME NEW v \in Clients, NEW w \in Clients, v # w
          PROVE  {stream'[v], temp'[v]} \cap {stream'[w], temp'[w]} \subseteq {None}
      BY <1>1, <2>2, <2>4, <2>6, <3>1 DEF Owners
    <3>2. ASSUME NEW v \in Clients
          PROVE  /\ stream'[v] = temp'[v] => temp'[v] = None
                 /\ \A j \in {stream'[v], temp'[v]} \ {None} : phase'[j] # "none"
      <4>1. {stream[v], temp[v]} \subseteq Conns \cup {None}
        BY <1>1 DEF ClientTypes
      <4> QED
        BY <1>1, <2>2, <2>4, <2>6, <3>2, <4>1 DEF Owners
    <3> QED
      BY <3>1, <3>2 DEF Owners
  <2>8. Mine(u)'
    BY <1>1, <2>2, <2>4, <2>6 DEF Mine, Greeting, Exchange, Quiet
  <2>9. ASSUME NEW v \in Clients, v # u
        PROVE  Mine(v)'
    <3>1. Mine(v) /\ pc'[v] = pc[v] /\ temp'[v] = temp[v]
      BY <2>6, <2>9, SessionParts
    <3> QED
      BY <2>2, <3>1 DEF Mine, Greeting, Exchange, Quiet
  <2> QED
    BY <2>3, <2>5, <2>7, <2>8, <2>9 DEF SessionInv, Mine, Places, InStep
\* The one frame that is written to a connection that was quiet.
<1>7. ASSUME NEW k \in Conns, NEW y \in FrameTypes, Quiet(k), Send(k, Frame(y, ops[u]))
      PROVE  /\ up' \in [Conns -> Seq(Frames)] /\ up'[k] = <<Frame(y, ops[u])>>
             /\ \A j \in Conns : up'[j] = up[j] \/ \E f \in Frames : up'[j] = Append(up[j], f)
             /\ \A j \in Conns \ {k} : up'[j] = up[j]
             /\ Len(up'[k]) = 1 /\ \A i \in DOMAIN up'[k] : up'[k][i] = Frame(y, ops[u])
  <2> DEFINE f == Frame(y, ops[u])
  <2>1. f \in Frames
    BY <1>1 DEF Frame, Frames, ClientTypes
  <2> HIDE DEF f
  <2>2. up' = [up EXCEPT ![k] = <<f>>] /\ up[k] = << >> /\ Append(up[k], f) = <<f>>
    BY <1>7, <1>2 DEF Send, Quiet, f
  <2>3. <<f>> \in Seq(Frames) /\ Len(<<f>>) = 1 /\ DOMAIN <<f>> = {1} /\ <<f>>[1] = f
    BY <2>1
  <2>4. up'[k] = <<f>> /\ \A j \in Conns \ {k} : up'[j] = up[j]
    BY <1>2, <2>2
  <2>5. up' \in [Conns -> Seq(Frames)]
    BY <1>2, <2>2, <2>3
  <2>6. \A i \in DOMAIN up'[k] : up'[k][i] = f
    BY <2>3, <2>4
  <2>7. \A j \in Conns : up'[j] = up[j] \/ \E g \in Frames : up'[j] = Append(up[j], g)
    BY <2>1, <2>2, <2>4
  <2> QED
    BY <2>3, <2>4, <2>5, <2>6, <2>7 DEF f
<1>8. CASE Hello(u)
  <2>1. /\ Send(t, Frame("handshake", ops[u])) /\ pc[u] = "hello" /\ Goto(u, "ack")
        /\ UNCHANGED <<op, stream, temp, begun, ops, result, fault, dropped, phase, down, torn>>
    BY <1>8 DEF Hello
  <2>2. t \in Conns /\ Quiet(t) /\ "handshake" \in FrameTypes /\ t # s
    BY <1>1, <1>2, <2>1 DEF Mine, Greeting, FrameTypes
  <2>3. /\ up' \in [Conns -> Seq(Frames)] /\ Len(up'[t]) = 1
        /\ \A j \in Conns : up'[j] = up[j] \/ \E f \in Frames : up'[j] = Append(up[j], f)
        /\ \A j \in Conns \ {t} : up'[j] = up[j]
        /\ \A i \in DOMAIN up'[t] : up'[t][i].type = "handshake"
    BY <1>7, <2>1, <2>2 DEF Frame
  <2>4. pc' = [pc EXCEPT ![u] = "ack"] /\ pc'[u] = "ack"
    BY <1>1, <2>1 DEF Goto, ClientTypes
  <2>5. ClientTypes' /\ NetTypes'
    BY <1>1, <2>1, <2>3, <2>4 DEF ClientTypes, NetTypes
  <2>6. Minds(u)
    BY <1>1, <1>2, <2>1, <2>3, <2>4 DEF Minds
  <2>7. Greeting(u)'
    <3>1. down'[t] = << >> /\ ~torn'[t] /\ Len(down'[t]) = 0
      BY <2>1, <2>2 DEF Quiet
    <3> QED
      BY <2>1, <2>3, <2>4, <3>1 DEF Greeting
  <2>8. Exchange(u)'
    BY <1>1, <1>2, <2>1, <2>2, <2>3, <2>4 DEF Mine, Exchange, Quiet
  <2>9. Mine(u)'
    BY <1>1, <2>1, <2>4, <2>7, <2>8 DEF Mine
  <2> QED
    BY <2>5, <2>6, <2>9, ClientMinds
<1>9. CASE Write(u)
  <2>1. /\ Send(s, Frame(op[u], ops[u])) /\ pc[u] = "write" /\ Goto(u, "read")
        /\ UNCHANGED <<op, stream, temp, begun, ops, result, fault, dropped, phase, down, torn>>
    BY <1>9 DEF Write
  <2>2. s \in Conns /\ op[u] \in Kinds /\ op[u] \in FrameTypes /\ op[u] \in {"call", "stream", "schema"}
    BY <1>1, <1>2, <2>1 DEF Mine, FrameTypes, Kinds
  <2>3. pc' = [pc EXCEPT ![u] = "read"] /\ pc'[u] = "read"
    BY <1>1, <2>1 DEF Goto, ClientTypes
  <2>4. up' = [up EXCEPT ![s] = Append(up[s], Frame(op[u], ops[u]))]
    BY <2>1 DEF Send
  <2>5. Frame(op[u], ops[u]) \in Frames
    BY <1>1, <2>2 DEF Frame, Frames, ClientTypes
  <2>6. ClientTypes' /\ NetTypes'
    BY <1>1, <1>2, <2>1, <2>2, <2>3, <2>4, <2>5, AppendFrame DEF ClientTypes, NetTypes
  <2>7. Minds(u)
    <3>1. \A k \in Conns : up'[k] = up[k] \/ \E f \in Frames : up'[k] = Append(up[k], f)
      BY <1>2, <2>4, <2>5
    <3>2. \A k \in Conns \ {s, t} : up'[k] = up[k] /\ down'[k] = down[k] /\ torn'[k] = torn[k]
      BY <1>2, <2>1, <2>4
    <3>3. \A v \in Clients \ {u} :
            /\ pc'[v] = pc[v] /\ op'[v] = op[v] /\ stream'[v] = stream[v] /\ temp'[v] = temp[v]
            /\ ops'[v] = ops[v] /\ result'[v] = result[v] /\ fault'[v] = fault[v]
            /\ dropped'[v] = dropped[v]
      BY <1>1, <2>1, <2>3 DEF ClientTypes
    <3>4. /\ stream'[u] \in {s, t, None} /\ temp'[u] \in {t, None}
          /\ stream'[u] = temp'[u] => temp'[u] = None
          /\ phase' = phase
      BY <1>2, <2>1
    <3> QED
      BY <3>1, <3>2, <3>3, <3>4 DEF Minds
  <2>8. Exchange(u)'
    <3> SUFFICES ASSUME ~dropped[u]
                 PROVE  Exchange(u)'
      BY <2>1 DEF Exchange
    <3>1. Quiet(s)
      BY <1>1, <2>1, <2>2, <1>2 DEF Mine, Exchange
    <3>2. /\ Len(up'[s]) = 1 /\ \A i \in DOMAIN up'[s] : up'[s][i] = Frame(op[u], ops[u])
      BY <1>7, <2>1, <2>2, <3>1
    <3>3. down'[s] = << >> /\ ~torn'[s] /\ Len(down'[s]) = 0 /\ DOMAIN down'[s] = {}
      BY <2>1, <3>1 DEF Quiet
    <3> QED
      BY <2>1, <2>3, <3>2, <3>3 DEF Exchange
  <2>9. Mine(u)'
    BY <1>1, <2>1, <2>2, <2>3, <2>8 DEF Mine, Greeting
  <2> QED
    BY <2>6, <2>7, <2>9, ClientMinds
<1>10. CASE ReadAck(u)
  <2>1. /\ pc[u] = "ack" /\ down[t] # << >> /\ Discard({t, s})
        /\ stream' = [stream EXCEPT ![u] = t] /\ temp' = [temp EXCEPT ![u] = None]
        /\ Goto(u, IF op[u] \in Kinds THEN "write" ELSE "idle")
        /\ UNCHANGED <<op, begun, ops, result, fault, dropped, phase, up>>
    BY <1>10 DEF ReadAck
  <2>2. t \in Conns /\ Len(up[t]) + Len(down[t]) <= 1
    BY <1>1, <1>2, <2>1 DEF Mine, Greeting
  <2>3. up[t] = << >>
    <3> DEFINE m == Len(up[t])
               n == Len(down[t])
    <3>1. m \in Nat /\ n \in Nat /\ n # 0 /\ m + n <= 1
      BY <1>2, <2>1, <2>2
    <3>2. m = 0
      <4> HIDE DEF m, n
      <4> QED
        BY <3>1
    <3> QED
      BY <1>2, <2>2, <3>2
  <2>4. /\ down' \in [Conns -> Seq(Frames)] /\ torn' \in [Conns -> BOOLEAN]
        /\ \A k \in Conns \ {t, s} : down'[k] = down[k] /\ torn'[k] = torn[k]
        /\ down'[t] = << >> /\ ~torn'[t]
    BY <1>1, <2>1, <2>2, Discarded
  <2>5. /\ pc' = [pc EXCEPT ![u] = IF op[u] \in Kinds THEN "write" ELSE "idle"]
        /\ pc'[u] = IF op[u] \in Kinds THEN "write" ELSE "idle"
        /\ stream'[u] = t /\ temp'[u] = None
    BY <1>1, <2>1 DEF Goto, ClientTypes
  <2>6. ClientTypes' /\ NetTypes'
    BY <1>1, <2>1, <2>2, <2>4, <2>5 DEF ClientTypes, NetTypes
  <2>7. Minds(u)
    BY <1>1, <1>2, <2>1, <2>4, <2>5 DEF Minds
  <2>8. Mine(u)'
    BY <1>1, <1>2, <2>1, <2>2, <2>3, <2>4, <2>5 DEF Mine, Greeting, Exchange, Quiet
  <2> QED
    BY <2>6, <2>7, <2>8, ClientMinds
<1>11. CASE ExchangeFails(u)
  BY <1>11, Drops DEF ExchangeFails
<1>12. CASE Read(u)
  <2> DEFINE f == Head(down[s])
             rest == Tail(down[s])
  <2>1. /\ pc[u] = "read" /\ ~torn[s] /\ down[s] # << >> /\ s \in Conns /\ op[u] \in Kinds
        /\ UNCHANGED <<op, begun, ops, dropped, phase, up>>
    BY <1>1, <1>2, <1>12 DEF Read, Mine
  <2>2. /\ f = down[s][1] /\ f \in Frames /\ 1 \in DOMAIN down[s] /\ rest \in Seq(Frames)
        /\ Len(down[s]) \in Nat \ {0} /\ Len(rest) = Len(down[s]) - 1
    BY <1>2, <2>1, HeadTail
  <2>3. ASSUME ~dropped[u], op[u] # "stream"
        PROVE  /\ f.op = ops[u] /\ Fits(op[u], f.type) /\ rest = << >> /\ up[s] = << >>
    <3>1. /\ Len(up[s]) + Len(down[s]) <= 1
          /\ \A i \in DOMAIN down[s] : down[s][i].op = ops[u] /\ Fits(op[u], down[s][i].type)
      BY <1>1, <1>2, <2>1, <2>3 DEF Mine, Exchange
    <3> DEFINE m == Len(up[s])
               n == Len(down[s])
    <3>2. m \in Nat /\ n \in Nat /\ n # 0 /\ m + n <= 1
      BY <1>2, <2>1, <2>2, <3>1
    <3>3. m = 0 /\ n = 1
      <4> HIDE DEF m, n
      <4> QED
        BY <3>2
    <3>4. up[s] = << >>
      BY <1>2, <2>1, <3>3
    <3>5. rest = << >>
      BY <1>2, <2>1, <3>3, HeadTail
    <3> QED
      BY <2>2, <3>1, <3>4, <3>5
  <2>4. CASE /\ Succeeds(u, f) /\ result' = [result EXCEPT ![u] = f.op]
             /\ Goto(u, "idle") /\ Forget(s, rest) /\ UNCHANGED <<stream, temp, fault>>
    <3>1. op[u] # "stream"
      <4>1. "mode" \in StreamResponse /\ "mode" \notin EndFields
        BY DEF StreamResponse, EndFields
      <4>2. "stream" \notin DOMAIN Reply
        BY DEF Reply
      <4> QED
        BY <2>4, <4>1, <4>2 DEF Succeeds
    <3>2. /\ down' \in [Conns -> Seq(Frames)] /\ torn' \in [Conns -> BOOLEAN]
          /\ \A k \in Conns \ {s} : down'[k] = down[k] /\ torn'[k] = torn[k]
          /\ rest = << >> => down'[s] = << >> /\ torn' = torn
      <4>1. CASE /\ torn' = torn
                 /\ \E n \in 0..Len(rest) : down' = [down EXCEPT ![s] = SubSeq(rest, n + 1, Len(rest))]
        <5>1. PICK n \in 0..Len(rest) : down' = [down EXCEPT ![s] = SubSeq(rest, n + 1, Len(rest))]
          BY <4>1
        <5> HIDE DEF rest
        <5>2. SubSeq(rest, n + 1, Len(rest)) \in Seq(Frames)
          BY <2>2
        <5>3. rest = << >> => SubSeq(rest, n + 1, Len(rest)) = << >>
          BY <2>2
        <5> QED
          BY <1>2, <2>1, <4>1, <5>1, <5>2, <5>3
      <4>2. CASE /\ rest # << >> /\ torn' = [torn EXCEPT ![s] = TRUE]
                 /\ down' = [down EXCEPT ![s] = rest]
        BY <1>2, <2>1, <2>2, <4>2
      <4> QED
        BY <2>4, <4>1, <4>2 DEF Forget
    <3>3. pc' = [pc EXCEPT ![u] = "idle"] /\ pc'[u] = "idle" /\ result'[u] = f.op /\ f.op \in Nat
      BY <1>1, <2>2, <2>4 DEF Goto, ClientTypes, Frames
    <3>4. ClientTypes' /\ NetTypes'
      BY <1>1, <2>1, <2>4, <3>2, <3>3 DEF ClientTypes, NetTypes
    <3>5. t = None
      BY <1>1, <2>1 DEF Mine
    <3>6. Minds(u)
      BY <1>1, <1>2, <2>1, <2>4, <3>2, <3>3, <3>5 DEF Minds
    <3>7. Exchange(u)'
      BY <2>1, <2>3, <2>4, <3>1, <3>2, <3>3 DEF Exchange, Quiet
    <3>8. Mine(u)'
      BY <1>1, <2>1, <2>3, <2>4, <3>1, <3>3, <3>5, <3>7 DEF Mine, Greeting
    <3> QED
      BY <3>4, <3>6, <3>8, ClientMinds
  <2>5. CASE /\ op[u] = "stream" /\ down' = [down EXCEPT ![s] = rest]
             /\ UNCHANGED <<pc, stream, temp, result, fault, torn>>
    <3>1. ClientTypes' /\ NetTypes'
      BY <1>1, <2>1, <2>2, <2>5 DEF ClientTypes, NetTypes
    <3>2. t = None
      BY <1>1, <2>1 DEF Mine
    <3>3. Minds(u)
      BY <1>1, <1>2, <2>1, <2>5, <3>2 DEF Minds
    <3>4. Mine(u)'
      BY <1>1, <2>1, <2>5, <3>2 DEF Mine, Greeting, Exchange
    <3> QED
      BY <3>1, <3>3, <3>4, ClientMinds
  <2>6. CASE /\ ~Succeeds(u, f) /\ UNCHANGED result
             /\ DropStream(u, IF f.type = "error" THEN "error" ELSE "frame")
    <3> DEFINE e == IF f.type = "error" THEN "error" ELSE "frame"
    <3>1. ~dropped[u] /\ e = "frame" => op[u] = "stream"
      <4> SUFFICES ASSUME ~dropped[u], op[u] # "stream", f.type # "error"
                   PROVE  FALSE
        OBVIOUS
      <4>1. op[u] \in {"call", "schema"} /\ DOMAIN Reply = {"call", "schema"}
        BY <2>1 DEF Kinds, Reply
      <4>2. f.type = Reply[op[u]]
        BY <2>3, <4>1 DEF Fits
      <4> QED
        BY <2>6, <4>1, <4>2 DEF Succeeds
    <3>2. e \in {"error", "frame"} /\ pc[u] \in {"write", "read"} /\ DropStream(u, e)
      BY <2>1, <2>6
    <3>3. UNCHANGED <<op, begun, ops, result, dropped, phase, up>>
      BY <2>1, <2>6
    <3> HIDE DEF e
    <3> QED
      BY <3>1, <3>2, <3>3, Drops
  <2> QED
    BY <1>12, <2>4, <2>5, <2>6 DEF Read
<1>13. CASE Abandon(u)
  <2>1. /\ UNCHANGED <<op, begun, ops, result, phase, up>>
        /\ dropped' = [dropped EXCEPT ![u] = TRUE] /\ dropped'[u] = TRUE
    BY <1>1, <1>13 DEF Abandon, ClientTypes
  <2>2. CASE Leave(u, "error")
    BY <2>1, <2>2, Leaves
  <2>3. CASE /\ pc[u] = "read" /\ Goto(u, "idle") /\ torn' = [torn EXCEPT ![s] = TRUE]
             /\ fault' = [fault EXCEPT ![u] = "error"] /\ UNCHANGED <<stream, temp, down>>
    <3>1. pc' = [pc EXCEPT ![u] = "idle"] /\ pc'[u] = "idle" /\ t = None
      BY <1>1, <2>3 DEF Goto, ClientTypes, Mine
    <3>2. ClientTypes' /\ NetTypes'
      BY <1>1, <2>1, <2>3, <3>1 DEF ClientTypes, NetTypes
    <3>3. Minds(u)
      <4>1. \A k \in Conns \ {s, t} : up'[k] = up[k] /\ down'[k] = down[k] /\ torn'[k] = torn[k]
        BY <1>2, <2>1, <2>3
      <4>2. \A v \in Clients \ {u} :
              /\ pc'[v] = pc[v] /\ op'[v] = op[v] /\ stream'[v] = stream[v] /\ temp'[v] = temp[v]
              /\ ops'[v] = ops[v] /\ result'[v] = result[v] /\ fault'[v] = fault[v]
              /\ dropped'[v] = dropped[v]
        BY <1>1, <1>13, <2>1, <2>3, <3>1 DEF ClientTypes, Abandon
      <4>3. /\ stream'[u] \in {s, t, None} /\ temp'[u] \in {t, None}
            /\ stream'[u] = temp'[u] => temp'[u] = None
            /\ phase' = phase
        BY <1>2, <2>1, <2>3
      <4> QED
        BY <2>1, <4>1, <4>2, <4>3 DEF Minds
    <3>4. Mine(u)'
      BY <2>1, <2>3, <3>1 DEF Mine, Greeting, Exchange
    <3> QED
      BY <3>2, <3>3, <3>4, ClientMinds
  <2> QED
    BY <1>13, <2>2, <2>3 DEF Abandon
<1> QED
  BY <1>3, <1>4, <1>5, <1>6, <1>8, <1>9, <1>10, <1>11, <1>12, <1>13 DEF ClientStep

(* Frames never get out of step: whatever the server does, and whoever else *)
(* is at it, a client has on its streams what it waits for and no more.     *)
THEOREM SessionInvariant == Spec => []SessionInv
<1>1. Init => SessionInv
  <2> SUFFICES ASSUME Init PROVE SessionInv
    OBVIOUS
  <2>1. << >> \in Seq(Frames)
    OBVIOUS
  <2>2. ClientTypes /\ NetTypes
    BY <2>1 DEF Init, ClientTypes, NetTypes, Kinds, None, Phases
  <2>3. Tasks /\ Owners /\ Places /\ InStep
    BY DEF Init, Tasks, Owners, Places, InStep, Quiet, None
  <2>4. \A u \in Clients : Greeting(u) /\ Exchange(u)
    BY DEF Init, Greeting, Exchange
  <2> QED
    BY <2>2, <2>3, <2>4 DEF SessionInv
<1>2. SessionInv /\ [Next]_vars => SessionInv'
  <2> SUFFICES ASSUME SessionInv, [Next]_vars PROVE SessionInv'
    OBVIOUS
  <2>1. CASE \E k \in Conns : ServerStep(k) \/ IdleTimeout(k)
    BY <2>1, ServerSession
  <2>2. CASE \E u \in Clients : \/ \E o \in Kinds \cup {"connect"} : Start(u, o)
                                \/ Close(u) \/ ClientStep(u) \/ Abandon(u)
    BY <2>2, ClientSession
  <2>3. CASE Expire \/ UNCHANGED vars
    <3>1. UNCHANGED <<pc, op, stream, temp, begun, ops, result, fault, dropped, phase,
                      up, down, torn>>
      BY <2>3 DEF Expire, vars, clientVars, netVars
    <3> QED
      BY <3>1 DEF SessionInv, ClientTypes, NetTypes, Tasks, Quiet, Reading, Owners, Places,
                  Greeting, Exchange, InStep
  <2> QED
    BY <2>1, <2>2, <2>3 DEF Next
<1> QED
  BY <1>1, <1>2, PTL DEF Spec

(* A client whose operations nobody dropped gets its own answers, and finds *)
(* no frame it did not expect but STREAM_END (client.rs:125, 183, 260).     *)
THEOREM InStepCorrect == Spec => []InStep
<1>1. SessionInv => InStep
  BY DEF SessionInv
<1> QED
  BY <1>1, SessionInvariant, PTL

===============================================================================
