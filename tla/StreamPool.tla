------------------------------ MODULE StreamPool ------------------------------
(****************************************************************************)
(* UdsConnectionPool of src/pool.rs: streams kept in pingora's pool, put    *)
(* back after every exchange, failed ones too.  Its peer reads requests and *)
(* answers them in order, or closes: UdsServer, which expects a handshake   *)
(* that this pool does not send, closes at the first request.               *)
(****************************************************************************)
EXTENDS Naturals, Sequences, FiniteSets

CONSTANTS PoolCalls,
          PoolCapacity     \* of the pool

ASSUME StreamPoolAssumption == IsFiniteSet(PoolCalls) /\ PoolCapacity \in Nat

VARIABLES
  cpc, using,    \* per call: what it does next, its stream, 0 for none
  got,           \* the answer it returned: a call, "none" or "error"
  pooled,        \* the pool: streams and their ids, the oldest has the least
  nextId,        \* connection_id
  counts,        \* the metrics: requests, hits, misses, failed connects
  sockets        \* the streams made: requests and answers in them, and
                 \* whether the peer, or the owner, has closed

streamVars == <<cpc, using, got, pooled, nextId, counts, sockets>>

StreamPoolInit ==
  /\ cpc = [c \in PoolCalls |-> "idle"]
  /\ using = [c \in PoolCalls |-> 0]
  /\ got = [c \in PoolCalls |-> "none"]
  /\ pooled = {}
  /\ nextId = 0
  /\ counts = [total |-> 0, hits |-> 0, misses |-> 0, failed |-> 0]
  /\ sockets = << >>

Sock(c) == sockets[using[c]]
CallGoto(c, l) == cpc' = [cpc EXCEPT ![c] = l]

\* put: the next id, and the oldest entry goes when the pool is full.
PutBack(c) ==
  LET all == pooled \cup {[socket |-> using[c], id |-> nextId]}
  IN /\ pooled' = IF Cardinality(all) <= PoolCapacity THEN all
                  ELSE {e \in all : \E f \in all : f.id < e.id}
     /\ nextId' = nextId + 1

\* Seeded fault: a timeout around the read, the stream put back as ever.
ReadOrTimeout(c) ==
  /\ cpc[c] = "read"
  /\ got' = [got EXCEPT ![c] = IF Sock(c).answers = << >> THEN "error"
                               ELSE Head(Sock(c).answers)]
  /\ sockets' = IF Sock(c).answers = << >> THEN sockets
                ELSE [sockets EXCEPT ![using[c]].answers = Tail(@)]
  /\ PutBack(c)
  /\ CallGoto(c, "done")
  /\ UNCHANGED <<using, counts>>

------------------------------------------------------------------------------
\* call: from the pool, or a new connection, which may fail

Hit(c) ==
  /\ cpc[c] = "idle"
  /\ \E e \in pooled :
       /\ using' = [using EXCEPT ![c] = e.socket]
       /\ pooled' = pooled \ {e}
  /\ counts' = [counts EXCEPT !.total = @ + 1, !.hits = @ + 1]
  /\ CallGoto(c, "write")
  /\ UNCHANGED <<got, nextId, sockets>>

Miss(c) ==
  /\ cpc[c] = "idle" /\ pooled = {}
  /\ \/ /\ sockets' = Append(sockets,
                         [requests |-> << >>, answers |-> << >>, gone |-> FALSE])
        /\ using' = [using EXCEPT ![c] = Len(sockets) + 1]
        /\ counts' = [counts EXCEPT !.total = @ + 1, !.misses = @ + 1]
        /\ CallGoto(c, "write")
        /\ UNCHANGED got
     \/ /\ counts' = [counts EXCEPT !.total = @ + 1, !.misses = @ + 1,
                                    !.failed = @ + 1]
        /\ got' = [got EXCEPT ![c] = "error"]
        /\ CallGoto(c, "done")
        /\ UNCHANGED <<using, sockets>>
  /\ UNCHANGED <<pooled, nextId>>

Write(c) ==
  /\ cpc[c] = "write" /\ ~Sock(c).gone
  /\ sockets' = [sockets EXCEPT ![using[c]].requests = Append(@, c)]
  /\ CallGoto(c, "read")
  /\ UNCHANGED <<using, got, pooled, nextId, counts>>

\* One answer is read, which may be of a type that is refused, and the stream
\* put back.
Read(c) ==
  /\ cpc[c] = "read" /\ Sock(c).answers # << >>
  /\ got' \in {[got EXCEPT ![c] = a] : a \in {Head(Sock(c).answers), "error"}}
  /\ sockets' = [sockets EXCEPT ![using[c]].answers = Tail(@)]
  /\ PutBack(c)
  /\ CallGoto(c, "done")
  /\ UNCHANGED <<using, counts>>

\* The request is too large to be written, or the write or the read finds the
\* peer gone: the stream is put back as well.
Broken(c) ==
  /\ \/ cpc[c] = "write"
     \/ cpc[c] = "read" /\ Sock(c).gone /\ Sock(c).answers = << >>
  /\ got' = [got EXCEPT ![c] = "error"]
  /\ PutBack(c)
  /\ CallGoto(c, "done")
  /\ UNCHANGED <<using, counts, sockets>>

\* The future is dropped, and its stream with it.
DropStream(c) ==
  /\ cpc[c] \in {"write", "read"}
  /\ CallGoto(c, "dropped")
  /\ UNCHANGED <<using, got, pooled, nextId, counts, sockets>>

\* cleanup takes out the entry of id 0.
Cleanup ==
  /\ pooled' = {e \in pooled : e.id # 0}
  /\ UNCHANGED <<cpc, using, got, nextId, counts, sockets>>

PeerAnswers(k) ==
  /\ sockets[k].requests # << >>
  /\ LET s == sockets[k] IN
     sockets' = [sockets EXCEPT ![k] = [requests |-> Tail(s.requests),
                   answers |-> Append(s.answers, Head(s.requests)), gone |-> s.gone]]
  /\ UNCHANGED <<cpc, using, got, pooled, nextId, counts>>

PeerEnds(k) ==
  /\ ~sockets[k].gone
  /\ sockets' = [sockets EXCEPT ![k] =
                   [requests |-> << >>, answers |-> @.answers, gone |-> TRUE]]
  /\ UNCHANGED <<cpc, using, got, pooled, nextId, counts>>

StreamPoolNext ==
  \/ \E c \in PoolCalls : Hit(c) \/ Miss(c) \/ Write(c) \/ Read(c) \/ Broken(c)
                          \/ DropStream(c)
  \/ Cleanup
  \/ \E k \in DOMAIN sockets : PeerAnswers(k) \/ PeerEnds(k)

StreamPoolSpec == StreamPoolInit /\ [][StreamPoolNext]_streamVars

------------------------------------------------------------------------------
\* Property

(* Although streams go back whatever became of the exchange, none in the    *)
(* pool has a request or an answer in it, and no call gets the answer to    *)
(* another (pool.rs:166-173); nobody else holds a stream of the pool.       *)
StreamsInStep ==
  /\ \A c \in PoolCalls : got[c] \in {c, "none", "error"}
  /\ \A e \in pooled :
       /\ sockets[e.socket].requests = << >> /\ sockets[e.socket].answers = << >>
       /\ \A f \in pooled \ {e} : f.socket # e.socket
       /\ \A c \in PoolCalls :
            using[c] = e.socket => cpc[c] \notin {"write", "read"}

==============================================================================
