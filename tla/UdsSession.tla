----------------------------- MODULE UdsSession -----------------------------
(****************************************************************************)
(* UdsClient of src/client.rs and UdsServer of src/server.rs, joined by     *)
(* Unix sockets: handshake, call, call_streaming, get_schema and close on   *)
(* one side; accept loop, connection limit, rate limit, request metrics and *)
(* the loop of each connection task on the other.                           *)
(*                                                                          *)
(* Clients run concurrently, each one operation at a time (`&mut self`).    *)
(* The kernel accepts a connection before the server does: it is "queued".  *)
(* What a request needs of the server (webhooks, its handler) is awaited    *)
(* between two steps, the second of which writes the answer.  Frames are    *)
(* records of type and operation; a request stays in `up` while it is       *)
(* served.  A frame is written whole or not at all; it may be read in part. *)
(* Writing to a socket whose other end is closed fails (EPIPE).             *)
(*                                                                          *)
(* The stream and the flag `connected` of a client are set and cleared      *)
(* together, with no await that can suspend between: the stream stands for  *)
(* both.                                                                    *)
(****************************************************************************)
EXTENDS Integers, Sequences, FiniteSets

CONSTANTS Clients,
          MaxConnections,   \* config.max_connections
          MaxRequests,      \* config.rate_limit.max_requests
          MaxOps,           \* bound: operations of all clients
          MaxConns          \* bound: connections dialled

ASSUME UdsAssumption ==
  /\ IsFiniteSet(Clients)
  /\ {MaxConnections, MaxRequests, MaxOps, MaxConns} \subseteq Nat

None == 0
Conns == 1..MaxConns

VARIABLES
  pc, op,          \* what a client does next, and in which operation
  stream,          \* the field of UdsClient
  temp,            \* the connection connect() is shaking hands on
  begun, ops,      \* operations begun, the number of each client's last one
  result,          \* the operation whose answer the last one returned
  fault,           \* "frame" if it refused a frame, "error" for other errors
  dropped,         \* callers have dropped an operation of this client
  phase,           \* the task of each connection
  up, down,        \* frames on their way to the server, to the client
  torn,            \* part of a frame was read and lost at the client
  active,          \* ACTIVE_CONNECTIONS
  recent,          \* instants in the rate limiter's window
  requests,        \* active_requests of the service's metrics
  enabled          \* enable_streaming and enable_schema_introspection: both or none

clientVars == <<pc, op, stream, temp, begun, ops, result, fault, dropped>>
netVars == <<up, down, torn>>
countVars == <<active, recent, requests, enabled>>
vars == <<clientVars, phase, netVars, countVars>>

Kinds == {"call", "stream", "schema"}
Live == {"new", "serving", "handling", "streaming"}
\* Tasks that ended: in order; by `?` between request_start and request_end;
\* by a panic of the handler, with a request counted or not.
Over == {"ended", "cut", "panicked", "crashed"}

\* The fields the server writes into STREAM_END and those that the client's
\* StreamResponse cannot do without.
EndFields == {"request_id", "status", "payload"}
StreamResponse == {"request_id", "mode", "status"}

\* The type of frame that answers an operation.
Reply == [call |-> "response", schema |-> "schema"]

Frame(t, n) == [type |-> t, op |-> n]
InPhase(P) == {k \in Conns : phase[k] \in P}
Open(k) == \E u \in Clients : k \in {stream[u], temp[u]}
Send(k, f) == up' = [up EXCEPT ![k] = Append(@, f)]
Reading(k, t) == up[k] # << >> /\ Head(up[k]).type = t

Init ==
  /\ pc = [u \in Clients |-> "idle"]
  /\ op = [u \in Clients |-> "call"]
  /\ stream = [u \in Clients |-> None]
  /\ temp = [u \in Clients |-> None]
  /\ begun = 0
  /\ ops = [u \in Clients |-> 0]
  /\ result = [u \in Clients |-> 0]
  /\ fault = [u \in Clients |-> "none"]
  /\ dropped = [u \in Clients |-> FALSE]
  /\ phase = [k \in Conns |-> "none"]
  /\ up = [k \in Conns |-> << >>]
  /\ down = [k \in Conns |-> << >>]
  /\ torn = [k \in Conns |-> FALSE]
  /\ active = 0 /\ recent = 0 /\ requests = 0
  /\ enabled \in BOOLEAN

\* A client goes on to l; sockets it drops take along what it has not read; it
\* fails with error e and its half-made connection, or also its stream, is dropped.
Goto(u, l) == pc' = [pc EXCEPT ![u] = l]

Discard(K) ==
  /\ down' = [k \in Conns |-> IF k \in K THEN << >> ELSE down[k]]
  /\ torn' = [k \in Conns |-> k \notin K /\ torn[k]]

Leave(u, e) ==
  /\ Goto(u, "idle")
  /\ temp' = [temp EXCEPT ![u] = None]
  /\ fault' = [fault EXCEPT ![u] = e]
  /\ Discard({temp[u]})
  /\ UNCHANGED stream

DropStream(u, e) ==
  /\ Goto(u, "idle")
  /\ stream' = [stream EXCEPT ![u] = None]
  /\ fault' = [fault EXCEPT ![u] = e]
  /\ Discard({stream[u]})
  /\ UNCHANGED temp

\* A connection task goes to phase p, having taken the frame it read.
Turn(k, p) ==
  /\ phase' = [phase EXCEPT ![k] = p]
  /\ up' = [up EXCEPT ![k] = Tail(@)]

Answer(k, t) == down' = [down EXCEPT ![k] = Append(@, Frame(t, Head(up[k]).op))]

\* It ends, with what it has not read; unless it panics, it counts itself out.
End(k, p) ==
  /\ phase' = [phase EXCEPT ![k] = p]
  /\ up' = [up EXCEPT ![k] = << >>]
  /\ active' = IF p \in {"panicked", "crashed"} THEN active ELSE active - 1

------------------------------------------------------------------------------
\* Seeded faults: each replaces the action named in PROJECT.json to show that
\* a property notices it.  No specification of this module uses them.

\* The connection limit admits one more.
AcceptOneMore(k) ==
  /\ phase[k] = "queued"
  /\ \A j \in Conns : j < k => phase[j] # "queued"
  /\ IF active <= MaxConnections
       THEN /\ phase' = [phase EXCEPT ![k] = "new"]
            /\ active' = active + 1
            /\ UNCHANGED up
       ELSE /\ phase' = [phase EXCEPT ![k] = "ended"]
            /\ up' = [up EXCEPT ![k] = << >>]
            /\ UNCHANGED active
  /\ UNCHANGED <<clientVars, down, torn, recent, requests, enabled>>

\* A refused handshake returns before the connection is counted out.
LimitedStaysCounted(k) ==
  /\ phase[k] = "new"
  /\ Reading(k, "handshake")
  /\ recent >= MaxRequests
  /\ Turn(k, "ended")
  /\ IF Open(k) THEN Answer(k, "error") ELSE UNCHANGED down
  /\ UNCHANGED <<clientVars, torn, countVars>>

\* A request that does not parse leaves before request_end.
InvalidForgetsEnd(k) ==
  /\ phase[k] = "handling"
  /\ IF Open(k) THEN Turn(k, "serving") /\ Answer(k, "error") /\ UNCHANGED active
                ELSE End(k, "ended") /\ UNCHANGED down
  /\ UNCHANGED <<clientVars, torn, recent, requests, enabled>>

\* An error in the loop is not the end of the loop.
EofIgnored(k) ==
  /\ phase[k] = "new"
  /\ up[k] = << >>
  /\ ~Open(k)
  /\ End(k, "ended")
  /\ UNCHANGED <<clientVars, netVars, recent, requests, enabled>>

\* The timeout of a request keeps the stream.
FailureKeepsStream(u) ==
  /\ pc[u] \in {"write", "read"}
  /\ Leave(u, "error")
  /\ UNCHANGED <<op, begun, ops, result, dropped, phase, up, countVars>>

\* A client waits for its answer without a timeout.
FailureNeedsEof(u) ==
  /\ pc[u] \in {"write", "read"}
  /\ phase[stream[u]] \in Over
  /\ DropStream(u, "error")
  /\ UNCHANGED <<op, begun, ops, result, dropped, phase, up, countVars>>

------------------------------------------------------------------------------
\* The client.

\* call, call_streaming or get_schema, or connect() by itself.
Start(u, o) ==
  /\ pc[u] = "idle"
  /\ begun < MaxOps
  /\ begun' = begun + 1
  /\ op' = [op EXCEPT ![u] = o]
  /\ ops' = [ops EXCEPT ![u] = begun + 1]
  /\ result' = [result EXCEPT ![u] = 0]
  /\ fault' = [fault EXCEPT ![u] = "none"]
  /\ Goto(u, IF o \in Kinds /\ stream[u] # None THEN "write" ELSE "dial")
  /\ UNCHANGED <<stream, temp, dropped, phase, netVars, countVars>>

Close(u) ==
  /\ pc[u] = "idle"
  /\ stream' = [stream EXCEPT ![u] = None]
  /\ Discard({stream[u]})
  /\ UNCHANGED <<pc, op, temp, begun, ops, result, fault, dropped, phase, up, countVars>>

Dial(u) ==
  /\ pc[u] = "dial"
  /\ \E k \in Conns :
       /\ phase[k] = "none"
       /\ \A j \in 1..(k - 1) : phase[j] # "none"
       /\ phase' = [phase EXCEPT ![k] = "queued"]
       /\ temp' = [temp EXCEPT ![u] = k]
  /\ Goto(u, "hello")
  /\ UNCHANGED <<op, stream, begun, ops, result, fault, dropped, netVars, countVars>>

\* Nobody listens, the peer hangs up, or one of the two timeouts fires: a
\* former stream stays.
ConnectFails(u) ==
  /\ \/ pc[u] \in {"dial", "ack"}
     \/ pc[u] = "hello" /\ phase[temp[u]] \in Over
  /\ Leave(u, "error")
  /\ UNCHANGED <<op, begun, ops, result, dropped, phase, up, countVars>>

Hello(u) ==
  /\ pc[u] = "hello"
  /\ phase[temp[u]] \notin Over
  /\ Send(temp[u], Frame("handshake", ops[u]))
  /\ Goto(u, "ack")
  /\ UNCHANGED <<op, stream, temp, begun, ops, result, fault, dropped, phase, down,
                 torn, countVars>>

ReadAck(u) ==
  /\ pc[u] = "ack"
  /\ down[temp[u]] # << >>
  /\ Head(down[temp[u]]).type = "ack"
  /\ stream' = [stream EXCEPT ![u] = temp[u]]
  /\ temp' = [temp EXCEPT ![u] = None]
  /\ Discard({temp[u], stream[u]})
  /\ Goto(u, IF op[u] \in Kinds THEN "write" ELSE "idle")
  /\ UNCHANGED <<op, begun, ops, result, fault, dropped, phase, up, countVars>>

\* MSG_ERROR (the rate limit), or an acknowledgement without success.
Rejected(u) ==
  /\ pc[u] = "ack"
  /\ down[temp[u]] # << >>
  /\ Head(down[temp[u]]).type # "ack"
  /\ Leave(u, "error")
  /\ UNCHANGED <<op, begun, ops, result, dropped, phase, up, countVars>>

Write(u) ==
  /\ pc[u] = "write"
  /\ phase[stream[u]] \notin Over
  /\ Send(stream[u], Frame(op[u], ops[u]))
  /\ Goto(u, "read")
  /\ UNCHANGED <<op, stream, temp, begun, ops, result, fault, dropped, phase, down,
                 torn, countVars>>

\* Whole frames the operation's BufReader had read ahead go with it, and the
\* beginning of one more.
Forget(k, rest) ==
  \/ /\ \E n \in 0..Len(rest) :
          down' = [down EXCEPT ![k] = SubSeq(rest, n + 1, Len(rest))]
     /\ UNCHANGED torn
  \/ /\ rest # << >>
     /\ torn' = [torn EXCEPT ![k] = TRUE]
     /\ down' = [down EXCEPT ![k] = rest]

\* The frame the operation waits for: its number is not compared.
Succeeds(u, f) ==
  \/ op[u] \in DOMAIN Reply /\ f.type = Reply[op[u]]
  \/ op[u] = "stream" /\ f.type = "end" /\ StreamResponse \subseteq EndFields

Read(u) ==
  /\ pc[u] = "read"
  /\ ~torn[stream[u]]
  /\ down[stream[u]] # << >>
  /\ LET k == stream[u]
         f == Head(down[k])
         rest == Tail(down[k])
     IN  \/ /\ Succeeds(u, f)
            /\ result' = [result EXCEPT ![u] = f.op]
            /\ Goto(u, "idle")
            /\ Forget(k, rest)
            /\ UNCHANGED <<stream, temp, fault>>
         \/ /\ op[u] = "stream" /\ f.type = "start"
            /\ down' = [down EXCEPT ![k] = rest]
            /\ UNCHANGED <<pc, stream, temp, result, fault, torn>>
         \/ /\ ~Succeeds(u, f) /\ ~(op[u] = "stream" /\ f.type = "start")
            /\ DropStream(u, IF f.type = "error" THEN "error" ELSE "frame")
            /\ UNCHANGED result
  /\ UNCHANGED <<op, begun, ops, dropped, phase, up, countVars>>

\* request_timeout fires, a write fails, end of file, or a torn frame.
ExchangeFails(u) ==
  /\ pc[u] \in {"write", "read"}
  /\ pc[u] = "write" => phase[stream[u]] \in Over
  /\ DropStream(u, "error")
  /\ UNCHANGED <<op, begun, ops, result, dropped, phase, up, countVars>>

\* The caller drops the future: the stream stays, with what is owed on it.
Abandon(u) ==
  /\ pc[u] # "idle"
  /\ dropped' = [dropped EXCEPT ![u] = TRUE]
  /\ \/ Leave(u, "error")
     \/ /\ pc[u] = "read" /\ down[stream[u]] # << >>
        /\ Goto(u, "idle")
        /\ torn' = [torn EXCEPT ![stream[u]] = TRUE]
        /\ fault' = [fault EXCEPT ![u] = "error"]
        /\ UNCHANGED <<stream, temp, down>>
  /\ UNCHANGED <<op, begun, ops, result, phase, up, countVars>>

ClientStep(u) ==
  \/ Dial(u) \/ ConnectFails(u) \/ Hello(u) \/ ReadAck(u) \/ Rejected(u)
  \/ Write(u) \/ Read(u) \/ ExchangeFails(u)

------------------------------------------------------------------------------
\* The server.

\* One accept loop, in the order of the dials: load, compare, fetch_add.
Accept(k) ==
  /\ phase[k] = "queued"
  /\ \A j \in Conns : j < k => phase[j] # "queued"
  /\ IF active < MaxConnections
       THEN /\ phase' = [phase EXCEPT ![k] = "new"]
            /\ active' = active + 1
            /\ UNCHANGED up
       ELSE /\ phase' = [phase EXCEPT ![k] = "ended"]
            /\ up' = [up EXCEPT ![k] = << >>]
            /\ UNCHANGED active
  /\ UNCHANGED <<clientVars, down, torn, recent, requests, enabled>>

\* Every client says "protocol-client": one window for all of them.
Handshake(k) ==
  /\ phase[k] = "new"
  /\ Reading(k, "handshake")
  /\ recent < MaxRequests
  /\ recent' = recent + 1
  /\ \/ /\ Open(k)
        /\ Turn(k, "serving")
        /\ \E t \in {"ack", "nack"} : Answer(k, t)
        /\ UNCHANGED active
     \/ ~Open(k) /\ End(k, "ended") /\ UNCHANGED down
     \/ End(k, "crashed") /\ UNCHANGED down
  /\ UNCHANGED <<clientVars, torn, requests, enabled>>

RateLimited(k) ==
  /\ phase[k] = "new"
  /\ Reading(k, "handshake")
  /\ recent >= MaxRequests
  /\ End(k, "ended")
  /\ IF Open(k) THEN Answer(k, "error") ELSE UNCHANGED down
  /\ UNCHANGED <<clientVars, torn, recent, requests, enabled>>

\* An instant leaves the window.
Expire ==
  /\ recent > 0
  /\ recent' = recent - 1
  /\ UNCHANGED <<clientVars, phase, netVars, active, requests, enabled>>

Request(k) ==
  /\ phase[k] = "serving"
  /\ Reading(k, "call")
  /\ phase' = [phase EXCEPT ![k] = "handling"]
  /\ requests' = requests + 1
  /\ UNCHANGED <<clientVars, netVars, active, recent, enabled>>

\* Larger than max_request_size: refused before it is looked at.
TooLarge(k) ==
  /\ phase[k] = "serving"
  /\ Reading(k, "call") \/ Reading(k, "stream")
  /\ IF Open(k) THEN Turn(k, "serving") /\ Answer(k, "error") /\ UNCHANGED active
                ELSE End(k, "ended") /\ UNCHANGED down
  /\ UNCHANGED <<clientVars, torn, recent, requests, enabled>>

\* Not a request, or not a valid one: request_end comes before the write.
Invalid(k) ==
  /\ phase[k] = "handling"
  /\ requests' = requests - 1
  /\ IF Open(k) THEN Turn(k, "serving") /\ Answer(k, "error") /\ UNCHANGED active
                ELSE End(k, "ended") /\ UNCHANGED down
  /\ UNCHANGED <<clientVars, torn, recent, enabled>>

\* Handled: request_end comes after the write, which may leave by `?`.
Respond(k) ==
  /\ phase[k] = "handling"
  /\ \/ /\ Open(k)
        /\ Turn(k, "serving") /\ Answer(k, "response")
        /\ requests' = requests - 1
        /\ UNCHANGED active
     \/ ~Open(k) /\ End(k, "cut") /\ UNCHANGED <<down, requests>>
     \/ End(k, "panicked") /\ UNCHANGED <<down, requests>>
  /\ UNCHANGED <<clientVars, torn, recent, enabled>>

StreamRequest(k) ==
  /\ phase[k] = "serving"
  /\ Reading(k, "stream")
  /\ enabled
  /\ IF Open(k) THEN /\ phase' = [phase EXCEPT ![k] = "streaming"]
                     /\ Answer(k, "start") /\ UNCHANGED <<up, active>>
                ELSE End(k, "ended") /\ UNCHANGED down
  /\ UNCHANGED <<clientVars, torn, recent, requests, enabled>>

StreamEnd(k) ==
  /\ phase[k] = "streaming"
  /\ \/ /\ Open(k)
        /\ Turn(k, "serving") /\ Answer(k, "end")
        /\ UNCHANGED active
     \/ ~Open(k) /\ End(k, "ended") /\ UNCHANGED down
     \/ End(k, "crashed") /\ UNCHANGED down
  /\ UNCHANGED <<clientVars, torn, recent, requests, enabled>>

SchemaRequest(k) ==
  /\ phase[k] = "serving"
  /\ Reading(k, "schema")
  /\ enabled
  /\ IF Open(k) THEN Turn(k, "serving") /\ Answer(k, "schema") /\ UNCHANGED active
                ELSE End(k, "ended") /\ UNCHANGED down
  /\ UNCHANGED <<clientVars, torn, recent, requests, enabled>>

\* What is switched off is not answered at all.
Disabled(k) ==
  /\ phase[k] = "serving"
  /\ ~enabled
  /\ Reading(k, "stream") \/ Reading(k, "schema")
  /\ Turn(k, "serving")
  /\ UNCHANGED <<clientVars, down, torn, countVars>>

Eof(k) ==
  /\ phase[k] \in {"new", "serving"}
  /\ up[k] = << >>
  /\ ~Open(k)
  /\ End(k, "ended")
  /\ UNCHANGED <<clientVars, netVars, recent, requests, enabled>>

\* request_timeout is the time between two requests: an idle stream is closed.
IdleTimeout(k) ==
  /\ phase[k] = "serving"
  /\ up[k] = << >>
  /\ End(k, "ended")
  /\ UNCHANGED <<clientVars, netVars, recent, requests, enabled>>

ServerStep(k) ==
  \/ Accept(k) \/ Handshake(k) \/ RateLimited(k) \/ Request(k) \/ TooLarge(k)
  \/ Invalid(k) \/ Respond(k) \/ StreamRequest(k) \/ StreamEnd(k)
  \/ SchemaRequest(k) \/ Disabled(k) \/ Eof(k)

Next ==
  \/ \E u \in Clients :
       \/ \E o \in Kinds \cup {"connect"} : Start(u, o)
       \/ Close(u) \/ ClientStep(u) \/ Abandon(u)
  \/ \E k \in Conns : ServerStep(k) \/ IdleTimeout(k)
  \/ Expire

Spec == Init /\ [][Next]_vars

\* The runtime polls every task, timers fire, handlers and webhooks return.
LiveSpec ==
  /\ Spec
  /\ \A u \in Clients : WF_vars(ClientStep(u))
  /\ \A k \in Conns : WF_vars(ServerStep(k))

------------------------------------------------------------------------------
\* A client whose operations nobody dropped gets its own answers, and never
\* finds a frame it did not expect, STREAM_END aside: each error and each timeout
\* takes the stream with it (client.rs:125, 183, 260), so no late answer is left.
InStep ==
  \A u \in Clients : ~dropped[u] =>
    /\ result[u] \in {0, ops[u]}
    /\ fault[u] = "frame" => op[u] = "stream"

\* No more connections are served than max_connections, although the limit is
\* a load, a comparison and an addition (server.rs:91-106).
WithinMaxConnections == Cardinality(InPhase(Live)) <= MaxConnections

\* ACTIVE_CONNECTIONS is the connections served and those whose handler
\* panicked, which are never subtracted (server.rs:106-114).
ConnectionsCounted ==
  active = Cardinality(InPhase(Live \cup {"panicked", "crashed"}))

\* active_requests is the requests being handled and those whose task ended
\* between request_start and request_end (server.rs:211, 256, 259).
RequestsCounted ==
  requests = Cardinality(InPhase({"handling", "cut", "panicked"}))

\* Every operation ends, whatever the server does or has switched off: both
\* reads of a client have a timeout (client.rs:71, 151, 215, 279).
OperationsEnd == \A u \in Clients : pc[u] # "idle" ~> pc[u] = "idle"

\* The task of a connection its client has dropped ends and makes room for
\* another (server.rs:186, 190, 312).
DroppedConnectionsEnd ==
  \A k \in Conns :
    (phase[k] \in Live /\ ~Open(k)) ~> phase[k] \notin Live

\* A client whose operations nobody dropped accepts every frame the server
\* writes to it: README.md:221-224 unwraps what call_streaming returns.
StreamingAgrees ==
  \A u \in Clients : ~dropped[u] => fault[u] # "frame"
=============================================================================
