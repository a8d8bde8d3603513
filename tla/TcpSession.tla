----------------------------- MODULE TcpSession -----------------------------
(****************************************************************************)
(* TcpClient and TcpServer of src/tcp.rs, joined by the connections the     *)
(* client dials.  The client makes one call at a time (`&mut self`); the    *)
(* server has one task per connection, which takes one frame at a time.     *)
(*                                                                          *)
(* connect() shakes hands on one connection, drops it and keeps a second,   *)
(* silent one for the calls.  Every call writes the handshake again before  *)
(* its request, and takes any frame it reads next for the acknowledgement.  *)
(*                                                                          *)
(* A frame is a record of its type and the call it belongs to (0 for an     *)
(* answer to a handshake).  A request stays in `up` while its handler runs. *)
(* A frame is written whole or not at all: handshakes and requests fit the  *)
(* BufWriter.  Reads can stop half-way; what follows is then torn.          *)
(****************************************************************************)
EXTENDS Integers, Sequences, FiniteSets

CONSTANTS MaxCalls,   \* bound: calls the client makes
          MaxConns    \* bound: connections that can be dialled

ASSUME TcpAssumption == MaxCalls \in Nat /\ MaxConns \in Nat

None == 0
Conns == 1..MaxConns

VARIABLES
  connected, stream,     \* fields of TcpClient
  temp,                  \* the connection connect() shakes hands on
  pc,                    \* what the client does next
  incall,                \* connect() runs inside call()
  calls,                 \* calls begun; the current call has this number
  result,                \* the call whose response the last call returned
  listening,             \* the accept loop runs
  phase,                 \* the server's task of each connection
  up, down,              \* frames on their way to the server, to the client
  torn                   \* part of a frame was read and lost at the client

clientVars == <<connected, stream, temp, pc, incall, calls, result>>
serverVars == <<listening, phase>>
netVars == <<up, down, torn>>
vars == <<clientVars, serverVars, netVars>>

Frame(t, c) == [type |-> t, call |-> c]

\* The connection the client is talking on, and those it holds open.
Current == IF temp # None THEN temp ELSE stream
Open(k) == k \in {stream, temp}

Send(k, f) == up' = [up EXCEPT ![k] = Append(@, f)]
Received(k) == down' = [down EXCEPT ![k] = Tail(@)]

Init ==
  /\ connected = FALSE /\ stream = None /\ temp = None
  /\ pc = "idle" /\ incall = FALSE /\ calls = 0 /\ result = 0
  /\ listening = TRUE
  /\ phase = [k \in Conns |-> "none"]
  /\ up = [k \in Conns |-> << >>]
  /\ down = [k \in Conns |-> << >>]
  /\ torn = [k \in Conns |-> FALSE]

\* TcpStream::connect, accept and spawn: k is the next connection.
Accept(k) ==
  /\ listening
  /\ phase[k] = "none"
  /\ \A j \in 1..(k - 1) : phase[j] # "none"
  /\ phase' = [phase EXCEPT ![k] = "new"]

\* The current operation ends with an error or is dropped by its caller.
Leave ==
  /\ pc' = "idle"
  /\ temp' = None
  /\ UNCHANGED <<connected, stream, incall, calls, result>>

------------------------------------------------------------------------------
\* Seeded faults: each replaces the action named in PROJECT.json to show that
\* a property notices it.  No specification of this module uses them.

\* connect() keeps the connection it shook hands on for the calls.
RedialReuses ==
  /\ pc = "redial"
  /\ stream' = temp
  /\ temp' = None
  /\ pc' = IF incall THEN "greet" ELSE "idle"
  /\ UNCHANGED <<connected, incall, calls, result, serverVars, netVars>>

\* The handshake is written once per connection.
GreetOnce ==
  /\ pc = "greet"
  /\ stream # None
  /\ IF phase[stream] = "serving"
       THEN pc' = "request" /\ UNCHANGED up
       ELSE pc' = "greeted" /\ Send(stream, Frame("handshake", calls))
  /\ UNCHANGED <<connected, stream, temp, incall, calls, result, serverVars,
                 down, torn>>

\* The server acknowledges every handshake.
IgnoreAcknowledges(k) ==
  /\ phase[k] = "serving"
  /\ up[k] # << >>
  /\ Head(up[k]).type = "handshake"
  /\ up' = [up EXCEPT ![k] = Tail(@)]
  /\ down' = [down EXCEPT ![k] = Append(@, Frame("ack", 0))]
  /\ UNCHANGED <<clientVars, serverVars, torn>>

------------------------------------------------------------------------------
\* The client.

\* call(), or connect() called by itself.
Start(inside) ==
  /\ pc = "idle"
  /\ calls < MaxCalls
  /\ calls' = calls + 1
  /\ result' = 0
  /\ incall' = inside
  /\ pc' = IF inside /\ connected THEN "greet" ELSE "dial"
  /\ UNCHANGED <<connected, stream, temp, serverVars, netVars>>

Close ==
  /\ pc = "idle"
  /\ connected' = FALSE
  /\ stream' = None
  /\ UNCHANGED <<temp, pc, incall, calls, result, serverVars, netVars>>

Dial ==
  /\ pc = "dial"
  /\ \E k \in Conns : Accept(k) /\ temp' = k
  /\ pc' = "hello"
  /\ UNCHANGED <<connected, stream, incall, calls, result, listening, netVars>>

\* Refused, or out of connections: the first dial or the second.
DialFails ==
  /\ pc \in {"dial", "redial"}
  /\ Leave
  /\ UNCHANGED <<serverVars, netVars>>

Hello ==
  /\ pc = "hello"
  /\ Send(temp, Frame("handshake", calls))
  /\ pc' = "ack"
  /\ UNCHANGED <<connected, stream, temp, incall, calls, result, serverVars,
                 down, torn>>

\* connected is set before there is a connection to call on.
ReadAck ==
  /\ pc = "ack"
  /\ down[temp] # << >>
  /\ Received(temp)
  /\ \/ /\ Head(down[temp]).type = "ack"
        /\ connected' = TRUE
        /\ pc' = "redial"
        /\ UNCHANGED <<stream, temp, incall, calls, result>>
     \/ /\ Head(down[temp]).type # "ack"
        /\ Leave
  /\ UNCHANGED <<serverVars, up, torn>>

\* Both halves of the first connection are dropped when connect() returns.
Redial ==
  /\ pc = "redial"
  /\ \E k \in Conns : Accept(k) /\ stream' = k
  /\ temp' = None
  /\ pc' = IF incall THEN "greet" ELSE "idle"
  /\ UNCHANGED <<connected, incall, calls, result, listening, netVars>>

Greet ==
  /\ pc = "greet"
  /\ stream # None
  /\ Send(stream, Frame("handshake", calls))
  /\ pc' = "greeted"
  /\ UNCHANGED <<connected, stream, temp, incall, calls, result, serverVars,
                 down, torn>>

\* `guard.as_mut().ok_or(ConnectionClosed)?`
NoStream ==
  /\ pc = "greet"
  /\ stream = None
  /\ Leave
  /\ UNCHANGED <<serverVars, netVars>>

\* Whatever frame comes is the acknowledgement.
Greeted ==
  /\ pc = "greeted"
  /\ \/ ~torn[stream] /\ down[stream] # << >> /\ Received(stream)
     \/ torn[stream] /\ UNCHANGED down
  /\ pc' = "request"
  /\ UNCHANGED <<connected, stream, temp, incall, calls, result, serverVars,
                 up, torn>>

WriteRequest ==
  /\ pc = "request"
  /\ Send(stream, Frame("request", calls))
  /\ pc' = "response"
  /\ UNCHANGED <<connected, stream, temp, incall, calls, result, serverVars,
                 down, torn>>

\* Any type but a response ends the call and clears connected; the stream stays.
ReadResponse ==
  /\ pc = "response"
  /\ ~torn[stream]
  /\ down[stream] # << >>
  /\ Received(stream)
  /\ \/ /\ Head(down[stream]).type = "response"
        /\ result' = Head(down[stream]).call
        /\ UNCHANGED connected
     \/ /\ Head(down[stream]).type # "response"
        /\ connected' = FALSE
        /\ UNCHANGED result
  /\ pc' = "idle"
  /\ UNCHANGED <<stream, temp, incall, calls, serverVars, up, torn>>

\* What is read after a tear is refused: the length, the type or the JSON is
\* wrong.  It may also be waited for without end.
ReadTorn ==
  /\ pc \in {"greeted", "response"}
  /\ torn[stream]
  /\ \/ Leave
     \/ /\ pc = "response"
        /\ connected' = FALSE
        /\ pc' = "idle"
        /\ UNCHANGED <<stream, temp, incall, calls, result>>
  /\ UNCHANGED <<serverVars, netVars>>

\* End of file while reading, or a write on a connection whose server has gone:
\* an error that leaves connected and the stream as they are.
PeerGone ==
  /\ pc \in {"hello", "ack", "greet", "greeted", "request", "response"}
  /\ Current # None
  /\ phase[Current] = "ended"
  /\ pc \in {"ack", "greeted", "response"} => down[Current] = << >>
  /\ Leave
  /\ UNCHANGED <<serverVars, netVars>>

\* The caller drops the future, perhaps in the middle of a frame.
Abandon ==
  /\ pc # "idle"
  /\ Leave
  /\ \/ UNCHANGED torn
     \/ /\ pc \in {"greeted", "response"}
        /\ down[stream] # << >>
        /\ torn' = [torn EXCEPT ![stream] = TRUE]
  /\ UNCHANGED <<serverVars, up, down>>

ClientProgress ==
  \/ Dial \/ DialFails \/ Hello \/ ReadAck \/ Redial \/ Greet \/ NoStream
  \/ Greeted \/ WriteRequest \/ ReadResponse \/ PeerGone

------------------------------------------------------------------------------
\* The server.  An answer written to a connection the client has dropped is lost.

Answer(k, f) == down' = IF Open(k) THEN [down EXCEPT ![k] = Append(@, f)] ELSE down

\* The first frame: a handshake on every connection of this client.  A refusal
\* is answered and the connection served all the same.
ServerHandshake(k) ==
  /\ phase[k] = "new"
  /\ up[k] # << >>
  /\ up' = [up EXCEPT ![k] = Tail(@)]
  /\ \E t \in {"ack", "nack"} : Answer(k, Frame(t, 0))
  /\ phase' = [phase EXCEPT ![k] = "serving"]
  /\ UNCHANGED <<clientVars, listening, torn>>

ServerRequest(k) ==
  /\ phase[k] = "serving"
  /\ up[k] # << >>
  /\ Head(up[k]).type = "request"
  /\ up' = [up EXCEPT ![k] = Tail(@)]
  /\ Answer(k, Frame("response", Head(up[k]).call))
  /\ UNCHANGED <<clientVars, serverVars, torn>>

\* `_ => {}`: a handshake on a connection that has had one.
ServerIgnore(k) ==
  /\ phase[k] = "serving"
  /\ up[k] # << >>
  /\ Head(up[k]).type = "handshake"
  /\ up' = [up EXCEPT ![k] = Tail(@)]
  /\ UNCHANGED <<clientVars, serverVars, down, torn>>

\* End of file before the handshake ends the task.  In the loop it is a
\* ConnectionFailed, not the ConnectionClosed the loop breaks on: `_ => {}`
\* changes nothing and the task reads end of file again, for ever.
ServerEof(k) ==
  /\ ~Open(k)
  /\ up[k] = << >>
  /\ phase[k] = "new"
  /\ phase' = [phase EXCEPT ![k] = "ended"]
  /\ UNCHANGED <<clientVars, listening, netVars>>

\* The task ends: an answer cannot be written, a handler panics, the process dies.
ServerStops(k) ==
  /\ phase[k] \in {"new", "serving"}
  /\ phase' = [phase EXCEPT ![k] = "ended"]
  /\ UNCHANGED <<clientVars, listening, netVars>>

\* run_with_shutdown's signal, and a new run: connection tasks go on.
Listen(b) ==
  /\ listening # b
  /\ listening' = b
  /\ UNCHANGED <<clientVars, phase, netVars>>

ServerProgress(k) ==
  ServerHandshake(k) \/ ServerRequest(k) \/ ServerIgnore(k) \/ ServerEof(k)

Next ==
  \/ \E inside \in BOOLEAN : Start(inside)
  \/ Close \/ ClientProgress \/ ReadTorn \/ Abandon
  \/ \E k \in Conns : ServerProgress(k) \/ ServerStops(k)
  \/ \E b \in BOOLEAN : Listen(b)

Spec == Init /\ [][Next]_vars

\* The runtime polls the client's future and every task, and handlers return.
LiveSpec == Spec /\ WF_vars(ClientProgress)
                 /\ \A k \in Conns : WF_vars(ServerProgress(k))

------------------------------------------------------------------------------
\* A call returns the response to its own request, whatever calls before it
\* were dropped: the frame every call takes for its acknowledgement is the one
\* the dropped call left (tcp.rs:210).
OwnAnswer == result # 0 => result = calls

\* Frames the server has written or will write on a connection.
Asks(s) == {i \in 1..Len(s) : s[i].type = "request"}
Owed(k) ==
  Len(down[k]) + Cardinality(Asks(up[k]))
    + IF phase[k] = "new" /\ up[k] # << >> THEN 1 ELSE 0

\* At most one frame is owed on a connection whose frames are still whole, so
\* the BufReader that each call builds for itself (tcp.rs:198) never drops a
\* second one it has read ahead.
OwedAtMostOne == \A k \in Conns : ~torn[k] => Owed(k) <= 1

\* A call that finds no connection and dials ends, by itself (tcp.rs:190-224).
NewConnectionServes == pc = "dial" ~> pc = "idle"

\* Every call ends: README.md:7 lists TCP as a transport of the library.  A
\* second call on a connection waits for an acknowledgement that the server,
\* which ignores second handshakes, does not write (tcp.rs:81, 210).
EveryCallReturns == pc = "greet" ~> pc = "idle"
=============================================================================
