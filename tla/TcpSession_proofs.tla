--------------------------- MODULE TcpSession_proofs ---------------------------
(****************************************************************************)
(* Theorems about the calls of TcpClient, for any number of calls and       *)
(* connections.                                                             *)
(*                                                                          *)
(* The client never asks for a second frame on a connection that still owes *)
(* it one, unless what it owes has been torn: this makes the next frame the *)
(* call reads after its acknowledgement the answer to its request.          *)
(****************************************************************************)
EXTENDS TcpSession, FiniteSetTheorems, TLAPS

Frames ==
  [type : {"handshake", "request", "ack", "nack", "response"}, call : Nat]

Dialling == {"hello", "ack", "redial"}
Calling == {"greeted", "request", "response"}

Types ==
  /\ stream \in Conns \cup {None} /\ temp \in Conns \cup {None}
  /\ pc \in {"idle", "dial", "greet"} \cup Dialling \cup Calling
  /\ calls \in Nat
  /\ phase \in [Conns -> {"none", "new", "serving", "ended"}]
  /\ up \in [Conns -> Seq(Frames)] /\ down \in [Conns -> Seq(Frames)]
  /\ torn \in [Conns -> BOOLEAN]
  /\ pc \in Dialling => temp \in Conns
  /\ pc \in Calling => stream \in Conns

\* A server that has not read the handshake has answered nothing, and has
\* been asked nothing.
Early(k) ==
  phase[k] \in {"none", "new"} =>
    ~torn[k] /\ down[k] = << >> /\ Asks(up[k]) = {}

\* What the client can still expect on a connection whose frames are whole.
Whole(k) ==
  ~torn[k] => /\ Len(down[k]) <= 1
              /\ \A i, j \in Asks(up[k]) : i = j
              /\ down[k] # << >> => Asks(up[k]) = {}

\* Nothing is owed when the request is written, and its answer afterwards.
Exchange ==
  /\ pc = "request" => /\ phase[stream] \notin {"none", "new"}
                       /\ ~torn[stream] => /\ down[stream] = << >>
                                           /\ Asks(up[stream]) = {}
  /\ pc = "response" /\ ~torn[stream] =>
       /\ \A i \in Asks(up[stream]) : up[stream][i].call = calls
       /\ \A i \in 1..Len(down[stream]) :
            down[stream][i].type = "response" => down[stream][i].call = calls

SessionInv ==
  /\ Types
  /\ \A k \in Conns : Early(k) /\ Whole(k)
  /\ Exchange
  /\ OwnAnswer

----------------------------------------------------------------------------
(* What a queue of frames holds after one is taken or one is put.           *)

LEMMA Taken ==
  ASSUME NEW s \in Seq(Frames), s # << >>
  PROVE  /\ Tail(s) \in Seq(Frames) /\ Head(s) \in Frames /\ Head(s) = s[1]
         /\ Len(s) \in Nat \ {0} /\ Len(Tail(s)) = Len(s) - 1
         /\ \A i \in 1..Len(Tail(s)) : i + 1 \in 1..Len(s) /\ Tail(s)[i] = s[i + 1]
         /\ \A i \in Asks(Tail(s)) : i + 1 \in Asks(s)
         /\ Head(s).type = "request" => 1 \in Asks(s)
         /\ Len(s) <= 1 => Tail(s) = << >>
<1>1. /\ Tail(s) \in Seq(Frames) /\ Head(s) \in Frames /\ Head(s) = s[1]
      /\ Len(s) \in Nat \ {0} /\ Len(Tail(s)) = Len(s) - 1
  OBVIOUS
<1>2. \A i \in 1..Len(Tail(s)) : i + 1 \in 1..Len(s) /\ Tail(s)[i] = s[i + 1]
  BY <1>1
<1>3. \A i \in Asks(Tail(s)) : i + 1 \in Asks(s)
  BY <1>2 DEF Asks
<1>4. Head(s).type = "request" => 1 \in Asks(s)
  BY <1>1 DEF Asks
<1>5. Len(s) <= 1 => Tail(s) = << >>
  <2>1. \A t \in Seq(Frames) : Len(t) = 0 => t = << >>
    OBVIOUS
  <2>2. Len(s) <= 1 => Len(Tail(s)) = 0
    BY <1>1
  <2> QED
    BY <1>1, <2>1, <2>2
<1> QED
  BY <1>1, <1>2, <1>3, <1>4, <1>5

LEMMA Put ==
  ASSUME NEW s \in Seq(Frames), NEW f \in Frames
  PROVE  /\ Append(s, f) \in Seq(Frames) /\ Len(Append(s, f)) = Len(s) + 1
         /\ \A i \in 1..Len(Append(s, f)) :
              Append(s, f)[i] = IF i = Len(s) + 1 THEN f ELSE s[i]
         /\ \A i \in Asks(Append(s, f)) : i = Len(s) + 1 \/ i \in Asks(s)
         /\ f.type # "request" => Asks(Append(s, f)) = Asks(s)
<1>1. /\ Append(s, f) \in Seq(Frames) /\ Len(Append(s, f)) = Len(s) + 1
      /\ Len(s) \in Nat
  OBVIOUS
<1>2. \A i \in 1..Len(Append(s, f)) :
        Append(s, f)[i] = IF i = Len(s) + 1 THEN f ELSE s[i]
  OBVIOUS
<1>3. \A i \in Asks(Append(s, f)) : i = Len(s) + 1 \/ i \in Asks(s)
  BY <1>1, <1>2 DEF Asks
<1>4. f.type # "request" => Asks(Append(s, f)) = Asks(s)
  BY <1>1, <1>2 DEF Asks
<1> QED
  BY <1>1, <1>2, <1>3, <1>4

----------------------------------------------------------------------------
(* Steps of the client.                                                     *)

Safe == \A k \in Conns : Early(k) /\ Whole(k)

\* A handshake on connection k asks for nothing that is not owed already.
LEMMA SendHandshake ==
  ASSUME Types, Safe, NEW k \in Conns, Send(k, Frame("handshake", calls)),
         UNCHANGED <<phase, down, torn>>
  PROVE  up' \in [Conns -> Seq(Frames)] /\ Safe'
<1> DEFINE f == Frame("handshake", calls)
<1>1. f \in Frames /\ f.type # "request" /\ up \in [Conns -> Seq(Frames)]
  BY DEF Types, Frames, Frame
<1> HIDE DEF f
<1>2. up' = [up EXCEPT ![k] = Append(@, f)]
  BY DEF Send, f
<1>3. \A j \in Conns : up'[j] \in Seq(Frames) /\ Asks(up'[j]) = Asks(up[j])
  BY <1>1, <1>2, Put
<1>4. up' \in [Conns -> Seq(Frames)]
  BY <1>1, <1>2, <1>3
<1>5. ASSUME NEW j \in Conns PROVE Early(j)' /\ Whole(j)'
  BY <1>3 DEF Safe, Early, Whole
<1> QED
  BY <1>4, <1>5 DEF Safe

\* A frame taken from a connection whose frames are whole is the last one.
LEMMA Receive ==
  ASSUME Types, Safe, NEW k \in Conns, down[k] # << >>, Received(k),
         UNCHANGED <<phase, up, torn>>
  PROVE  /\ down' \in [Conns -> Seq(Frames)] /\ Safe'
         /\ phase[k] \notin {"none", "new"}
         /\ ~torn[k] => down'[k] = << >> /\ Asks(up[k]) = {}
<1>1. down \in [Conns -> Seq(Frames)]
  BY DEF Types
<1>2. down' = [down EXCEPT ![k] = Tail(@)]
  BY DEF Received
<1>3. /\ Tail(down[k]) \in Seq(Frames) /\ Len(down[k]) \in Nat \ {0}
      /\ Len(Tail(down[k])) = Len(down[k]) - 1
  BY <1>1, Taken
<1>4. down' \in [Conns -> Seq(Frames)]
  BY <1>1, <1>2, <1>3
<1>5. Early(k) /\ Whole(k)
  BY DEF Safe
<1>6. phase[k] \notin {"none", "new"}
  BY <1>5 DEF Early
<1>7. ~torn[k] => Tail(down[k]) = << >> /\ Asks(up[k]) = {}
  <2>1. ~torn[k] => Len(down[k]) <= 1 /\ Asks(up[k]) = {}
    BY <1>5, Zenon DEF Whole
  <2>2. Len(down[k]) <= 1 => Tail(down[k]) = << >>
    BY <1>1, Taken
  <2> QED
    BY <2>1, <2>2, Zenon
<1>8. down'[k] = Tail(down[k]) /\ \A j \in Conns : j # k => down'[j] = down[j]
  BY <1>1, <1>2
<1>9. ASSUME NEW j \in Conns PROVE Early(j)' /\ Whole(j)'
  <2>1. CASE j = k
    <3>1. Early(k)'
      BY <1>6 DEF Early
    <3>2. Len(<< >>) = 0
      OBVIOUS
    <3>3. Whole(k)'
      BY <1>5, <1>7, <1>8, <3>2 DEF Whole
    <3> QED
      BY <2>1, <3>1, <3>3
  <2>2. CASE j # k
    BY <1>8, <2>2 DEF Safe, Early, Whole
  <2> QED
    BY <2>1, <2>2
<1> QED
  BY <1>4, <1>6, <1>7, <1>8, <1>9 DEF Safe

\* What the client does without a frame: a connection may be dialled, or torn.
LEMMA Quiet ==
  ASSUME Types, Safe, UNCHANGED <<up, down>>,
         \/ UNCHANGED <<phase, torn>>
         \/ (\E k \in Conns : Accept(k)) /\ UNCHANGED torn
         \/ UNCHANGED phase /\ \E k \in Conns : /\ down[k] # << >>
                                              /\ torn' = [torn EXCEPT ![k] = TRUE]
  PROVE  /\ phase' \in [Conns -> {"none", "new", "serving", "ended"}]
         /\ torn' \in [Conns -> BOOLEAN] /\ Safe'
<1>1. CASE UNCHANGED <<phase, torn>>
  BY <1>1 DEF Types, Safe, Early, Whole
<1>2. CASE (\E k \in Conns : Accept(k)) /\ UNCHANGED torn
  BY <1>2 DEF Types, Safe, Early, Whole, Accept
<1>3. CASE UNCHANGED phase /\ \E k \in Conns : /\ down[k] # << >>
                                            /\ torn' = [torn EXCEPT ![k] = TRUE]
  BY <1>3 DEF Types, Safe, Early, Whole
<1> QED
  BY <1>1, <1>2, <1>3

LEMMA ClientInv ==
  ASSUME SessionInv,
         \/ \E inside \in BOOLEAN : Start(inside)
         \/ Close \/ ClientProgress \/ ReadTorn \/ Abandon
  PROVE  SessionInv'
<1>0. Types /\ Safe /\ Exchange /\ OwnAnswer
  BY DEF SessionInv, Safe
<1> USE <1>0
\* Steps that neither write nor read, and do not go into an exchange.
<1>1. ASSUME NEW c \in Conns \cup {None}, NEW t \in Conns \cup {None},
             stream' = c, temp' = t, UNCHANGED <<up, down>>,
             pc' \in {"idle", "dial", "greet", "redial", "hello"},
             pc' \in Dialling => t \in Conns,
             \/ calls' = calls + 1 /\ result' = 0
             \/ UNCHANGED <<calls, result>>,
             \/ UNCHANGED <<phase, torn>>
             \/ (\E k \in Conns : Accept(k)) /\ UNCHANGED torn
             \/ UNCHANGED phase /\ \E k \in Conns : /\ down[k] # << >>
                                                  /\ torn' = [torn EXCEPT ![k] = TRUE]
      PROVE  SessionInv'
  <2>1. /\ phase' \in [Conns -> {"none", "new", "serving", "ended"}]
        /\ torn' \in [Conns -> BOOLEAN] /\ Safe'
    BY <1>1, Quiet
  <2>2. Types'
    BY <1>1, <2>1 DEF Types, Dialling, Calling
  <2>3. Exchange' /\ OwnAnswer'
    BY <1>1 DEF Exchange, OwnAnswer
  <2> QED
    BY <2>1, <2>2, <2>3 DEF SessionInv, Safe
<1>2. CASE \E inside \in BOOLEAN : Start(inside)
  BY <1>1, <1>2 DEF Start, serverVars, netVars, Types, Dialling
<1>3. CASE Close
  BY <1>1, <1>3 DEF Close, serverVars, netVars, Types, Dialling
<1>4. CASE Dial
  BY <1>1, <1>4 DEF Dial, netVars, Types, Dialling
<1>5. CASE DialFails \/ NoStream \/ PeerGone
  BY <1>1, <1>5 DEF DialFails, NoStream, PeerGone, Leave, serverVars, netVars, Types, Dialling
<1>6. CASE Redial
  BY <1>1, <1>6 DEF Redial, netVars, Types, Dialling
<1>7. CASE Abandon
  <2>1. /\ stream' = stream /\ temp' = None /\ pc' = "idle"
        /\ UNCHANGED <<up, down, calls, result, phase>>
        /\ stream \in Conns \cup {None}
    BY <1>7 DEF Abandon, Leave, serverVars, Types
  <2>2. CASE UNCHANGED torn
    BY <1>1, <2>1, <2>2 DEF Dialling
  <2>3. CASE torn' # torn
    <3>1. /\ stream \in Conns /\ down[stream] # << >>
          /\ torn' = [torn EXCEPT ![stream] = TRUE]
      BY <1>7, <2>3 DEF Abandon, Types, Calling
    <3> QED
      BY <1>1, <2>1, <3>1 DEF Dialling
  <2> QED
    BY <2>2, <2>3
<1>8. CASE Hello
  <2>1. temp \in Conns /\ Send(temp, Frame("handshake", calls))
        /\ UNCHANGED <<phase, down, torn>>
    BY <1>8 DEF Hello, Types, Dialling, serverVars
  <2>2. up' \in [Conns -> Seq(Frames)] /\ Safe'
    BY <2>1, SendHandshake
  <2>3. Types'
    BY <1>8, <2>1, <2>2 DEF Hello, Types, Dialling, Calling, serverVars
  <2>4. Exchange' /\ OwnAnswer'
    BY <1>8 DEF Hello, Exchange, OwnAnswer
  <2> QED
    BY <2>2, <2>3, <2>4 DEF SessionInv, Safe
<1>9. CASE Greet
  <2>1. stream \in Conns /\ Send(stream, Frame("handshake", calls))
        /\ UNCHANGED <<phase, down, torn>>
    BY <1>9 DEF Greet, Types, serverVars
  <2>2. up' \in [Conns -> Seq(Frames)] /\ Safe'
    BY <2>1, SendHandshake
  <2>3. Types'
    BY <1>9, <2>1, <2>2 DEF Greet, Types, Dialling, Calling, serverVars
  <2>4. Exchange' /\ OwnAnswer'
    BY <1>9 DEF Greet, Exchange, OwnAnswer
  <2> QED
    BY <2>2, <2>3, <2>4 DEF SessionInv, Safe
<1>10. CASE ReadAck
  <2>1. temp \in Conns /\ down[temp] # << >> /\ Received(temp) /\ UNCHANGED <<phase, up, torn>>
    BY <1>10 DEF ReadAck, Types, Dialling, serverVars
  <2>2. down' \in [Conns -> Seq(Frames)] /\ Safe'
    BY <2>1, Receive
  <2>3. Types'
    BY <1>10, <2>1, <2>2 DEF ReadAck, Leave, Types, Dialling, Calling, serverVars
  <2>4. Exchange' /\ OwnAnswer'
    BY <1>10 DEF ReadAck, Leave, Exchange, OwnAnswer
  <2> QED
    BY <2>2, <2>3, <2>4 DEF SessionInv, Safe
<1>11. CASE Greeted /\ ~torn[stream]
  <2>1. stream \in Conns /\ down[stream] # << >> /\ Received(stream)
        /\ UNCHANGED <<phase, up, torn>>
    BY <1>11 DEF Greeted, Types, Calling, serverVars
  <2>2. /\ down' \in [Conns -> Seq(Frames)] /\ Safe'
        /\ phase[stream] \notin {"none", "new"}
        /\ down'[stream] = << >> /\ Asks(up[stream]) = {}
    BY <1>11, <2>1, Receive
  <2>3. Types'
    BY <1>11, <2>1, <2>2 DEF Greeted, Types, Dialling, Calling, serverVars
  <2>4. Exchange' /\ OwnAnswer'
    BY <1>11, <2>1, <2>2 DEF Greeted, Exchange, OwnAnswer
  <2> QED
    BY <2>2, <2>3, <2>4 DEF SessionInv, Safe
<1>12. CASE Greeted /\ torn[stream]
  <2>1. stream \in Conns /\ UNCHANGED <<phase, up, down, torn, stream, temp, calls, result>>
    BY <1>12 DEF Greeted, Types, Calling, serverVars
  <2>2. phase[stream] \notin {"none", "new"}
    BY <1>12, <2>1 DEF Safe, Early
  <2>3. Types' /\ Safe'
    BY <1>12, <2>1 DEF Greeted, Types, Safe, Early, Whole, Dialling, Calling
  <2>4. Exchange' /\ OwnAnswer'
    BY <1>12, <2>1, <2>2 DEF Greeted, Exchange, OwnAnswer
  <2> QED
    BY <2>3, <2>4 DEF SessionInv, Safe
<1>13. CASE WriteRequest
  <2> DEFINE f == Frame("request", calls)
             s == up[stream]
  <2>1. f \in Frames /\ f.call = calls /\ stream \in Conns /\ s \in Seq(Frames)
    BY <1>13 DEF WriteRequest, Types, Frames, Frame, Calling
  <2>2. /\ up' = [up EXCEPT ![stream] = Append(s, f)]
        /\ UNCHANGED <<phase, down, torn, stream, temp, calls, result>>
        /\ pc' = "response"
    BY <1>13 DEF WriteRequest, Send, serverVars
  <2>3. /\ phase[stream] \notin {"none", "new"}
        /\ ~torn[stream] => down[stream] = << >> /\ Asks(s) = {}
    BY <1>13 DEF WriteRequest, Exchange
  <2> HIDE DEF f, s
  <2>4. /\ Append(s, f) \in Seq(Frames) /\ Len(Append(s, f)) = Len(s) + 1
        /\ Append(s, f)[Len(s) + 1] = f
        /\ \A i \in Asks(Append(s, f)) : i = Len(s) + 1 \/ i \in Asks(s)
    <3>1. Len(s) + 1 \in 1..Len(Append(s, f))
      BY <2>1
    <3> QED
      BY <2>1, <3>1, Put
  <2>5. up'[stream] = Append(s, f) /\ \A j \in Conns : j # stream => up'[j] = up[j]
    BY <2>1, <2>2 DEF Types
  <2>6. Types'
    BY <2>1, <2>2, <2>4, <2>5 DEF Types, Dialling, Calling
  <2>7. ASSUME NEW j \in Conns PROVE Early(j)' /\ Whole(j)'
    <3>1. CASE j = stream
      <4>1. Early(j)'
        BY <2>2, <2>3, <3>1 DEF Early
      <4>2. Len(<< >>) = 0
        OBVIOUS
      <4>3. Whole(j)'
        <5>1. ~torn[stream] => \A i \in Asks(up'[stream]) : i = Len(s) + 1
          BY <2>3, <2>4, <2>5
        <5>2. torn' = torn /\ down' = down
          BY <2>2
        <5> SUFFICES ASSUME ~torn[stream]
                     PROVE  /\ Len(down[stream]) <= 1
                            /\ \A i, h \in Asks(up'[stream]) : i = h
                            /\ down[stream] # << >> => Asks(up'[stream]) = {}
          BY <3>1, <5>2 DEF Whole
        <5>3. down[stream] = << >> /\ Len(down[stream]) <= 1
          BY <2>3, <4>2
        <5> QED
          BY <5>1, <5>3
      <4> QED
        BY <4>1, <4>3
    <3>2. CASE j # stream
      BY <2>2, <2>5, <3>2 DEF Safe, Early, Whole
    <3> QED
      BY <3>1, <3>2
  <2>8. Exchange'
    <3>1. 1..Len(<< >>) = {}
      OBVIOUS
    <3> QED
      BY <2>1, <2>2, <2>3, <2>4, <2>5, <3>1 DEF Exchange
  <2>9. OwnAnswer'
    BY <2>2 DEF OwnAnswer
  <2> QED
    BY <2>6, <2>7, <2>8, <2>9 DEF SessionInv
<1>14. CASE ReadResponse
  <2>1. stream \in Conns /\ down[stream] # << >> /\ Received(stream)
        /\ UNCHANGED <<phase, up, torn, stream, temp, calls>> /\ pc' = "idle"
    BY <1>14 DEF ReadResponse, Types, Calling, serverVars
  <2>2. down' \in [Conns -> Seq(Frames)] /\ Safe'
    BY <2>1, Receive
  <2>3. Types'
    BY <2>1, <2>2 DEF Types, Dialling, Calling
  <2>4. Head(down[stream]) = down[stream][1] /\ 1 \in 1..Len(down[stream])
    BY <2>1 DEF Types
  <2>5. Head(down[stream]).type = "response" => Head(down[stream]).call = calls
    BY <1>14, <2>4 DEF ReadResponse, Exchange
  <2>6. Exchange' /\ OwnAnswer'
    BY <1>14, <2>1, <2>5 DEF ReadResponse, Exchange, OwnAnswer
  <2> QED
    BY <2>2, <2>3, <2>6 DEF SessionInv, Safe
<1>15. CASE ReadTorn
  BY <1>1, <1>15 DEF ReadTorn, Leave, serverVars, netVars, Types, Dialling, Calling
<1> QED
  BY <1>2, <1>3, <1>4, <1>5, <1>6, <1>7, <1>8, <1>9, <1>10, <1>11, <1>12, <1>13, <1>14,
     <1>15 DEF ClientProgress

----------------------------------------------------------------------------
(* Steps of the server.                                                     *)

LEMMA ServerInv ==
  ASSUME SessionInv, NEW k \in Conns, ServerProgress(k) \/ ServerStops(k)
  PROVE  SessionInv'
<1>0. Types /\ Safe /\ Exchange /\ OwnAnswer
  BY DEF SessionInv, Safe
<1>1. Early(k) /\ Whole(k)
  BY <1>0 DEF Safe
\* What a step on connection k has to show.
<1>2. ASSUME UNCHANGED <<clientVars, torn>>, NEW q \in {"new", "serving", "ended"},
             phase' = [phase EXCEPT ![k] = q], phase[k] # "none",
             NEW a \in Seq(Frames), NEW b \in Seq(Frames),
             up' = [up EXCEPT ![k] = a], down' = [down EXCEPT ![k] = b],
             Early(k)', Whole(k)', k = stream => Exchange'
      PROVE  SessionInv'
  <2>1. Types'
    BY <1>0, <1>2 DEF Types, clientVars
  <2>2. \A j \in Conns : j # k => /\ up'[j] = up[j] /\ down'[j] = down[j]
                               /\ phase'[j] = phase[j] /\ torn'[j] = torn[j]
    BY <1>0, <1>2 DEF Types
  <2>3. Safe'
    BY <1>0, <1>2, <2>2 DEF Safe, Early, Whole
  <2>4. Exchange'
    <3>1. CASE k # stream /\ pc \in Calling
      <4>1. stream \in Conns
        BY <1>0, <3>1 DEF Types
      <4> QED
        BY <1>0, <1>2, <2>2, <3>1, <4>1 DEF Exchange, clientVars
    <3>2. CASE pc \notin Calling
      BY <1>2, <3>2 DEF Exchange, Calling, clientVars
    <3> QED
      BY <1>2, <3>1, <3>2
  <2>5. OwnAnswer'
    BY <1>0, <1>2 DEF OwnAnswer, clientVars
  <2> QED
    BY <2>1, <2>3, <2>4, <2>5 DEF SessionInv, Safe
<1>3. CASE ServerHandshake(k)
  <2>1. /\ up[k] \in Seq(Frames) /\ up[k] # << >> /\ down[k] \in Seq(Frames)
        /\ UNCHANGED <<clientVars, torn>> /\ phase[k] = "new"
        /\ up' = [up EXCEPT ![k] = Tail(up[k])] /\ up'[k] = Tail(up[k])
        /\ phase' = [phase EXCEPT ![k] = "serving"] /\ phase'[k] = "serving"
    BY <1>0, <1>3 DEF ServerHandshake, Types, serverVars
  <2>2. /\ Tail(up[k]) \in Seq(Frames) /\ Head(up[k]) \in Frames
        /\ Head(up[k]) = up[k][1]
        /\ \A i \in 1..Len(Tail(up[k])) : i + 1 \in 1..Len(up[k])
                                         /\ Tail(up[k])[i] = up[k][i + 1]
        /\ \A i \in Asks(Tail(up[k])) : i + 1 \in Asks(up[k])
        /\ Head(up[k]).type = "request" => 1 \in Asks(up[k])
    BY <2>1, Taken
  <2>3. down[k] = << >> /\ Asks(up[k]) = {} /\ ~torn[k]
    BY <1>1, <2>1 DEF Early
  <2>4. PICK t \in {"ack", "nack"} : Answer(k, Frame(t, 0))
    BY <1>3 DEF ServerHandshake
  <2>5. PICK b \in Seq(Frames) : /\ down' = [down EXCEPT ![k] = b] /\ down'[k] = b
                                 /\ b = << >> \/ b = <<Frame(t, 0)>>
    <3>1. Frame(t, 0) \in Frames
      BY DEF Frame, Frames
    <3>2. <<Frame(t, 0)>> \in Seq(Frames) /\ Append(<< >>, Frame(t, 0)) = <<Frame(t, 0)>>
      BY <3>1
    <3>3. CASE Open(k)
      BY <1>0, <2>3, <2>4, <3>2, <3>3 DEF Answer, Types
    <3>4. CASE ~Open(k)
      <4>1. down' = down /\ down = [down EXCEPT ![k] = << >>] /\ << >> \in Seq(Frames)
        BY <1>0, <2>3, <2>4, <3>4 DEF Answer, Types
      <4> QED
        BY <2>3, <4>1
    <3> QED
      BY <3>3, <3>4
  <2>6. Asks(up'[k]) = {}
    BY <2>1, <2>2, <2>3
  <2>7. Len(b) <= 1 /\ \A i \in 1..Len(b) : b[i].type # "response"
    <3>1. CASE b = << >>
      BY <3>1
    <3>2. CASE b = <<Frame(t, 0)>>
      <4>1. Len(b) = 1 /\ b[1] = Frame(t, 0) /\ Frame(t, 0).type = t
        BY <3>2 DEF Frame
      <4>2. \A i \in 1..1 : i = 1
        OBVIOUS
      <4> QED
        BY <4>1, <4>2
    <3> QED
      BY <2>5, <3>1, <3>2
  <2>8. Early(k)' /\ Whole(k)'
    BY <2>1, <2>5, <2>6, <2>7 DEF Early, Whole
  <2>9. k = stream => Exchange'
    BY <1>0, <2>1, <2>5, <2>6, <2>7 DEF Exchange, clientVars
  <2> QED
    BY <1>2, <2>1, <2>2, <2>5, <2>8, <2>9
<1>4. CASE ServerRequest(k)
  <2>1. /\ up[k] \in Seq(Frames) /\ up[k] # << >> /\ down[k] \in Seq(Frames)
        /\ UNCHANGED <<clientVars, torn>> /\ phase[k] = "serving"
        /\ up' = [up EXCEPT ![k] = Tail(up[k])] /\ up'[k] = Tail(up[k])
        /\ phase' = [phase EXCEPT ![k] = "serving"] /\ phase'[k] = "serving"
    BY <1>0, <1>4 DEF ServerRequest, Types, serverVars
  <2>2. /\ Tail(up[k]) \in Seq(Frames) /\ Head(up[k]) \in Frames
        /\ Head(up[k]) = up[k][1]
        /\ \A i \in 1..Len(Tail(up[k])) : i + 1 \in 1..Len(up[k])
                                         /\ Tail(up[k])[i] = up[k][i + 1]
        /\ \A i \in Asks(Tail(up[k])) : i + 1 \in Asks(up[k])
        /\ Head(up[k]).type = "request" => 1 \in Asks(up[k])
    BY <2>1, Taken
  <2> DEFINE f == Frame("response", Head(up[k]).call)
  <2>3. f \in Frames /\ f.call = up[k][1].call /\ 1 \in Asks(up[k])
    BY <1>4, <2>2 DEF ServerRequest, Frame, Frames
  <2>4. down' = IF Open(k) THEN [down EXCEPT ![k] = Append(@, f)] ELSE down
    BY <1>4 DEF ServerRequest, Answer
  <2> HIDE DEF f
  <2>5. PICK b \in Seq(Frames) : /\ down' = [down EXCEPT ![k] = b] /\ down'[k] = b
                                 /\ b = down[k] \/ b = Append(down[k], f)
    <3>1. CASE Open(k)
      <4>1. Append(down[k], f) \in Seq(Frames)
        BY <2>1, <2>3
      <4> QED
        BY <1>0, <2>4, <3>1, <4>1 DEF Types
    <3>2. CASE ~Open(k)
      BY <1>0, <2>1, <2>4, <3>2 DEF Types
    <3> QED
      BY <3>1, <3>2
  \* The one request that is owed an answer has been taken.
  <2>6. ~torn[k] => down[k] = << >> /\ Asks(up'[k]) = {}
    <3> SUFFICES ASSUME ~torn[k] PROVE down[k] = << >> /\ Asks(up'[k]) = {}
      OBVIOUS
    <3>1. down[k] = << >> /\ \A i, j \in Asks(up[k]) : i = j
      BY <1>1, <2>3 DEF Whole
    <3>2. ASSUME NEW i \in Asks(Tail(up[k])) PROVE FALSE
      <4>1. i + 1 = 1 /\ i \in 1..Len(Tail(up[k]))
        BY <2>2, <2>3, <3>1 DEF Asks
      <4> QED
        BY <4>1
    <3> QED
      BY <2>1, <3>1, <3>2
  <2>7. ~torn[k] => Len(b) <= 1 /\ \A i \in 1..Len(b) : b[i] = f
    BY <2>3, <2>5, <2>6
  <2>8. Early(k)' /\ Whole(k)'
    BY <2>1, <2>5, <2>6, <2>7 DEF Early, Whole
  <2>9. k = stream => Exchange'
    <3> SUFFICES ASSUME k = stream PROVE Exchange'
      OBVIOUS
    <3>1. pc = "request" => torn[k]
      BY <1>0, <2>3 DEF Exchange
    <3>2. pc = "response" /\ ~torn[k] => f.call = calls
      BY <1>0, <2>3 DEF Exchange
    <3> QED
      BY <2>1, <2>5, <2>6, <2>7, <3>1, <3>2 DEF Exchange, clientVars
  <2> QED
    BY <1>2, <2>1, <2>2, <2>5, <2>8, <2>9
<1>5. CASE ServerIgnore(k)
  <2>1. /\ up[k] \in Seq(Frames) /\ up[k] # << >> /\ down[k] \in Seq(Frames)
        /\ UNCHANGED <<clientVars, torn>> /\ phase[k] = "serving"
        /\ up' = [up EXCEPT ![k] = Tail(up[k])] /\ up'[k] = Tail(up[k])
        /\ phase' = [phase EXCEPT ![k] = "serving"] /\ phase'[k] = "serving"
    BY <1>0, <1>5 DEF ServerIgnore, Types, serverVars
  <2>2. /\ Tail(up[k]) \in Seq(Frames) /\ Head(up[k]) \in Frames
        /\ Head(up[k]) = up[k][1]
        /\ \A i \in 1..Len(Tail(up[k])) : i + 1 \in 1..Len(up[k])
                                         /\ Tail(up[k])[i] = up[k][i + 1]
        /\ \A i \in Asks(Tail(up[k])) : i + 1 \in Asks(up[k])
        /\ Head(up[k]).type = "request" => 1 \in Asks(up[k])
    BY <2>1, Taken
  <2>3. down' = down /\ down' = [down EXCEPT ![k] = down[k]]
    BY <1>0, <1>5 DEF ServerIgnore, Types
  <2>4. \A i \in Asks(up'[k]) : i + 1 \in Asks(up[k]) /\ i \in Nat
                               /\ up'[k][i] = up[k][i + 1]
    <3> SUFFICES ASSUME NEW i \in Asks(Tail(up[k]))
                 PROVE  i + 1 \in Asks(up[k]) /\ i \in Nat /\ Tail(up[k])[i] = up[k][i + 1]
      BY <2>1
    <3>1. i \in 1..Len(Tail(up[k]))
      BY DEF Asks
    <3> QED
      BY <2>2, <3>1
  <2>5. Early(k)' /\ Whole(k)'
    <3>1. ~torn[k] => \A i, j \in Asks(up'[k]) : i = j
      <4> SUFFICES ASSUME ~torn[k], NEW i \in Asks(up'[k]), NEW j \in Asks(up'[k])
                   PROVE  i = j
        OBVIOUS
      <4>1. i + 1 = j + 1 /\ i \in Nat /\ j \in Nat
        BY <1>1, <2>4 DEF Whole
      <4> QED
        BY <4>1
    <3>2. Asks(up[k]) = {} => Asks(up'[k]) = {}
      BY <2>4
    <3> QED
      BY <1>1, <2>1, <2>3, <3>1, <3>2 DEF Early, Whole
  <2>6. k = stream => Exchange'
    <3>1. Asks(up[k]) = {} => Asks(up'[k]) = {}
      BY <2>4
    <3> SUFFICES ASSUME k = stream PROVE Exchange'
      OBVIOUS
    <3>2. UNCHANGED <<pc, calls, stream, torn, down>>
      BY <2>1, <2>3 DEF clientVars
    <3>3. pc = "request" =>
            (~torn[k] => down[k] = << >> /\ Asks(up'[k]) = {})
      BY <1>0, <3>1 DEF Exchange
    <3>4. pc = "response" /\ ~torn[k] =>
            /\ \A i \in Asks(up'[k]) : up'[k][i].call = calls
            /\ \A i \in 1..Len(down[k]) :
                 down[k][i].type = "response" => down[k][i].call = calls
      BY <1>0, <2>4 DEF Exchange
    <3> QED
      BY <2>1, <3>2, <3>3, <3>4 DEF Exchange
  <2> QED
    BY <1>2, <2>1, <2>2, <2>3, <2>5, <2>6
<1>6. CASE ServerEof(k) \/ ServerStops(k)
  <2>1. /\ UNCHANGED <<clientVars, up, down, torn>> /\ phase' = [phase EXCEPT ![k] = "ended"]
        /\ phase[k] # "none"
    BY <1>6 DEF ServerEof, ServerStops, netVars
  <2>2. /\ up[k] \in Seq(Frames) /\ down[k] \in Seq(Frames)
        /\ up' = [up EXCEPT ![k] = up[k]] /\ down' = [down EXCEPT ![k] = down[k]]
        /\ phase'[k] = "ended"
    BY <1>0, <2>1 DEF Types
  <2>3. Early(k)' /\ Whole(k)'
    BY <1>1, <2>1, <2>2 DEF Early, Whole
  <2>4. k = stream => Exchange'
    BY <1>0, <2>1, <2>2 DEF Exchange, clientVars
  <2> QED
    BY <1>2, <2>1, <2>2, <2>3, <2>4
<1> QED
  BY <1>3, <1>4, <1>5, <1>6 DEF ServerProgress

(* The client and the server keep what is owed on every connection in step. *)
THEOREM SessionInvariant == Spec => []SessionInv
<1>1. Init => SessionInv
  <2> SUFFICES ASSUME Init PROVE SessionInv
    OBVIOUS
  <2>1. << >> \in Seq(Frames) /\ Len(<< >>) = 0 /\ Asks(<< >>) = {}
    BY DEF Asks
  <2>2. Types
    BY <2>1 DEF Init, Types, Dialling, Calling
  <2>3. \A k \in Conns : Early(k) /\ Whole(k)
    BY <2>1 DEF Init, Early, Whole
  <2>4. Exchange /\ OwnAnswer
    BY DEF Init, Exchange, OwnAnswer
  <2> QED
    BY <2>2, <2>3, <2>4 DEF SessionInv
<1>2. SessionInv /\ [Next]_vars => SessionInv'
  <2> SUFFICES ASSUME SessionInv, [Next]_vars PROVE SessionInv'
    OBVIOUS
  <2>1. CASE \/ \E inside \in BOOLEAN : Start(inside)
             \/ Close \/ ClientProgress \/ ReadTorn \/ Abandon
    BY <2>1, ClientInv
  <2>2. CASE \E k \in Conns : ServerProgress(k) \/ ServerStops(k)
    BY <2>2, ServerInv
  <2>3. CASE \/ UNCHANGED vars
             \/ \E b \in BOOLEAN : Listen(b)
    <3>1. UNCHANGED <<clientVars, phase, netVars>>
      BY <2>3 DEF Listen, vars, serverVars
    <3> QED
      BY <3>1 DEF SessionInv, Types, Early, Whole, Exchange, OwnAnswer, clientVars, netVars
  <2> QED
    BY <2>1, <2>2, <2>3 DEF Next
<1> QED
  BY <1>1, <1>2, PTL DEF Spec

(* A call returns the response to its own request, although it takes any    *)
(* frame for its acknowledgement: a dropped call leaves at most one frame,  *)
(* which is what the next one takes (tcp.rs:210, 216).                      *)
THEOREM OwnAnswerCorrect == Spec => []OwnAnswer
<1>1. SessionInv => OwnAnswer
  BY DEF SessionInv
<1> QED
  BY <1>1, SessionInvariant, PTL

(* No more than one frame is ever owed on a connection whose frames are     *)
(* whole, so that a call's own BufReader reads nothing ahead (tcp.rs:198).  *)
THEOREM OwedAtMostOneCorrect == Spec => []OwedAtMostOne
<1>1. SessionInv => OwedAtMostOne
  <2> SUFFICES ASSUME SessionInv, NEW k \in Conns, ~torn[k] PROVE Owed(k) <= 1
    BY DEF OwedAtMostOne
  <2>1. /\ Len(down[k]) \in Nat /\ Len(down[k]) <= 1
        /\ \A i, j \in Asks(up[k]) : i = j
        /\ down[k] # << >> => Asks(up[k]) = {}
        /\ phase[k] = "new" => down[k] = << >> /\ Asks(up[k]) = {}
        /\ down[k] \in Seq(Frames) /\ up[k] \in Seq(Frames)
    BY DEF SessionInv, Types, Early, Whole
  <2>2. down[k] = << >> => Len(down[k]) = 0
    OBVIOUS
  <2>3. Cardinality({}) = 0
    BY FS_EmptySet
  <2>4. CASE Asks(up[k]) = {}
    BY <2>1, <2>2, <2>3, <2>4 DEF Owed
  <2>5. CASE Asks(up[k]) # {}
    <3>1. PICK i : Asks(up[k]) = {i}
      BY <2>1, <2>5
    <3>2. Cardinality({i}) = 1
      BY FS_Singleton
    <3>3. down[k] = << >> /\ phase[k] # "new"
      BY <2>1, <2>5
    <3>4. Len(down[k]) = 0 /\ Cardinality(Asks(up[k])) = 1
      BY <2>2, <3>1, <3>2, <3>3
    <3> QED
      BY <3>3, <3>4 DEF Owed
  <2> QED
    BY <2>4, <2>5
<1> QED
  BY <1>1, SessionInvariant, PTL

===============================================================================
