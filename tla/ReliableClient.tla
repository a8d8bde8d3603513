---------------------------- MODULE ReliableClient ----------------------------
(****************************************************************************)
(* ReliableUdsClient of src/client.rs: connect, ensure_connected, call,     *)
(* ping, disconnect and reconnect of one client shared by several tasks.    *)
(*                                                                          *)
(* Each task may run on a thread of its own: a store of `state` and a store *)
(* of `stream`, under two locks, are two steps.  Tasks that share a thread  *)
(* have fewer interleavings, and no others: what a blocked thread stops is  *)
(* behind Jam.  connect sleeps with the read guard on `state` ("peek") and  *)
(* then reads again; parking_lot keeps the second read behind a write that  *)
(* waits for the first ("jammed").  `lock` is held over a dial or an        *)
(* exchange, and the mutex of the stream with it, except by disconnect.     *)
(*                                                                          *)
(* The peer answers frames in order, or closes; a request may be refused    *)
(* with a frame of another type.  `owed` is what is still to come on the    *)
(* stream: the tasks whose responses are due, and Pong.                     *)
(****************************************************************************)
EXTENDS Naturals, Sequences

CONSTANTS Tasks,        \* each runs one operation
          MaxAttempts   \* config.max_reconnect_attempts

NoTask == 0
Pong == 0

ASSUME ReliableAssumption ==
  /\ Tasks \subseteq Nat \ {NoTask}
  /\ MaxAttempts \in Nat

VARIABLES
  kind, pc,      \* the operation of each task, and what it does next
  outcome,       \* how it returned
  answer,        \* the request whose response, or refusal, a call read
  state,         \* the field of the client
  lock,          \* the task that holds `lock`, or NoTask
  conn, owed,    \* the field `stream`, and what is under way on it
  tries,         \* attempts begun by the reconnect that holds the lock
  lost,          \* an answer was left behind: a timeout, a drop, a ping
  cut,           \* a connect was dropped while it dialled
  taken          \* a disconnect took a new stream before `state` said so

taskVars == <<kind, pc, outcome, answer>>
connVars == <<conn, owed>>
ghostVars == <<lost, cut, taken>>
vars == <<taskVars, state, lock, connVars, tries, ghostVars>>

Kinds == {"connect", "call", "ping", "disconnect", "reconnect"}
States == {"Disconnected", "Connecting", "Connected", "Reconnecting", "Failed"}

\* Awaits, without and with `lock`; and what is about to store `state`.
Waiting == {"peek", "want", "exchange", "ping", "disconnect", "reconnect"}
Awaiting == {"dial", "drop", "redial", "pause", "read", "stuck"}
Storing == {"stored", "failing", "attempt", "closed"}
Holding == Awaiting \cup Storing
Labels == {"idle", "done", "dropped", "jammed", "cleared"} \cup Waiting \cup Holding

Peeking == \E t \in Tasks : pc[t] \in {"peek", "jammed"}
Jammed == \E t \in Tasks : pc[t] = "jammed"
Stuck == \E t \in Tasks : pc[t] = "stuck"

Init ==
  /\ kind = [t \in Tasks |-> "connect"]
  /\ pc = [t \in Tasks |-> "idle"]
  /\ outcome = [t \in Tasks |-> "none"]
  /\ answer = [t \in Tasks |-> NoTask]
  /\ state = "Disconnected"
  /\ lock = NoTask
  /\ conn = "none" /\ owed = << >>
  /\ tries = 0
  /\ lost = FALSE /\ cut = FALSE /\ taken = FALSE

Goto(t, l) == pc' = [pc EXCEPT ![t] = l]
Return(t, o) == Goto(t, "done") /\ outcome' = [outcome EXCEPT ![t] = o]

\* *self.state.write() = s, when nobody reads.
SetState(s) == ~Peeking /\ state' = s
Drop == conn' = "none" /\ owed' = << >>

\* connect() or reconnect() returns Ok; a call goes on.
ConnectReturns(t) ==
  \/ kind[t] \in {"connect", "reconnect"} /\ Return(t, "ok")
  \/ kind[t] = "call" /\ Goto(t, "exchange") /\ UNCHANGED outcome

------------------------------------------------------------------------------
\* Seeded faults: each replaces the definition named in PROJECT.json to show
\* that a property notices it.  No specification of this module uses them.

\* The attempt to reconnect keeps the state it found.
ReconnectKeepsState(t) ==
  /\ pc[t] = "attempt" /\ tries < MaxAttempts
  /\ tries' = tries + 1 /\ Goto(t, "drop")
  /\ UNCHANGED <<kind, outcome, answer, state, lock, connVars, ghostVars>>

\* A request that fails half-way stays owed.
ReadFailsEarly(t) ==
  /\ pc[t] = "read" /\ lock' = NoTask /\ Return(t, "error")
  /\ UNCHANGED <<kind, answer, state, connVars, tries, ghostVars>>

\* A failed dial leaves the state at Connecting.
DialFailsSilently(t) ==
  /\ pc[t] = "failing" /\ lock' = NoTask /\ Return(t, "error")
  /\ UNCHANGED <<kind, answer, state, connVars, tries, ghostVars>>

\* The request has no timeout of its own.
TimeOutNever(t) == FALSE /\ UNCHANGED vars

------------------------------------------------------------------------------
\* connect

\* The first look at the state: of ensure_connected and call, which skip
\* connect when it is Connected, and of connect, which sleeps in it for
\* 100 ms if another task dials.  disconnect and reconnect do not look.
Start(t) ==
  /\ pc[t] = "idle"
  /\ \E k \in Kinds :
       /\ k \in {"disconnect", "reconnect"} \/ ~Jammed
       /\ kind' = [kind EXCEPT ![t] = k]
       /\ \/ k = "connect" /\ state = "Connected" /\ Return(t, "ok")
          \/ k = "call" /\ state = "Connected" /\ Goto(t, "exchange") /\ UNCHANGED outcome
          \/ /\ k = "connect" \/ (k = "call" /\ state # "Connected")
             /\ Goto(t, IF state = "Connecting" THEN "peek" ELSE "want")
             /\ UNCHANGED outcome
          \/ k = "ping" /\ state # "Connected" /\ Return(t, "error")
          \/ /\ k \in {"disconnect", "reconnect"} \/ (k = "ping" /\ state = "Connected")
             /\ Goto(t, k)
             /\ UNCHANGED outcome
  /\ UNCHANGED <<answer, state, lock, connVars, tries, ghostVars>>

Woken(t) ==
  /\ pc[t] = "peek" /\ ~Jammed
  /\ \/ state = "Connected" /\ ConnectReturns(t)
     \/ state # "Connected" /\ Goto(t, "want") /\ UNCHANGED outcome
  /\ UNCHANGED <<kind, answer, state, lock, connVars, tries, ghostVars>>

\* A writer waits for the sleeper's guard, on its thread or before it wakes.
Jam(t) ==
  /\ pc[t] = "peek"
  /\ \E u \in Tasks : pc[u] \in Storing \cup {"cleared"}
  /\ Goto(t, "jammed")
  /\ UNCHANGED <<kind, outcome, answer, state, lock, connVars, tries, ghostVars>>

\* Under the lock: who finds Connected, or Connecting, has nothing to do.
\* Nobody sleeps on a state that is not Connecting: look and store are one.
Locked(t) ==
  /\ pc[t] = "want" /\ lock = NoTask /\ ~Jammed
  /\ \/ /\ state \in {"Connected", "Connecting"}
        /\ ConnectReturns(t)
        /\ UNCHANGED <<state, lock>>
     \/ /\ state \notin {"Connected", "Connecting"}
        /\ SetState("Connecting")
        /\ lock' = t
        /\ Goto(t, "dial")
        /\ UNCHANGED outcome
  /\ UNCHANGED <<kind, answer, connVars, tries, ghostVars>>

\* A dial, of connect or reconnect, succeeds: the stream, then the state.
StoreStream(t) ==
  /\ pc[t] \in {"dial", "redial"}
  /\ conn' = "open" /\ owed' = << >>
  /\ taken' = FALSE
  /\ Goto(t, "stored")
  /\ UNCHANGED <<kind, outcome, answer, state, lock, tries, lost, cut>>

StoreState(t) ==
  /\ pc[t] = "stored"
  /\ SetState("Connected")
  /\ lock' = NoTask
  /\ ConnectReturns(t)
  /\ UNCHANGED <<kind, answer, connVars, tries, ghostVars>>

\* It fails or times out; reconnect waits before it tries again.
DialFails(t) ==
  /\ \/ pc[t] = "dial" /\ Goto(t, "failing")
     \/ pc[t] = "redial" /\ Goto(t, "pause")
  /\ UNCHANGED <<kind, outcome, answer, state, lock, connVars, tries, ghostVars>>

StoreFailed(t) ==
  /\ pc[t] = "failing"
  /\ SetState("Failed")
  /\ lock' = NoTask
  /\ Return(t, "error")
  /\ UNCHANGED <<kind, answer, connVars, tries, ghostVars>>

------------------------------------------------------------------------------
\* call, ping

\* Lock and stream, and the request; a dead stream fails it and stays.
Write(t) ==
  /\ pc[t] = "exchange" /\ lock = NoTask
  /\ \/ /\ conn = "none"
        /\ Goto(t, "closed")
        /\ lock' = t
        /\ UNCHANGED <<outcome, owed>>
     \/ /\ conn = "dead"
        /\ Return(t, "error")
        /\ UNCHANGED <<lock, owed>>
     \/ /\ conn \in {"open", "torn"}
        /\ Goto(t, "read")
        /\ lock' = t
        /\ owed' = IF conn = "open" THEN Append(owed, t) ELSE owed
        /\ UNCHANGED outcome
  /\ UNCHANGED <<kind, answer, state, conn, tries, ghostVars>>

\* No stream, whatever the state has said.
StoreClosed(t) ==
  /\ pc[t] = "closed"
  /\ SetState("Disconnected")
  /\ lock' = NoTask
  /\ Return(t, "error")
  /\ UNCHANGED <<kind, answer, connVars, tries, ghostVars>>

\* Frames the BufReader has read ahead go with it, in part or whole.
Take ==
  \/ \E n \in DOMAIN owed : owed' = SubSeq(owed, n + 1, Len(owed)) /\ UNCHANGED conn
  \/ Len(owed) > 1 /\ owed' = << >> /\ conn' = "torn"

Read(t) ==
  /\ pc[t] = "read" /\ conn \in {"open", "dead"}
  /\ owed # << >> /\ Head(owed) # Pong
  /\ Take
  /\ answer' = [answer EXCEPT ![t] = Head(owed)]
  /\ lock' = NoTask
  /\ Return(t, "ok")
  /\ UNCHANGED <<kind, state, tries, ghostVars>>

\* A frame of another type: call waits for the stream it has locked itself.
ReadOther(t) ==
  /\ pc[t] = "read"
  /\ \/ conn # "torn" /\ owed # << >> /\ Take
        /\ answer' = [answer EXCEPT ![t] = Head(owed)]
     \/ conn = "torn" /\ UNCHANGED <<connVars, answer>>
  /\ Goto(t, "stuck")
  /\ UNCHANGED <<kind, outcome, state, lock, tries, ghostVars>>

\* Every `?` after the request: state and stream stay as they are.  End of
\* file, a length that is none, a response or refusal that cannot be decoded.
ReadFails(t) ==
  /\ pc[t] = "read"
  /\ \/ conn = "dead" /\ owed' = << >> /\ UNCHANGED conn
     \/ conn \in {"open", "torn"} /\ owed' = << >> /\ conn' = "torn"
     \/ conn # "torn" /\ owed # << >> /\ Head(owed) # Pong /\ Take
  /\ lock' = NoTask
  /\ Return(t, "error")
  /\ UNCHANGED <<kind, answer, state, tries, ghostVars>>

\* request_timeout; a part of the frame may have been read.
TimeOut(t) ==
  /\ pc[t] = "read"
  /\ \/ UNCHANGED connVars
     \/ owed # << >> /\ owed' = << >> /\ conn' = "torn"
  /\ lock' = NoTask
  /\ lost' = TRUE
  /\ Return(t, "error")
  /\ UNCHANGED <<kind, answer, state, tries, cut, taken>>

\* MSG_PING; nobody reads the answer.
Ping(t) ==
  /\ pc[t] = "ping" /\ lock = NoTask
  /\ \/ conn \in {"none", "dead"} /\ Return(t, "error") /\ UNCHANGED <<owed, lost>>
     \/ /\ conn \in {"open", "torn"}
        /\ owed' = IF conn = "open" THEN Append(owed, Pong) ELSE owed
        /\ lost' = TRUE
        /\ Return(t, "ok")
  /\ UNCHANGED <<kind, answer, state, lock, conn, tries, cut, taken>>

------------------------------------------------------------------------------
\* disconnect, reconnect

\* Waits for the stream only, which is with the task that reads.
Disconnect(t) ==
  /\ pc[t] = "disconnect"
  /\ \A u \in Tasks : pc[u] \notin {"read", "stuck", "closed"}
  /\ Drop
  /\ taken' = (taken \/ \E u \in Tasks : pc[u] = "stored")
  /\ Goto(t, "cleared")
  /\ UNCHANGED <<kind, outcome, answer, state, lock, tries, lost, cut>>

StoreDisconnected(t) ==
  /\ pc[t] = "cleared"
  /\ SetState("Disconnected")
  /\ Return(t, "ok")
  /\ UNCHANGED <<kind, answer, lock, connVars, tries, ghostVars>>

Reconnect(t) ==
  /\ pc[t] = "reconnect" /\ lock = NoTask
  /\ lock' = t /\ tries' = 0
  /\ Goto(t, "attempt")
  /\ UNCHANGED <<kind, outcome, answer, state, connVars, ghostVars>>

\* The head of the loop: one more attempt, or none is left.
Attempt(t) ==
  /\ pc[t] = "attempt"
  /\ \/ /\ tries < MaxAttempts
        /\ SetState("Reconnecting")
        /\ tries' = tries + 1
        /\ Goto(t, "drop")
        /\ UNCHANGED <<outcome, lock>>
     \/ /\ tries = MaxAttempts
        /\ SetState("Failed")
        /\ lock' = NoTask
        /\ Return(t, "error")
        /\ UNCHANGED tries
  /\ UNCHANGED <<kind, answer, connVars, ghostVars>>

DropStream(t) ==
  /\ pc[t] = "drop"
  /\ Drop
  /\ Goto(t, "redial")
  /\ UNCHANGED <<kind, outcome, answer, state, lock, tries, ghostVars>>

\* After the delay.
Resume(t) ==
  /\ pc[t] = "pause"
  /\ Goto(t, "attempt")
  /\ UNCHANGED <<kind, outcome, answer, state, lock, connVars, tries, ghostVars>>

------------------------------------------------------------------------------
\* The caller drops the future at an await: guards go, the fields stay.
Abandon(t) ==
  /\ pc[t] \in Awaiting \cup Waiting
  /\ Goto(t, "dropped")
  /\ lock' = IF lock = t THEN NoTask ELSE lock
  /\ \/ UNCHANGED connVars
     \/ pc[t] = "read" /\ owed # << >> /\ owed' = << >> /\ conn' = "torn"
  /\ lost' = (lost \/ pc[t] = "read")
  /\ cut' = (cut \/ pc[t] = "dial")
  /\ UNCHANGED <<kind, outcome, answer, state, tries, taken>>

\* The peer closes; what it has sent can still be read.
PeerCloses ==
  /\ conn = "open"
  /\ conn' = "dead"
  /\ UNCHANGED <<taskVars, state, lock, owed, tries, ghostVars>>

\* What the threads and their timers do, and what depends on the peer.
Proceed(t) ==
  \/ Woken(t) \/ Jam(t) \/ Locked(t) \/ StoreStream(t) \/ StoreState(t)
  \/ DialFails(t) \/ StoreFailed(t) \/ Write(t) \/ StoreClosed(t) \/ TimeOut(t)
  \/ Ping(t) \/ Disconnect(t) \/ StoreDisconnected(t)
  \/ Reconnect(t) \/ Attempt(t) \/ DropStream(t) \/ Resume(t)

Arrival(t) == Read(t) \/ ReadOther(t) \/ ReadFails(t)

Next ==
  \/ \E t \in Tasks : Start(t) \/ Proceed(t) \/ Arrival(t) \/ Abandon(t)
  \/ PeerCloses

Spec == Init /\ [][Next]_vars

\* The threads poll every task that can go on, connects end and timers fire;
\* the peer need not answer.
ReliableFairness == \A t \in Tasks : WF_vars(Proceed(t))

------------------------------------------------------------------------------
\* Properties

TypeOK ==
  /\ kind \in [Tasks -> Kinds] /\ pc \in [Tasks -> Labels]
  /\ outcome \in [Tasks -> {"none", "ok", "error"}]
  /\ answer \in [Tasks -> Tasks \cup {NoTask}]
  /\ state \in States /\ lock \in Tasks \cup {NoTask}
  /\ conn \in {"none", "open", "dead", "torn"}
  /\ owed \in Seq(Tasks \cup {Pong})
  /\ tries \in 0 .. MaxAttempts
  /\ {lost, cut, taken} \subseteq BOOLEAN

(* Who reads Connected finds a stream, dead perhaps, but never none, save   *)
(* in two windows: inside a disconnect (client.rs:590, 591), and after one  *)
(* has taken the stream that connect or reconnect had stored and not yet    *)
(* announced (client.rs:567, 568, 715, 716), until the next one is stored.  *)
ConnectedHasStream ==
  state = "Connected" /\ conn = "none"
    => taken \/ \E t \in Tasks : pc[t] = "cleared"

(* Until a request has timed out, been dropped or a ping sent, the stream   *)
(* owes the one that reads just its own response, after any failure         *)
(* (client.rs:626-663): no call returns another's, and only a refusal of    *)
(* its own request, or a frame torn by an earlier failure, can make a call  *)
(* wait for the stream it holds itself.                                     *)
InStep ==
  ~lost => \A t \in Tasks :
             /\ answer[t] \in {NoTask, t}
             /\ pc[t] = "read" => conn = "torn" \/ owed = <<t>>

(* ensure_connected returns Ok only when connected (client.rs:748), unless  *)
(* a dropped connect has left Connecting behind (client.rs:553).            *)
OkMeansConnected ==
  [][\A t \in Tasks :
       kind'[t] = "connect" /\ outcome[t] = "none" /\ outcome'[t] = "ok"
         => state' = "Connected" \/ cut]_vars

(* Every operation ends, whatever the peer does, unless a connect and a     *)
(* writer wait for each other (client.rs:536, 539) or a call waits for its  *)
(* own lock (client.rs:639, 652).                                           *)
OperationsEnd ==
  \A t \in Tasks :
    pc[t] \notin {"idle", "done", "dropped"}
      ~> pc[t] \in {"done", "dropped"} \/ Jammed \/ Stuck

==============================================================================
