---------------------------- MODULE Clients_proofs ----------------------------
(****************************************************************************)
(* Theorems about the client that reconnects (ReliableClient), for any set  *)
(* of tasks and any number of attempts to reconnect, and about              *)
(* WebhookService::notify (Webhook), for any number of events, senders and  *)
(* retries.                                                                 *)
(****************************************************************************)
EXTENDS ReliableClient, Webhook, Integers, SequenceTheorems, TLAPS

------------------------------------------------------------------------------
(* ReliableClient.                                                          *)
(* Three locks guard the client (`lock`, the stream's, the state's), and    *)
(* disconnect takes only two of them.  What holds the stream together is    *)
(* that the task that reads has `lock`, and that disconnect waits for it.   *)

(* The lock is with the task whose label says so, which makes it exclusive. *)
Owns ==
  /\ pc \in [Tasks -> Labels]
  /\ \A t \in Tasks : pc[t] \in Holding => lock = t
  /\ answer \in [Tasks -> Tasks \cup {NoTask}]
  /\ owed \in Seq(Tasks \cup {Pong})

(* Until an answer is lost, a stream owes nothing unless a task reads, and  *)
(* to that task its own response.                                           *)
OwesReader ==
  ~lost => /\ \A t \in Tasks : pc[t] = "read" => conn = "torn" \/ owed = <<t>>
           /\ owed = << >> \/ \E t \in Tasks : pc[t] = "read" /\ owed = <<t>>
           /\ conn = "torn" => owed = << >>
           /\ \A t \in Tasks : answer[t] \in {NoTask, t}

SessionInv == Owns /\ OwesReader

(* Taking a frame of a sequence leaves frames.                              *)
LEMMA TakeFrames ==
  ASSUME owed \in Seq(Tasks \cup {Pong}), Take
  PROVE  /\ owed' \in Seq(Tasks \cup {Pong})
         /\ \A t : owed = <<t>> => owed' = << >>
<1>1. CASE owed' = << >>
  BY <1>1
<1>2. ASSUME NEW n \in DOMAIN owed, owed' = SubSeq(owed, n + 1, Len(owed))
      PROVE  /\ owed' \in Seq(Tasks \cup {Pong})
             /\ \A t : owed = <<t>> => owed' = << >>
  <2>1. owed' \in Seq(Tasks \cup {Pong})
    BY <1>2
  <2>2. ASSUME NEW t, owed = <<t>>
        PROVE  owed' = << >>
    <3>1. Len(owed) = 1 /\ n = 1
      BY <1>2, <2>2
    <3> QED
      BY <1>2, <2>1, <3>1
  <2> QED
    BY <2>1, <2>2
<1> QED
  BY <1>1, <1>2 DEF Take

(* Every step keeps the lock with the task at a label that holds it.        *)
LEMMA OwnsStep ==
  ASSUME Owns, [Next]_vars
  PROVE  Owns'
<1>0. NoTask \notin Tasks /\ Pong = NoTask
  BY ReliableAssumption DEF Pong, NoTask
\* One task moves; the lock was free or with it, and is.
<1>a. ASSUME NEW t \in Tasks, NEW l \in Labels, Goto(t, l), answer' = answer,
             owed' \in Seq(Tasks \cup {Pong}),
             {lock, lock'} \subseteq {t, NoTask}, l \in Holding => lock' = t
      PROVE  Owns'
  BY <1>0, <1>a DEF Owns, Goto
\* What Take and a tear leave on the stream.
<1>b. ASSUME Take \/ owed' = << >> \/ owed' = owed
      PROVE  owed' \in Seq(Tasks \cup {Pong})
  <2>1. << >> \in Seq(Tasks \cup {Pong})
    OBVIOUS
  <2> QED
    BY <1>b, <2>1, TakeFrames DEF Owns
<1> USE DEF Owns, Labels, Holding, Awaiting, Storing, Waiting, Goto, Return, taskVars,
            connVars, ghostVars
<1>1. ASSUME NEW t \in Tasks, Start(t)
      PROVE  Owns'
  BY <1>1 DEF Start
<1>2. ASSUME NEW t \in Tasks, Woken(t) \/ Jam(t)
      PROVE  Owns'
  BY <1>2 DEF Woken, Jam, ConnectReturns
<1>3. ASSUME NEW t \in Tasks, Locked(t)
      PROVE  Owns'
  BY <1>0, <1>3 DEF Locked, ConnectReturns
<1>4. ASSUME NEW t \in Tasks, StoreStream(t) \/ DialFails(t)
      PROVE  Owns'
  <2>1. /\ lock = t /\ lock' = lock /\ answer' = answer /\ (owed' = owed \/ owed' = << >>)
        /\ \E l \in {"stored", "failing", "pause"} : Goto(t, l)
    BY <1>4 DEF StoreStream, DialFails
  <2> QED
    BY <1>a, <1>b, <2>1
<1>5. ASSUME NEW t \in Tasks, StoreState(t) \/ StoreFailed(t) \/ StoreClosed(t)
      PROVE  Owns'
  <2>1. /\ lock = t /\ lock' = NoTask /\ answer' = answer /\ owed' = owed
        /\ \E l \in {"done", "exchange"} : Goto(t, l)
    BY <1>5 DEF StoreState, StoreFailed, StoreClosed, ConnectReturns
  <2> QED
    BY <1>a, <1>b, <2>1
<1>6. ASSUME NEW t \in Tasks, Write(t)
      PROVE  Owns'
  BY <1>0, <1>6 DEF Write
<1>7. ASSUME NEW t \in Tasks, Read(t)
      PROVE  Owns'
  <2>1. Head(owed) \in Tasks \cup {NoTask}
    BY <1>0, <1>7 DEF Read
  <2> QED
    BY <1>0, <1>7, <2>1, TakeFrames DEF Read
<1>8. ASSUME NEW t \in Tasks, ReadOther(t)
      PROVE  Owns'
  <2>1. owed # << >> => Head(owed) \in Tasks \cup {NoTask}
    BY <1>0
  <2> QED
    BY <1>0, <1>8, <2>1, TakeFrames DEF ReadOther
<1>9. ASSUME NEW t \in Tasks, ReadFails(t)
      PROVE  Owns'
  <2>1. lock = t /\ lock' = NoTask /\ Goto(t, "done") /\ answer' = answer
        /\ (Take \/ owed' = << >>)
    BY <1>9 DEF ReadFails
  <2> QED
    BY <1>a, <1>b, <2>1
<1>10. ASSUME NEW t \in Tasks, TimeOut(t)
       PROVE  Owns'
  <2>1. lock = t /\ lock' = NoTask /\ Goto(t, "done") /\ answer' = answer
        /\ (owed' = owed \/ owed' = << >>)
    BY <1>10 DEF TimeOut
  <2> QED
    BY <1>a, <1>b, <2>1
<1>11. ASSUME NEW t \in Tasks, Ping(t)
       PROVE  Owns'
  BY <1>0, <1>11 DEF Ping
<1>12. ASSUME NEW t \in Tasks, Disconnect(t) \/ StoreDisconnected(t)
       PROVE  Owns'
  <2>1. /\ lock' = lock /\ answer' = answer /\ (owed' = owed \/ owed' = << >>)
        /\ \E l \in {"cleared", "done"} : Goto(t, l)
    BY <1>12 DEF Disconnect, StoreDisconnected, Drop
  <2>2. owed' \in Seq(Tasks \cup {Pong})
    BY <1>b, <2>1
  <2> QED
    BY <2>1, <2>2
<1>13. ASSUME NEW t \in Tasks, Reconnect(t)
       PROVE  Owns'
  BY <1>0, <1>13 DEF Reconnect
<1>14. ASSUME NEW t \in Tasks, Attempt(t) \/ DropStream(t) \/ Resume(t)
       PROVE  Owns'
  <2>1. /\ lock = t /\ answer' = answer /\ (owed' = owed \/ owed' = << >>)
        /\ \/ lock' = NoTask /\ Goto(t, "done")
           \/ lock' = lock /\ \E l \in {"drop", "redial", "attempt"} : Goto(t, l)
    BY <1>14 DEF Attempt, DropStream, Resume, Drop
  <2> QED
    BY <1>a, <1>b, <2>1
<1>15. ASSUME NEW t \in Tasks, Abandon(t)
       PROVE  Owns'
  <2>1. /\ answer' = answer /\ (owed' = owed \/ owed' = << >>)
        /\ Goto(t, "dropped") /\ lock' = IF lock = t THEN NoTask ELSE lock
    BY <1>15 DEF Abandon
  <2>2. owed' \in Seq(Tasks \cup {Pong})
    BY <1>b, <2>1
  <2> QED
    BY <1>0, <2>1, <2>2
<1>16. CASE PeerCloses \/ UNCHANGED vars
  BY <1>16 DEF PeerCloses, vars
<1> QED
  BY <1>1, <1>2, <1>3, <1>4, <1>5, <1>6, <1>7, <1>8, <1>9, <1>10, <1>11, <1>12,
     <1>13, <1>14, <1>15, <1>16 DEF Next, Proceed, Arrival

(* Until an answer is lost, no step leaves a frame on the stream that the   *)
(* task that reads next does not wait for.                                  *)
LEMMA OwesReaderStep ==
  ASSUME Owns, OwesReader, [Next]_vars
  PROVE  OwesReader'
<1> SUFFICES ASSUME ~lost' PROVE OwesReader'
  BY DEF OwesReader
<1>0. /\ NoTask \notin Tasks /\ Pong = NoTask
      /\ pc \in [Tasks -> Labels] /\ answer \in [Tasks -> Tasks \cup {NoTask}]
  BY ReliableAssumption DEF Pong, NoTask, Owns
<1>1. ~lost
  BY DEF Next, Proceed, Arrival, Start, Woken, Jam, Locked, StoreStream, StoreState,
         DialFails, StoreFailed, Write, StoreClosed, TimeOut, Ping, Disconnect,
         StoreDisconnected, Reconnect, Attempt, DropStream, Resume, Read, ReadOther,
         ReadFails, Abandon, PeerCloses, vars, ghostVars
<1>2. /\ \A t \in Tasks : pc[t] = "read" => conn = "torn" \/ owed = <<t>>
      /\ owed = << >> \/ \E t \in Tasks : pc[t] = "read" /\ owed = <<t>>
      /\ conn = "torn" => owed = << >>
      /\ \A t \in Tasks : answer[t] \in {NoTask, t}
  BY <1>1 DEF OwesReader
<1>3. \A t, u \in Tasks : pc[t] \in Holding /\ pc[u] = "read" => t = u
  BY DEF Owns, Holding, Awaiting
<1>4. \A u \in Tasks : pc[u] = "read" => lock = u
  BY DEF Owns, Holding, Awaiting
\* A task moves that neither reads nor begins to; the stream stays.
<1>5. ASSUME NEW t \in Tasks, NEW l, l # "read", pc[t] # "read", Goto(t, l),
             answer' = answer, owed' = owed, conn' = conn
      PROVE  OwesReader'
  BY <1>0, <1>2, <1>5 DEF Goto, OwesReader
\* A task moves and nobody reads: the stream is empty.
<1>6. ASSUME NEW t \in Tasks, NEW l, l # "read", Goto(t, l), owed' = << >>,
             \A u \in Tasks \ {t} : pc[u] # "read", answer' = answer
      PROVE  OwesReader'
  BY <1>0, <1>2, <1>6 DEF Goto, OwesReader
<1>7. ASSUME NEW t \in Tasks, Start(t) \/ Woken(t) \/ Jam(t) \/ Locked(t) \/ StoreState(t)
                              \/ DialFails(t) \/ StoreFailed(t) \/ StoreClosed(t)
      PROVE  OwesReader'
  <2>1. /\ answer' = answer /\ owed' = owed /\ conn' = conn /\ pc[t] # "read"
        /\ \E l \in Labels \ {"read"} : Goto(t, l)
    BY <1>7 DEF Start, Woken, Jam, Locked, StoreState, DialFails, StoreFailed, StoreClosed,
                ConnectReturns, Return, connVars, Labels, Waiting, Holding, Awaiting, Storing
  <2> QED
    BY <1>5, <2>1
<1>8. ASSUME NEW t \in Tasks, StoreStream(t) \/ Disconnect(t) \/ DropStream(t)
      PROVE  OwesReader'
  <2>1. /\ answer' = answer /\ owed' = << >>
        /\ \E l \in {"stored", "cleared", "redial"} : Goto(t, l)
        /\ \A u \in Tasks \ {t} : pc[u] # "read"
    BY <1>3, <1>8 DEF StoreStream, Disconnect, DropStream, Drop, Holding, Awaiting
  <2> QED
    BY <1>6, <2>1
<1>9. ASSUME NEW t \in Tasks,
             StoreDisconnected(t) \/ Reconnect(t) \/ Attempt(t) \/ Resume(t)
      PROVE  OwesReader'
  <2>1. /\ answer' = answer /\ owed' = owed /\ conn' = conn /\ pc[t] # "read"
        /\ \E l \in {"done", "attempt", "drop"} : Goto(t, l)
    BY <1>9 DEF StoreDisconnected, Reconnect, Attempt, Resume, Return, connVars
  <2> QED
    BY <1>5, <2>1
<1>10. ASSUME NEW t \in Tasks, Write(t)
       PROVE  OwesReader'
  <2>1. /\ pc[t] = "exchange" /\ lock = NoTask /\ answer' = answer /\ conn' = conn
        /\ \A u \in Tasks : pc[u] # "read"
    BY <1>0, <1>4, <1>10 DEF Write
  <2>2. owed = << >>
    BY <1>2, <2>1
  <2>3. CASE owed' = owed /\ \E l \in {"done", "closed"} : Goto(t, l)
    BY <1>5, <2>1, <2>3
  <2>4. CASE /\ Goto(t, "read") /\ conn \in {"open", "torn"}
             /\ owed' = IF conn = "open" THEN Append(owed, t) ELSE owed
    <3>1. \/ conn' = "torn" /\ owed' = << >>
          \/ conn' = "open" /\ owed' = <<t>>
      BY <2>1, <2>2, <2>4
    <3>2. pc'[t] = "read" /\ \A u \in Tasks \ {t} : pc'[u] # "read"
      BY <1>0, <2>1, <2>4 DEF Goto
    <3> QED
      BY <1>2, <2>1, <3>1, <3>2 DEF OwesReader
  <2> QED
    BY <1>10, <2>3, <2>4 DEF Write, Return
<1>11. ASSUME NEW t \in Tasks, Read(t) \/ ReadOther(t) \/ ReadFails(t)
       PROVE  OwesReader'
  <2>1. pc[t] = "read" /\ \A u \in Tasks \ {t} : pc[u] # "read"
    BY <1>3, <1>11 DEF Read, ReadOther, ReadFails, Holding, Awaiting
  <2>2. owed = << >> \/ owed = <<t>>
    BY <1>2, <2>1
  <2>3. Take => owed' = << >> /\ owed = <<t>>
    <3>1. ASSUME Take PROVE owed # << >>
      BY <3>1 DEF Take
    <3> QED
      BY <2>2, <3>1, TakeFrames DEF Owns
  <2>4. owed' = << >>
    BY <1>2, <1>11, <2>2, <2>3 DEF Read, ReadOther, ReadFails, connVars
  <2>5. \E l \in {"done", "stuck"} : Goto(t, l)
    BY <1>11 DEF Read, ReadOther, ReadFails, Return
  <2>6. answer' = answer \/ answer' = [answer EXCEPT ![t] = t]
    <3>1. owed = <<t>> => Head(owed) = t
      OBVIOUS
    <3> QED
      BY <1>11, <2>3, <3>1 DEF Read, ReadOther, ReadFails
  <2>7. \A u \in Tasks : pc'[u] # "read"
    BY <1>0, <2>1, <2>5 DEF Goto
  <2> QED
    BY <1>0, <1>2, <2>4, <2>6, <2>7 DEF OwesReader
<1>12. ASSUME NEW t \in Tasks, Abandon(t)
       PROVE  OwesReader'
  <2>1. /\ pc[t] # "read" /\ Goto(t, "dropped") /\ answer' = answer
        /\ owed' = owed /\ conn' = conn
    BY <1>12 DEF Abandon, connVars
  <2> QED
    BY <1>5, <2>1
<1>13. CASE PeerCloses \/ UNCHANGED vars
  <2>1. pc' = pc /\ answer' = answer /\ owed' = owed
        /\ (conn = "torn" <=> conn' = "torn")
    BY <1>13 DEF PeerCloses, vars, taskVars, connVars
  <2> QED
    BY <1>2, <2>1 DEF OwesReader
<1>14. \A t \in Tasks : ~TimeOut(t)
  BY DEF TimeOut
<1>15. ASSUME NEW t \in Tasks, Ping(t)
       PROVE  OwesReader'
  <2>1. /\ pc[t] # "read" /\ Goto(t, "done") /\ answer' = answer
        /\ owed' = owed /\ conn' = conn
    BY <1>15 DEF Ping, Return
  <2> QED
    BY <1>5, <2>1
<1> QED
  BY <1>7, <1>8, <1>9, <1>10, <1>11, <1>12, <1>13, <1>14, <1>15 DEF Next, Proceed, Arrival

(* The inductive invariant of a shared client.                              *)
THEOREM SessionInvariant == Spec => []SessionInv
<1>1. Init => SessionInv
  <2> SUFFICES ASSUME Init PROVE SessionInv
    OBVIOUS
  <2>1. Owns
    BY DEF Init, Owns, Labels, Holding, Awaiting, Storing, Waiting
  <2>2. OwesReader
    BY DEF Init, OwesReader
  <2> QED
    BY <2>1, <2>2 DEF SessionInv
<1>2. SessionInv /\ [Next]_vars => SessionInv'
  BY OwnsStep, OwesReaderStep DEF SessionInv
<1> QED
  BY <1>1, <1>2, PTL DEF Spec

(* Calls of any number of tasks, with any failures of the peer, return only *)
(* their own responses until one has timed out, been dropped, or a ping has *)
(* been sent (client.rs:626-663).                                           *)
THEOREM InStepCorrect == Spec => []InStep
<1>1. SessionInv => InStep
  BY DEF SessionInv, OwesReader, InStep
<1> QED
  BY <1>1, SessionInvariant, PTL

(* The state follows the stream with a delay: what each task has done to    *)
(* the one and still has to do to the other.                                *)
StreamInv ==
  /\ ConnectedHasStream
  /\ \A t \in Tasks : pc[t] = "stored" /\ conn = "none" => taken
  /\ \A t \in Tasks : pc[t] = "drop" => state # "Connected"

LEMMA StreamStep ==
  ASSUME Owns, StreamInv, [Next]_vars
  PROVE  StreamInv'
<1>0. /\ pc \in [Tasks -> Labels]
      /\ \A t, u \in Tasks : pc[t] \in Holding /\ pc[u] \in Holding => t = u
  BY DEF Owns
<1> USE DEF StreamInv, ConnectedHasStream
\* A task moves to where nothing is asked of it; a new state is not Connected.
<1>1. ASSUME NEW t \in Tasks, NEW l, l \notin {"stored", "drop"}, Goto(t, l),
             pc[t] # "cleared" \/ state' # "Connected", taken' = taken,
             state' = state \/ state' # "Connected", conn' = conn \/ conn' # "none"
      PROVE  StreamInv'
  BY <1>0, <1>1 DEF Goto
<1>2. ASSUME NEW t \in Tasks, Start(t) \/ Woken(t) \/ Jam(t) \/ Locked(t) \/ DialFails(t)
                              \/ Reconnect(t) \/ Resume(t) \/ Abandon(t)
      PROVE  StreamInv'
  <2>1. /\ pc[t] # "cleared" /\ taken' = taken /\ (conn' = conn \/ conn' # "none")
        /\ state' = state \/ state' # "Connected"
        /\ \E l \in Labels \ {"stored", "drop"} : Goto(t, l)
    BY <1>2 DEF Start, Woken, Jam, Locked, DialFails, Reconnect, Resume, Abandon, SetState,
                ConnectReturns, Return, connVars, ghostVars, Labels, Waiting, Holding,
                Awaiting, Storing
  <2> QED
    BY <1>1, <2>1
<1>3. ASSUME NEW t \in Tasks, Write(t) \/ TimeOut(t) \/ Ping(t)
                              \/ Read(t) \/ ReadOther(t) \/ ReadFails(t)
      PROVE  StreamInv'
  <2>1. /\ pc[t] # "cleared" /\ taken' = taken /\ state' = state
        /\ conn' = conn \/ conn' # "none"
        /\ \E l \in {"done", "closed", "read", "stuck"} : Goto(t, l)
    BY <1>3 DEF Write, TimeOut, Ping, Read, ReadOther, ReadFails, Take, Return, connVars,
                ghostVars
  <2> QED
    BY <1>1, <2>1
<1>4. ASSUME NEW t \in Tasks, StoreFailed(t) \/ StoreClosed(t) \/ StoreDisconnected(t)
      PROVE  StreamInv'
  <2>1. /\ taken' = taken /\ conn' = conn /\ Goto(t, "done")
        /\ state' \in {"Failed", "Disconnected"}
    BY <1>4 DEF StoreFailed, StoreClosed, StoreDisconnected, SetState, Return, connVars,
                ghostVars
  <2> QED
    BY <1>1, <2>1
\* The new stream is there; it was, or has been taken, when the state says so.
<1>5. ASSUME NEW t \in Tasks, StoreStream(t)
      PROVE  StreamInv'
  BY <1>0, <1>5 DEF StoreStream, Goto
<1>6. ASSUME NEW t \in Tasks, StoreState(t)
      PROVE  StreamInv'
  <2>1. /\ pc[t] = "stored" /\ conn' = conn /\ taken' = taken
        /\ \E l \in {"done", "exchange"} : Goto(t, l)
    BY <1>6 DEF StoreState, ConnectReturns, Return, connVars, ghostVars
  <2>2. conn' = "none" => taken'
    BY <2>1
  <2>3. \A u \in Tasks : pc'[u] \notin {"stored", "drop"}
    BY <1>0, <2>1 DEF Goto, Holding, Awaiting, Storing
  <2> QED
    BY <2>2, <2>3
<1>7. ASSUME NEW t \in Tasks, Disconnect(t)
      PROVE  StreamInv'
  <2>1. /\ pc'[t] = "cleared" /\ state' = state
        /\ taken' = (taken \/ \E u \in Tasks : pc[u] = "stored")
        /\ \A u \in Tasks : pc'[u] \in {"stored", "drop"} => pc'[u] = pc[u]
    BY <1>0, <1>7 DEF Disconnect, Goto
  <2> QED
    BY <2>1
<1>8. ASSUME NEW t \in Tasks, Attempt(t)
      PROVE  StreamInv'
  <2>1. /\ state' # "Connected" /\ conn' = conn /\ taken' = taken
        /\ \E l \in {"drop", "done"} : Goto(t, l)
    BY <1>8 DEF Attempt, SetState, Return, connVars, ghostVars
  <2> QED
    BY <1>0, <2>1 DEF Goto
<1>9. ASSUME NEW t \in Tasks, DropStream(t)
      PROVE  StreamInv'
  <2>1. pc[t] = "drop" /\ Goto(t, "redial") /\ state' = state /\ state # "Connected"
    BY <1>9 DEF DropStream
  <2>2. \A u \in Tasks : pc'[u] # "stored"
    BY <1>0, <2>1 DEF Goto, Holding, Awaiting, Storing
  <2> QED
    BY <2>1, <2>2
<1>10. CASE PeerCloses \/ UNCHANGED vars
  BY <1>10 DEF PeerCloses, vars, taskVars, connVars, ghostVars
<1> QED
  BY <1>2, <1>3, <1>4, <1>5, <1>6, <1>7, <1>8, <1>9, <1>10 DEF Next, Proceed, Arrival

(* ensure_connected and call use a stream without asking whether there is   *)
(* one.  Only a disconnect makes Connected wrong: between its own two       *)
(* stores, or when it has come between the two of a dial (client.rs:567,    *)
(* 590, 715), for any number of tasks on any threads.                       *)
THEOREM ConnectedHasStreamCorrect == Spec => []ConnectedHasStream
<1>1. Init => StreamInv
  BY DEF Init, StreamInv, ConnectedHasStream
<1>2. SessionInv /\ StreamInv /\ [Next]_vars => StreamInv'
  BY StreamStep DEF SessionInv
<1>3. StreamInv => ConnectedHasStream
  BY DEF StreamInv
<1> QED
  BY <1>1, <1>2, <1>3, SessionInvariant, PTL DEF Spec

(* Types: in particular a reconnect never begins more attempts than it may. *)
THEOREM TypeCorrect == Spec => []TypeOK
<1> DEFINE Rest == /\ kind \in [Tasks -> Kinds]
                   /\ outcome \in [Tasks -> {"none", "ok", "error"}]
                   /\ state \in States /\ lock \in Tasks \cup {NoTask}
                   /\ conn \in {"none", "open", "dead", "torn"}
                   /\ tries \in 0 .. MaxAttempts
                   /\ lost \in BOOLEAN /\ cut \in BOOLEAN /\ taken \in BOOLEAN
<1>1. Init => Rest
  <2>1. MaxAttempts \in Nat /\ 0 \in 0 .. MaxAttempts
    BY ReliableAssumption
  <2> QED
    BY <2>1 DEF Init, Kinds, States
<1>2. ASSUME Rest, [Next]_vars
      PROVE  Rest'
  <2>1. MaxAttempts \in Nat
    BY ReliableAssumption
  <2> USE DEF Kinds, States, Return, SetState, ConnectReturns, Drop, connVars, ghostVars
  <2>2. ASSUME NEW t \in Tasks, Start(t) \/ Woken(t) \/ Jam(t) \/ Locked(t)
        PROVE  Rest'
    BY <1>2, <2>2 DEF Start, Woken, Jam, Locked
  <2>3. ASSUME NEW t \in Tasks, StoreStream(t) \/ StoreState(t) \/ DialFails(t)
                                \/ StoreFailed(t) \/ Write(t) \/ StoreClosed(t)
        PROVE  Rest'
    BY <1>2, <2>3 DEF StoreStream, StoreState, DialFails, StoreFailed, Write, StoreClosed
  <2>4. ASSUME NEW t \in Tasks, Read(t) \/ ReadOther(t) \/ ReadFails(t)
        PROVE  Rest'
    BY <1>2, <2>4 DEF Read, ReadOther, ReadFails, Take
  <2>5. ASSUME NEW t \in Tasks, TimeOut(t) \/ Ping(t) \/ Disconnect(t) \/ StoreDisconnected(t)
        PROVE  Rest'
    BY <1>2, <2>5 DEF TimeOut, Ping, Disconnect, StoreDisconnected
  <2>6. ASSUME NEW t \in Tasks, Reconnect(t) \/ Attempt(t) \/ DropStream(t) \/ Resume(t)
        PROVE  Rest'
    BY <1>2, <2>1, <2>6 DEF Reconnect, Attempt, DropStream, Resume
  <2>7. ASSUME NEW t \in Tasks, Abandon(t)
        PROVE  Rest'
    BY <1>2, <2>7 DEF Abandon
  <2>8. CASE PeerCloses \/ UNCHANGED vars
    BY <1>2, <2>8 DEF PeerCloses, vars, taskVars
  <2> QED
    BY <1>2, <2>2, <2>3, <2>4, <2>5, <2>6, <2>7, <2>8 DEF Next, Proceed, Arrival
<1>3. Rest /\ SessionInv => TypeOK
  BY DEF SessionInv, Owns, TypeOK
<1> QED
  BY <1>1, <1>2, <1>3, SessionInvariant, PTL DEF Spec

(* What a task was asked to do, by where it is in it; and that somebody is  *)
(* in a dial in the state Connecting, unless a dropped connect has left it. *)
AskedFor ==
  /\ pc \in [Tasks -> Labels] /\ kind \in [Tasks -> Kinds]
  /\ outcome \in [Tasks -> {"none", "ok", "error"}]
  /\ \A t \in Tasks : /\ pc[t] \in {"exchange", "read", "closed"} => kind[t] = "call"
                      /\ pc[t] \in {"ping", "disconnect"} => kind[t] = pc[t]
                      /\ pc[t] = "cleared" => kind[t] = "disconnect"
  /\ \A t \in Tasks : pc[t] \in Holding => lock = t
  /\ state = "Connecting"
       => cut \/ \E t \in Tasks : pc[t] \in {"dial", "stored", "failing"}

LEMMA AskedForStep ==
  ASSUME AskedFor, Owns', [Next]_vars
  PROVE  AskedFor'
<1> USE DEF Return, Goto, SetState, ConnectReturns, connVars, ghostVars, taskVars, Drop,
            Labels, Holding, Awaiting, Storing, Waiting
<1>1. pc' \in [Tasks -> Labels] /\ \A t \in Tasks : pc'[t] \in Holding => lock' = t
  BY DEF Owns
<1>2. ASSUME NEW t \in Tasks, Start(t)
      PROVE  AskedFor'
  BY <1>1, <1>2 DEF AskedFor, Start, Kinds
<1>3. ASSUME NEW t \in Tasks, Woken(t) \/ Jam(t) \/ Locked(t)
      PROVE  AskedFor'
  BY <1>1, <1>3 DEF AskedFor, Woken, Jam, Locked
<1>4. ASSUME NEW t \in Tasks, StoreStream(t) \/ DialFails(t)
      PROVE  AskedFor'
  BY <1>1, <1>4 DEF AskedFor, StoreStream, DialFails
<1>5. ASSUME NEW t \in Tasks, StoreState(t) \/ StoreFailed(t) \/ StoreClosed(t)
      PROVE  AskedFor'
  BY <1>1, <1>5 DEF AskedFor, StoreState, StoreFailed, StoreClosed
<1>6. ASSUME NEW t \in Tasks, Write(t)
      PROVE  AskedFor'
  BY <1>1, <1>6 DEF AskedFor, Write
<1>7. ASSUME NEW t \in Tasks, Read(t) \/ ReadOther(t) \/ ReadFails(t) \/ TimeOut(t) \/ Ping(t)
      PROVE  AskedFor'
  BY <1>1, <1>7 DEF AskedFor, Read, ReadOther, ReadFails, TimeOut, Ping
<1>8. ASSUME NEW t \in Tasks, Disconnect(t) \/ StoreDisconnected(t) \/ Reconnect(t)
      PROVE  AskedFor'
  BY <1>1, <1>8 DEF AskedFor, Disconnect, StoreDisconnected, Reconnect
<1>9. ASSUME NEW t \in Tasks, Attempt(t) \/ DropStream(t) \/ Resume(t)
      PROVE  AskedFor'
  BY <1>1, <1>9 DEF AskedFor, Attempt, DropStream, Resume
<1>10. ASSUME NEW t \in Tasks, Abandon(t)
       PROVE  AskedFor'
  BY <1>1, <1>10 DEF AskedFor, Abandon
<1>11. CASE PeerCloses \/ UNCHANGED vars
  BY <1>1, <1>11 DEF AskedFor, PeerCloses, vars
<1> QED
  BY <1>2, <1>3, <1>4, <1>5, <1>6, <1>7, <1>8, <1>9, <1>10, <1>11 DEF Next, Proceed, Arrival

(* A task that finds Connecting under the lock returns Ok without a look at *)
(* the stream; whoever dials has the lock, so that it can only find what a  *)
(* dropped connect has left there (client.rs:553, 748).                     *)
THEOREM OkMeansConnectedCorrect == Spec => OkMeansConnected
<1>1. Init => AskedFor
  BY DEF Init, AskedFor, Kinds, Labels, Holding, Awaiting, Storing, Waiting
<1>2. AskedFor /\ Owns' /\ [Next]_vars => AskedFor'
  BY AskedForStep
<1>3. Spec => []AskedFor
  <2>1. SessionInv => Owns
    BY DEF SessionInv
  <2> QED
    BY <1>1, <1>2, <2>1, SessionInvariant, PTL DEF Spec
<1>4. AskedFor /\ [Next]_vars =>
        [\A t \in Tasks :
           kind'[t] = "connect" /\ outcome[t] = "none" /\ outcome'[t] = "ok"
             => state' = "Connected" \/ cut]_vars
  <2> SUFFICES ASSUME AskedFor, Next, NEW t \in Tasks,
                      kind'[t] = "connect", outcome[t] = "none", outcome'[t] = "ok"
               PROVE  state' = "Connected" \/ cut
    OBVIOUS
  <2> USE DEF Return, Goto, SetState, ConnectReturns, connVars, ghostVars, taskVars
  <2>1. ASSUME NEW u \in Tasks, Start(u) \/ Woken(u) \/ StoreState(u)
        PROVE  state' = "Connected"
    BY <2>1 DEF AskedFor, Start, Woken, StoreState
  <2>2. ASSUME NEW u \in Tasks, Locked(u)
        PROVE  state' = "Connected" \/ cut
    <3>1. \A v \in Tasks : pc[v] \notin {"dial", "stored", "failing"}
      BY <2>2, ReliableAssumption DEF Locked, AskedFor, Holding, Awaiting, Storing
    <3> QED
      BY <2>2, <3>1 DEF AskedFor, Locked
  <2>3. ASSUME NEW u \in Tasks, Write(u) \/ Read(u) \/ ReadOther(u) \/ ReadFails(u) \/ TimeOut(u)
        PROVE  FALSE
    BY <2>3 DEF AskedFor, Write, Read, ReadOther, ReadFails, TimeOut
  <2>4. ASSUME NEW u \in Tasks, Ping(u) \/ Disconnect(u) \/ StoreDisconnected(u)
        PROVE  FALSE
    BY <2>4 DEF AskedFor, Ping, Disconnect, StoreDisconnected
  <2>5. ASSUME NEW u \in Tasks, Jam(u) \/ StoreStream(u) \/ DialFails(u) \/ StoreFailed(u)
                                \/ StoreClosed(u) \/ Reconnect(u) \/ Attempt(u)
                                \/ DropStream(u) \/ Resume(u) \/ Abandon(u)
        PROVE  FALSE
    BY <2>5 DEF AskedFor, Jam, StoreStream, DialFails, StoreFailed, StoreClosed, Reconnect,
                Attempt, DropStream, Resume, Abandon
  <2>6. CASE PeerCloses
    BY <2>6 DEF PeerCloses
  <2> QED
    BY <2>1, <2>2, <2>3, <2>4, <2>5, <2>6 DEF Next, Proceed, Arrival
<1> QED
  BY <1>3, <1>4, PTL DEF Spec, OkMeansConnected

------------------------------------------------------------------------------
(* Webhook.                                                                 *)
(* The events and their senders are taken in order, so that every post is   *)
(* of one of three kinds: done with, the one being made, or still to come.  *)

Fates == {"arrived", "underway", "lost"}

HookTypes ==
  /\ hook \in [at : {"idle", "post", "sleep"}, event : 0..Events,
               sender : 0..Senders, attempt : 0..MaxRetries]
  /\ hook.at # "idle" => hook.event \in Reports /\ hook.sender \in Posters

Types ==
  /\ HookTypes
  /\ errors \in [Reports -> SUBSET Posters]
  /\ posts \in [Reports -> [Posters -> [Fates -> Nat]]]
  /\ hooked \subseteq Reports

Made(e, s) == posts[e][s].arrived + posts[e][s].underway + posts[e][s].lost

\* The sender has sent the event, or given it up.
Done(e, s) ==
  \/ e < hook.event
  \/ e = hook.event /\ (hook.at = "idle" \/ s < hook.sender)

Now(e, s) == hook.at # "idle" /\ e = hook.event /\ s = hook.sender

\* What is known of each post: while it is made, each attempt was one; before,
\* nothing; afterwards, that it arrived or is reported.
Known(e, s) ==
  /\ Done(e, s) => /\ Made(e, s) <= MaxRetries + 1
                   /\ s \in errors[e] => Made(e, s) = MaxRetries + 1
                   /\ s \notin errors[e] => posts[e][s].arrived > 0
  /\ Now(e, s) => Made(e, s) = hook.attempt /\ s \notin errors[e]
  /\ ~Done(e, s) /\ ~Now(e, s) => Made(e, s) = 0 /\ s \notin errors[e]

DeliveryInv ==
  /\ Types
  /\ \A e \in hooked, s \in Posters : Done(e, s)
  /\ \A e \in Reports, s \in Posters : Known(e, s)

\* A post is put down for the current event and sender, and for no other.
LEMMA CountPost ==
  ASSUME posts \in [Reports -> [Posters -> [Fates -> Nat]]],
         NEW c \in Reports, NEW r \in Posters, NEW fate \in Fates,
         posts' = Count(c, r, fate)
  PROVE  /\ posts' \in [Reports -> [Posters -> [Fates -> Nat]]]
         /\ Made(c, r)' = Made(c, r) + 1
         /\ \A e \in Reports, s \in Posters :
              ~(e = c /\ s = r) => posts'[e][s] = posts[e][s]
<1>1. posts' = [posts EXCEPT ![c][r][fate] = @ + 1]
  BY DEF Count
<1>2. /\ posts' \in [Reports -> [Posters -> [Fates -> Nat]]]
      /\ \A e \in Reports, s \in Posters :
           ~(e = c /\ s = r) => posts'[e][s] = posts[e][s]
  BY <1>1
<1>3. posts'[c][r] = [posts[c][r] EXCEPT ![fate] = @ + 1] /\ posts[c][r] \in [Fates -> Nat]
  BY <1>1
<1>4. Made(c, r)' = Made(c, r) + 1
  <2> DEFINE p == posts[c][r]
             q == posts'[c][r]
  <2>1. p.arrived \in Nat /\ p.underway \in Nat /\ p.lost \in Nat
    BY <1>3 DEF Fates
  <2>2. \A x, y, z \in Nat : /\ (x + 1) + y + z = (x + y + z) + 1
                            /\ x + (y + 1) + z = (x + y + z) + 1
                            /\ x + y + (z + 1) = (x + y + z) + 1
    OBVIOUS
  <2>3. /\ Made(c, r) = p.arrived + p.underway + p.lost
        /\ Made(c, r)' = q.arrived + q.underway + q.lost
    BY DEF Made
  <2> HIDE DEF p, q
  <2>4. CASE fate = "arrived"
    <3>1. q.arrived = p.arrived + 1 /\ q.underway = p.underway /\ q.lost = p.lost
      BY <1>3, <2>4 DEF Fates, p, q
    <3> QED
      BY <2>2, <2>1, <2>3, <3>1
  <2>5. CASE fate = "underway"
    <3>1. q.underway = p.underway + 1 /\ q.arrived = p.arrived /\ q.lost = p.lost
      BY <1>3, <2>5 DEF Fates, p, q
    <3> QED
      BY <2>2, <2>1, <2>3, <3>1
  <2>6. CASE fate = "lost"
    <3>1. q.lost = p.lost + 1 /\ q.arrived = p.arrived /\ q.underway = p.underway
      BY <1>3, <2>6 DEF Fates, p, q
    <3>2. p.arrived + p.underway + (p.lost + 1) = p.arrived + p.underway + p.lost + 1
      BY <2>2, <2>1
    <3> QED
      BY <2>3, <3>1, <3>2
  <2> QED
    BY <2>4, <2>5, <2>6 DEF Fates
<1> QED
  BY <1>2, <1>4

\* The fields of hook, one by one.
LEMMA HookFields ==
  ASSUME HookTypes
  PROVE  /\ Events \in Nat /\ Senders \in Nat /\ Senders # 0 /\ MaxRetries \in Nat
         /\ hook.event \in Nat /\ hook.event <= Events
         /\ hook.sender \in Nat /\ hook.sender <= Senders
         /\ hook.attempt \in Nat /\ hook.attempt <= MaxRetries
         /\ hook.at \in {"idle", "post", "sleep"}
BY WebhookAssumption DEF HookTypes

\* The task goes on to the next sender, or has returned.
LEMMA Advance ==
  ASSUME HookTypes, hook.at = "post", NextSender
  PROVE  /\ HookTypes'
         /\ \A e \in Reports, s \in Posters :
              /\ Done(e, s)' <=> Done(e, s) \/ Now(e, s)
              /\ Now(e, s)' => ~Done(e, s) /\ ~Now(e, s) /\ hook'.attempt = 0
         /\ \A e \in hooked' :
              \/ e \in hooked
              \/ e = hook.event /\ \A s \in Posters : Done(e, s)'
<1>0. PICK c, n : c = hook.event /\ n = hook.sender
  OBVIOUS
<1>1. /\ Senders \in Nat /\ Events \in Nat /\ n \in Nat /\ c \in Nat /\ MaxRetries \in Nat
      /\ hook.at = "post" /\ n \in Posters /\ c \in Reports
      /\ c <= Events /\ n <= Senders
  BY <1>0, HookFields DEF HookTypes
<1>2. CASE n < Senders
  <2>1. /\ hook' = [hook EXCEPT !.at = "post", !.sender = @ + 1, !.attempt = 0]
        /\ hooked' = hooked
    BY <1>0, <1>2 DEF NextSender
  <2>2. /\ hook'.at = "post" /\ hook'.event = c
        /\ hook'.sender = n + 1 /\ hook'.attempt = 0
    BY <1>0, <2>1 DEF HookTypes
  <2>3. HookTypes'
    <3>1. n + 1 \in 0..Senders /\ n + 1 \in Posters /\ 0 \in 0..MaxRetries
      BY <1>1, <1>2 DEF Posters
    <3> QED
      BY <1>0, <1>1, <2>1, <2>2, <3>1 DEF HookTypes
  <2>4. ASSUME NEW e \in Reports, NEW s \in Posters
        PROVE  /\ Done(e, s)' <=> Done(e, s) \/ Now(e, s)
               /\ Now(e, s)' => ~Done(e, s) /\ ~Now(e, s) /\ hook'.attempt = 0
    <3>1. e \in Int /\ s \in Int
      BY DEF Reports, Posters
    <3> QED
      BY <1>0, <1>1, <2>2, <3>1 DEF Done, Now
  <2> QED
    BY <1>0, <2>1, <2>3, <2>4
<1>3. CASE ~(n < Senders)
  <2>1. hook' = [hook EXCEPT !.at = "idle"] /\ hooked' = hooked \cup {c}
    BY <1>0, <1>3 DEF NextSender
  <2>2. /\ hook'.at = "idle" /\ hook'.event = c
        /\ hook'.sender = n /\ hook'.attempt = hook.attempt
    BY <1>0, <2>1 DEF HookTypes
  <2>3. HookTypes'
    BY <1>0, <1>1, <2>1, <2>2 DEF HookTypes
  <2>4. ASSUME NEW e \in Reports, NEW s \in Posters
        PROVE  /\ Done(e, s)' <=> Done(e, s) \/ Now(e, s)
               /\ ~Now(e, s)'
    <3>1. e \in Int /\ s \in Int /\ s <= Senders
      BY <1>1 DEF Reports, Posters
    <3> QED
      BY <1>0, <1>1, <1>3, <2>2, <3>1 DEF Done, Now
  <2>5. \A s \in Posters : Done(c, s)'
    BY <2>2 DEF Done
  <2> QED
    BY <1>0, <2>1, <2>3, <2>4, <2>5
<1> QED
  BY <1>2, <1>3

LEMMA Step ==
  ASSUME DeliveryInv, WebhookNext
  PROVE  DeliveryInv'
<1>0. Types /\ HookTypes
  BY DEF DeliveryInv, Types
<1>a. PICK c, r : c = hook.event /\ r = hook.sender
  OBVIOUS
<1>1. CASE Notify
  <2>1. /\ hook' = [at |-> "post", event |-> c + 1, sender |-> 1, attempt |-> 0]
        /\ hook.at = "idle" /\ c < Events
        /\ UNCHANGED <<errors, posts, hooked>>
    BY <1>a, <1>1 DEF Notify
  <2>2. /\ hook'.at = "post" /\ hook'.event = c + 1
        /\ hook'.sender = 1 /\ hook'.attempt = 0
    BY <2>1
  <2>3. HookTypes'
    <3>1. /\ c + 1 \in 0..Events /\ c + 1 \in Reports /\ 1 \in 0..Senders
          /\ 1 \in Posters /\ 0 \in 0..MaxRetries
      BY <1>a, <1>0, <2>1, HookFields DEF Reports, Posters
    <3> QED
      BY <2>1, <2>2, <3>1 DEF HookTypes
  <2>4. ASSUME NEW e \in Reports, NEW s \in Posters
        PROVE  /\ Done(e, s)' <=> Done(e, s)
               /\ ~Now(e, s)
               /\ Now(e, s)' => ~Done(e, s) /\ hook'.attempt = 0
    <3>1. e \in Int /\ s \in Int /\ s >= 1 /\ c \in Nat
      BY <1>a, <1>0, HookFields DEF Reports, Posters
    <3> QED
      BY <1>a, <2>1, <2>2, <3>1 DEF Done, Now
  <2>5. ASSUME NEW e \in Reports, NEW s \in Posters PROVE Known(e, s)'
    <3>1. Known(e, s) /\ Made(e, s)' = Made(e, s)
      BY <2>1 DEF DeliveryInv, Made
    <3> QED
      BY <2>1, <2>4, <3>1 DEF Known
  <2>6. \A e \in hooked', s \in Posters : Done(e, s)'
    BY <1>a, <1>0, <2>1, <2>4 DEF DeliveryInv, Types
  <2> QED
    BY <1>a, <1>0, <2>1, <2>3, <2>5, <2>6 DEF DeliveryInv, Types
\* A post is made for the current event and sender.
<1>2. ASSUME hook.at = "post", NEW fate \in Fates, posts' = Count(c, r, fate)
      PROVE  /\ posts' \in [Reports -> [Posters -> [Fates -> Nat]]]
             /\ c \in Reports /\ r \in Posters /\ Now(c, r) /\ ~Done(c, r)
             /\ Made(c, r)' = hook.attempt + 1 /\ r \notin errors[c]
             /\ \A e \in Reports, s \in Posters : ~Now(e, s) => posts'[e][s] = posts[e][s]
  <2>1. c \in Reports /\ r \in Posters /\ c \in Nat /\ r \in Nat
    BY <1>a, <1>0, <1>2, HookFields DEF HookTypes
  <2>2. Now(c, r) /\ ~Done(c, r)
    BY <1>a, <1>2, <2>1 DEF Now, Done
  <2>3. Made(c, r) = hook.attempt /\ r \notin errors[c]
    BY <2>1, <2>2 DEF DeliveryInv, Known
  <2> QED
    <3>1. posts \in [Reports -> [Posters -> [Fates -> Nat]]]
      BY <1>0 DEF Types
    <3>2. /\ posts' \in [Reports -> [Posters -> [Fates -> Nat]]]
          /\ Made(c, r)' = Made(c, r) + 1
          /\ \A e \in Reports, s \in Posters :
               ~(e = c /\ s = r) => posts'[e][s] = posts[e][s]
      BY <1>2, <2>1, <3>1, CountPost
    <3>3. \A e \in Reports, s \in Posters : ~Now(e, s) => posts'[e][s] = posts[e][s]
      BY <1>a, <1>2, <3>2 DEF Now
    <3> QED
      BY <2>1, <2>2, <2>3, <3>2, <3>3
\* And the sender has done with the event.
<1>3. ASSUME hook.at = "post", NEW fate \in Fates, posts' = Count(c, r, fate), NextSender,
             \/ errors' = errors /\ posts'[c][r].arrived > 0
             \/ errors' = [errors EXCEPT ![c] = @ \cup {r}] /\ hook.attempt = MaxRetries
      PROVE  DeliveryInv'
  <2>1. /\ posts' \in [Reports -> [Posters -> [Fates -> Nat]]]
        /\ c \in Reports /\ r \in Posters /\ Now(c, r) /\ ~Done(c, r)
        /\ Made(c, r)' = hook.attempt + 1 /\ r \notin errors[c]
        /\ \A e \in Reports, s \in Posters : ~Now(e, s) => posts'[e][s] = posts[e][s]
    BY <1>2, <1>3
  <2>2. /\ HookTypes'
        /\ \A e \in Reports, s \in Posters :
             /\ Done(e, s)' <=> Done(e, s) \/ Now(e, s)
             /\ Now(e, s)' => ~Done(e, s) /\ ~Now(e, s) /\ hook'.attempt = 0
        /\ \A e \in hooked' :
             \/ e \in hooked
             \/ e = c /\ \A s \in Posters : Done(e, s)'
    BY <1>a, <1>0, <1>3, Advance
  <2>3. hook.attempt \in Nat /\ MaxRetries \in Nat /\ hook.attempt <= MaxRetries
    BY <1>a, <1>0, HookFields
  <2>4. errors \in [Reports -> SUBSET Posters]
    BY <1>a, <1>0 DEF Types
  <2>5. errors' \in [Reports -> SUBSET Posters]
    <3>1. errors[c] \cup {r} \in SUBSET Posters
      BY <2>1, <2>4
    <3> QED
      BY <1>3, <2>4, <3>1
  <2>6. ASSUME NEW e \in Reports, NEW s \in Posters, ~Now(e, s)
        PROVE  Known(e, s)'
    <3>1. s \in errors'[e] <=> s \in errors[e]
      BY <1>a, <1>3, <2>4, <2>6 DEF Now
    <3>2. Known(e, s) /\ Made(e, s)' = Made(e, s) /\ posts'[e][s] = posts[e][s]
      BY <2>1, <2>6 DEF DeliveryInv, Made
    <3>3. /\ Done(e, s)' <=> Done(e, s)
          /\ Now(e, s)' => ~Done(e, s) /\ hook'.attempt = 0
      BY <2>2, <2>6
    <3> QED
      BY <2>6, <3>1, <3>2, <3>3 DEF Known
  <2>7. Known(c, r)'
    <3>1. Done(c, r)' /\ ~Now(c, r)'
      BY <2>1, <2>2
    <3>2. CASE errors' = errors /\ posts'[c][r].arrived > 0
      BY <2>1, <2>3, <3>1, <3>2 DEF Known
    <3>3. CASE errors' = [errors EXCEPT ![c] = @ \cup {r}] /\ hook.attempt = MaxRetries
      <4>1. r \in errors'[c]
        BY <2>1, <2>4, <3>3
      <4> QED
        BY <2>1, <2>3, <3>1, <3>3, <4>1 DEF Known
    <3> QED
      BY <1>3, <3>2, <3>3
  <2>8. \A e \in Reports, s \in Posters : Known(e, s)'
    BY <1>a, <2>6, <2>7 DEF Now
  <2>9. hooked' \subseteq Reports /\ \A e \in hooked', s \in Posters : Done(e, s)'
    BY <1>a, <1>0, <2>1, <2>2 DEF DeliveryInv, Types
  <2> QED
    BY <2>1, <2>2, <2>5, <2>8, <2>9 DEF DeliveryInv, Types
<1>4. CASE PostSucceeds
  <2>1. /\ hook.at = "post" /\ posts' = Count(c, r, "arrived") /\ NextSender
        /\ errors' = errors /\ "arrived" \in Fates
    BY <1>a, <1>4 DEF PostSucceeds, Fates
  <2>2. posts'[c][r].arrived > 0
    <3>1. c \in Reports /\ r \in Posters /\ posts \in [Reports -> [Posters -> [Fates -> Nat]]]
      BY <1>a, <1>0, <2>1 DEF Types, HookTypes
    <3>2. posts'[c][r].arrived = posts[c][r].arrived + 1 /\ posts[c][r].arrived \in Nat
      BY <2>1, <3>1 DEF Count
    <3> QED
      BY <3>2
  <2> QED
    BY <1>3, <2>1, <2>2
<1>5. CASE PostFails
  <2>1. PICK fate \in Fates : posts' = Count(c, r, fate)
    BY <1>a, <1>5 DEF PostFails, Fates
  <2>2. hook.at = "post"
    BY <1>5 DEF PostFails
  <2>3. MaxRetries \in Nat /\ hook.attempt \in Nat /\ hook.attempt <= MaxRetries
    BY <1>a, <1>0, HookFields
  <2>4. CASE GivesUp(hook.attempt) /\ errors' = [errors EXCEPT ![c] = @ \cup {r}] /\ NextSender
    <3>1. hook.attempt = MaxRetries
      BY <2>3, <2>4 DEF GivesUp
    <3> QED
      BY <1>3, <2>1, <2>2, <2>4, <3>1
  <2>5. CASE /\ ~GivesUp(hook.attempt)
             /\ hook' = [hook EXCEPT !.at = "sleep", !.attempt = @ + 1]
             /\ UNCHANGED <<errors, hooked>>
    <3>1. /\ posts' \in [Reports -> [Posters -> [Fates -> Nat]]]
          /\ c \in Reports /\ r \in Posters /\ Now(c, r) /\ ~Done(c, r)
          /\ Made(c, r)' = hook.attempt + 1 /\ r \notin errors[c]
          /\ \A e \in Reports, s \in Posters : ~Now(e, s) => posts'[e][s] = posts[e][s]
      BY <1>2, <2>1, <2>2
    <3>2. /\ hook'.at = "sleep" /\ hook'.event = c /\ hook'.sender = r
          /\ hook'.attempt = hook.attempt + 1
      BY <1>a, <1>0, <2>5 DEF HookTypes
    <3>3. HookTypes'
      <4>1. hook.attempt + 1 \in 0..MaxRetries
        BY <2>3, <2>5 DEF GivesUp
      <4> QED
        BY <1>a, <1>0, <2>5, <3>1, <3>2, <4>1 DEF HookTypes
    <3>4. \A e, s : (Done(e, s)' <=> Done(e, s)) /\ (Now(e, s)' <=> Now(e, s))
      BY <1>a, <2>2, <3>2 DEF Done, Now
    <3>5. ASSUME NEW e \in Reports, NEW s \in Posters PROVE Known(e, s)'
      <4>1. CASE Now(e, s)
        <5>1. e = c /\ s = r
          BY <1>a, <4>1 DEF Now
        <5> QED
          BY <2>5, <3>1, <3>2, <3>4, <4>1, <5>1 DEF Known
      <4>2. CASE ~Now(e, s)
        <5>1. Known(e, s) /\ Made(e, s)' = Made(e, s) /\ posts'[e][s] = posts[e][s]
          BY <3>1, <4>2 DEF DeliveryInv, Made
        <5> QED
          BY <2>5, <3>4, <4>2, <5>1 DEF Known
      <4> QED
        BY <4>1, <4>2
    <3> QED
      BY <1>a, <1>0, <2>5, <3>1, <3>3, <3>4, <3>5 DEF DeliveryInv, Types
  <2> QED
    BY <1>a, <1>5, <2>4, <2>5 DEF PostFails
<1>6. CASE Awake
  <2>1. /\ hook' = [hook EXCEPT !.at = "post"] /\ hook.at = "sleep"
        /\ UNCHANGED <<errors, posts, hooked>>
    BY <1>6 DEF Awake
  <2>2. /\ hook'.at = "post" /\ hook'.event = c /\ hook'.sender = r
        /\ hook'.attempt = hook.attempt
    BY <1>a, <1>0, <2>1 DEF HookTypes
  <2>3. HookTypes'
    BY <1>a, <1>0, <2>1, <2>2 DEF HookTypes
  <2>4. \A e, s : (Done(e, s)' <=> Done(e, s)) /\ (Now(e, s)' <=> Now(e, s))
    BY <2>1, <2>2 DEF Done, Now
  <2> QED
    BY <1>a, <1>0, <2>1, <2>2, <2>3, <2>4 DEF DeliveryInv, Types, Known, Made
\* A late post moves from one field to another.
<1>7. CASE ArrivesLate
  <2>1. PICK f \in Reports, t \in Posters :
          /\ posts[f][t].underway > 0
          /\ posts' = [posts EXCEPT ![f][t].underway = @ - 1, ![f][t].arrived = @ + 1]
    BY <1>7 DEF ArrivesLate
  <2>2. UNCHANGED <<hook, errors, hooked>>
    BY <1>7 DEF ArrivesLate
  <2>3. /\ posts \in [Reports -> [Posters -> [Fates -> Nat]]]
        /\ "arrived" \in Fates /\ "underway" \in Fates /\ "lost" \in Fates
    BY <1>a, <1>0 DEF Types, Fates
  <2>4. posts' \in [Reports -> [Posters -> [Fates -> Nat]]]
    BY <2>1, <2>3
  <2>5. /\ posts'[f][t].arrived = posts[f][t].arrived + 1
        /\ posts'[f][t].underway = posts[f][t].underway - 1
        /\ posts'[f][t].lost = posts[f][t].lost
        /\ posts[f][t].arrived \in Nat /\ posts[f][t].underway \in Nat
        /\ posts[f][t].lost \in Nat
    BY <2>1, <2>3
  <2>6. ASSUME NEW e \in Reports, NEW s \in Posters
        PROVE  Made(e, s)' = Made(e, s) /\ (posts[e][s].arrived > 0 => posts'[e][s].arrived > 0)
    <3>1. CASE e = f /\ s = t
      BY <2>5, <3>1 DEF Made
    <3>2. CASE ~(e = f /\ s = t)
      <4>1. posts'[e][s] = posts[e][s]
        BY <2>1, <2>3, <3>2
      <4> QED
        BY <4>1 DEF Made
    <3> QED
      BY <3>1, <3>2
  <2>7. \A e \in Reports, s \in Posters : Known(e, s)'
    BY <2>2, <2>6 DEF DeliveryInv, Known, Done, Now
  <2> QED
    BY <1>a, <1>0, <2>2, <2>4, <2>7 DEF DeliveryInv, Types, HookTypes, Done
<1> QED
  BY <1>1, <1>4, <1>5, <1>6, <1>7 DEF WebhookNext

(* What is known of every post, in every order of failures and late posts.  *)
THEOREM DeliveryInvariant == WebhookSpec => []DeliveryInv
<1>1. WebhookInit => DeliveryInv
  <2> SUFFICES ASSUME WebhookInit PROVE DeliveryInv
    OBVIOUS
  <2>1. HookTypes /\ hook.at = "idle" /\ hook.event = 0
    BY WebhookAssumption DEF WebhookInit, HookTypes
  <2>2. posts \in [Reports -> [Posters -> [Fates -> Nat]]]
    BY DEF WebhookInit, Fates
  <2>3. ASSUME NEW e \in Reports, NEW s \in Posters PROVE Known(e, s)
    <3>1. Made(e, s) = 0 /\ errors[e] = {}
      BY DEF WebhookInit, Made
    <3>2. ~Done(e, s) /\ ~Now(e, s)
      BY <2>1 DEF Done, Now, Reports
    <3> QED
      BY <3>1, <3>2 DEF Known
  <2> QED
    BY <2>1, <2>2, <2>3 DEF WebhookInit, DeliveryInv, Types
<1>2. DeliveryInv /\ [WebhookNext]_webhookVars => DeliveryInv'
  <2>1. CASE WebhookNext
    BY <2>1, Step
  <2>2. CASE UNCHANGED webhookVars
    BY <2>2 DEF webhookVars, DeliveryInv, Types, HookTypes, Known, Done, Now, Made
  <2> QED
    BY <2>1, <2>2
<1> QED
  BY <1>1, <1>2, PTL DEF WebhookSpec

(* A receiver gets an event at most max_retries + 1 times; a sender that    *)
(* notify does not report has delivered it (webhook.rs:168, 177, 209).      *)
THEOREM DeliveriesBoundedCorrect == WebhookSpec => []DeliveriesBounded
<1>1. DeliveryInv => DeliveriesBounded
  <2> SUFFICES ASSUME DeliveryInv, NEW e \in Reports, NEW s \in Posters
               PROVE  /\ Made(e, s) <= MaxRetries + 1
                      /\ s \in errors[e] => Made(e, s) = MaxRetries + 1
                      /\ e \in hooked /\ s \notin errors[e] => posts[e][s].arrived > 0
    BY DEF DeliveriesBounded, Made
  <2>1. HookTypes /\ Known(e, s) /\ (e \in hooked => Done(e, s))
    BY DEF DeliveryInv, Types
  <2>2. MaxRetries \in Nat /\ hook.attempt \in Nat /\ hook.attempt <= MaxRetries
    BY <2>1, HookFields
  <2> QED
    BY <2>1, <2>2 DEF Known
<1> QED
  BY <1>1, DeliveryInvariant, PTL

==============================================================================
