---------------------------- MODULE ProductionPool ---------------------------
(****************************************************************************)
(* ProductionPool of src/pool.rs: call, call_with_timeout, call_batch (each *)
(* future of a batch is a call), metrics, circuit_breaker_state and close,  *)
(* over the clients of src/client.rs (SharedUdsClient, UdsClient::call).    *)
(*                                                                          *)
(* A call is one execution of call_with_timeout.  Its program counter names *)
(* what it does next; every await and every atomic operation another call   *)
(* can observe is a step.  The mutex around the idle clients is held only   *)
(* while nobody else can touch what it guards, so a critical section is one *)
(* step.  The breaker is AtomicBreaker, its methods being atomic on the     *)
(* single-threaded runtime (see CircuitBreaker).                            *)
(*                                                                          *)
(* A connection is what the client can still read from it: the responses    *)
(* the server owes, in the order of the requests (it serves a connection    *)
(* one request at a time).  The server may answer, fail or stay silent.     *)
(****************************************************************************)
EXTENDS Integers, Sequences, FiniteSets

CONSTANTS Calls,           \* executions of call_with_timeout
          Clients,         \* SharedUdsClients
          MaxConcurrent,   \* config.max_concurrent, the permits
          Threshold,       \* config.circuit_breaker_threshold
          Timeout,         \* config.circuit_breaker_timeout, in ticks
          NoCall, NoClient

ASSUME PoolAssumption ==
  /\ IsFiniteSet(Calls)
  /\ NoCall \notin Calls
  /\ NoClient \notin Clients
  /\ MaxConcurrent \in Nat
  /\ Threshold \in Nat
  /\ Timeout \in Nat

\* Bound of the breaker's count: a call records at most one failure.
MaxFailures == Cardinality(Calls)

VARIABLES
  pc,            \* what each call does next
  client,        \* the client a call has checked out, or NoClient
  outcome,       \* how a call ended
  answer,        \* the call whose response a call returned, or NoCall
  permits,       \* free permits of the semaphore
  idle,          \* client_pool, the last pushed client last
  conn,          \* a client's stream: "closed" (None), "open", or "torn"
  owed,          \* the calls whose responses will still arrive on a stream
  closing,       \* how far close() has come
  total, active, succeeded, failed, timeouts,   \* PoolMetricsInner
  state, failures, lastFailure                  \* the circuit breaker

metricVars  == <<total, active, succeeded, failed, timeouts>>
breakerVars == <<state, failures, lastFailure>>
streamVars  == <<conn, owed>>
callVars    == <<pc, client, outcome, answer>>
vars == <<callVars, permits, idle, streamVars, closing, metricVars, breakerVars>>

Breaker == INSTANCE AtomicBreaker

\* Program counters, in the order of the code.
InCall  == {"connect", "write", "read"}            \* client.call is polled
Holding == {"checkout", "checkin", "release"} \cup InCall  \* owns a permit
Ended   == {"done", "dropped"}
Labels  == {"idle", "admit", "acquire", "record"} \cup Holding \cup Ended
Outcomes == {"none", "shutdown", "rejected", "exhausted",
             "ok", "error", "timeout"}

ShuttingDown == closing # "no"                     \* the shutdown flag
SemaphoreClosed == closing \in {"sealed", "closed"}

Held == {client[c] : c \in Calls} \ {NoClient}
IdleClients == {idle[i] : i \in DOMAIN idle}
Holders == {c \in Calls : pc[c] \in Holding}

Init ==
  /\ pc = [c \in Calls |-> "idle"]
  /\ client = [c \in Calls |-> NoClient]
  /\ outcome = [c \in Calls |-> "none"]
  /\ answer = [c \in Calls |-> NoCall]
  /\ permits = MaxConcurrent
  /\ idle = << >>
  /\ conn = [k \in Clients |-> "closed"]
  /\ owed = [k \in Clients |-> << >>]
  /\ closing = "no"
  /\ total = 0 /\ active = 0 /\ succeeded = 0 /\ failed = 0 /\ timeouts = 0
  /\ Breaker!Init

Goto(c, l) == pc' = [pc EXCEPT ![c] = l]
Return(c, o) ==
  /\ Goto(c, "done")
  /\ outcome' = [outcome EXCEPT ![c] = o]
  /\ UNCHANGED <<client, answer>>

\* Dropping a stream: unread responses are gone with it.
CloseStream(k) ==
  /\ conn' = [conn EXCEPT ![k] = "closed"]
  /\ owed' = [owed EXCEPT ![k] = << >>]

\* A frame is left half written or half read: nothing sensible follows.
TearStream(k) ==
  /\ conn' = [conn EXCEPT ![k] = "torn"]
  /\ owed' = [owed EXCEPT ![k] = << >>]

------------------------------------------------------------------------------
\* Seeded faults: each replaces the action named in PROJECT.json to show that
\* a property notices it.  No specification of this module uses them.

\* pop() leaves the client in the pool.
ReuseWithoutPop(c) ==
  /\ pc[c] = "checkout"
  /\ idle # << >>
  /\ LET k == idle[Len(idle)] IN
       /\ client' = [client EXCEPT ![c] = k]
       /\ Goto(c, IF conn[k] = "closed" THEN "connect" ELSE "write")
  /\ UNCHANGED <<outcome, answer, permits, idle, streamVars, closing,
                 metricVars, breakerVars>>

\* A client is created although others are idle.
CreateWithoutLooking(c) ==
  /\ pc[c] = "checkout"
  /\ \E k \in Clients \ (Held \cup IdleClients) :
       /\ client' = [client EXCEPT ![c] = k]
       /\ Goto(c, "connect")
  /\ UNCHANGED <<outcome, answer, permits, idle, streamVars, closing,
                 metricVars, breakerVars>>

\* The permit is not dropped.
ReleaseForgetsPermit(c) ==
  /\ pc[c] = "release"
  /\ active' = active - 1
  /\ Goto(c, "record")
  /\ UNCHANGED <<client, outcome, answer, permits, idle, streamVars, closing,
                 total, succeeded, failed, timeouts, breakerVars>>

\* A call refused by the closed semaphore stays counted as active.
ExhaustedStaysActive(c) ==
  /\ pc[c] = "acquire"
  /\ SemaphoreClosed
  /\ Return(c, "exhausted")
  /\ UNCHANGED <<permits, idle, streamVars, closing, metricVars, breakerVars>>

\* A call dropped while it waits gives back a permit it does not have.
AbandonGivesPermit(c) ==
  /\ pc[c] \in {"acquire", "checkout", "checkin"} \cup InCall
  /\ Goto(c, "dropped")
  /\ client' = [client EXCEPT ![c] = NoClient]
  /\ permits' = permits + 1
  /\ \/ client[c] = NoClient /\ UNCHANGED streamVars
     \/ client[c] # NoClient /\ CloseStream(client[c])
  /\ UNCHANGED <<outcome, answer, idle, closing, metricVars, breakerVars>>

\* The response stays in the stream's buffer.
ReadKeepsResponse(c) ==
  /\ pc[c] = "read"
  /\ conn[client[c]] = "open"
  /\ owed[client[c]] # << >>
  /\ Goto(c, "checkin")
  /\ outcome' = [outcome EXCEPT ![c] = "ok"]
  /\ answer' = [answer EXCEPT ![c] = Head(owed[client[c]])]
  /\ UNCHANGED <<client, permits, idle, streamVars, closing, metricVars,
                 breakerVars>>

\* UdsClient::call keeps the stream when do_call_internal fails.
FailureKeepsStream(c) ==
  /\ pc[c] \in {"write", "read"}
  /\ Goto(c, "checkin")
  /\ outcome' = [outcome EXCEPT ![c] = "error"]
  /\ UNCHANGED <<client, answer, permits, idle, streamVars, closing, metricVars,
                 breakerVars>>

\* The breaker hears of a failure where the call succeeded.
RecordAlwaysFailure(c) ==
  /\ pc[c] = "record"
  /\ Breaker!RecordFailure
  /\ \/ outcome[c] = "ok" /\ succeeded' = succeeded + 1
                          /\ UNCHANGED <<failed, timeouts>>
     \/ outcome[c] # "ok" /\ failed' = failed + 1
                          /\ UNCHANGED <<succeeded, timeouts>>
  /\ Goto(c, "done")
  /\ UNCHANGED <<client, outcome, answer, permits, idle, streamVars, closing,
                 total, active>>

------------------------------------------------------------------------------
\* call_with_timeout, up to the permit

\* The shutdown flag, before anything is counted.
Begin(c) ==
  /\ pc[c] = "idle"
  /\ \/ ShuttingDown /\ Return(c, "shutdown")
     \/ ~ShuttingDown /\ Goto(c, "admit") /\ UNCHANGED <<client, outcome, answer>>
  /\ UNCHANGED <<permits, idle, streamVars, closing, metricVars, breakerVars>>

\* can_execute()? and the two counters.
Admit(c) ==
  /\ pc[c] = "admit"
  /\ Breaker!Poll
  /\ \/ /\ ~Breaker!CanExecute
        /\ Return(c, "rejected")
        /\ UNCHANGED <<total, active>>
     \/ /\ Breaker!CanExecute
        /\ Goto(c, "acquire")
        /\ total' = total + 1
        /\ active' = active + 1
        /\ UNCHANGED <<client, outcome, answer>>
  /\ UNCHANGED <<permits, idle, streamVars, closing, succeeded, failed, timeouts>>

\* The semaphore hands out a permit unless it has been closed.
Acquire(c) ==
  /\ pc[c] = "acquire"
  /\ ~SemaphoreClosed
  /\ permits > 0
  /\ permits' = permits - 1
  /\ Goto(c, "checkout")
  /\ UNCHANGED <<client, outcome, answer, idle, streamVars, closing,
                 metricVars, breakerVars>>

\* A closed semaphore refuses waiters and late comers alike.
Exhausted(c) ==
  /\ pc[c] = "acquire"
  /\ SemaphoreClosed
  /\ Return(c, "exhausted")
  /\ active' = active - 1
  /\ UNCHANGED <<permits, idle, streamVars, closing, total, succeeded, failed,
                 timeouts, breakerVars>>

------------------------------------------------------------------------------
\* call_with_timeout, with a permit

\* What client.call does first: it connects only when there is no stream.
FirstStep(k) == IF conn[k] = "closed" THEN "connect" ELSE "write"

\* pool.pop(): the client pushed last.
Reuse(c) ==
  /\ pc[c] = "checkout"
  /\ idle # << >>
  /\ LET k == idle[Len(idle)] IN
       /\ client' = [client EXCEPT ![c] = k]
       /\ Goto(c, FirstStep(k))
  /\ idle' = SubSeq(idle, 1, Len(idle) - 1)
  /\ UNCHANGED <<outcome, answer, permits, streamVars, closing, metricVars,
                 breakerVars>>

\* unwrap_or_else(SharedUdsClient::new): a client nobody has.
Create(c) ==
  /\ pc[c] = "checkout"
  /\ idle = << >>
  /\ \E k \in Clients \ Held :
       /\ client' = [client EXCEPT ![c] = k]
       /\ Goto(c, FirstStep(k))
  /\ UNCHANGED <<outcome, answer, permits, idle, streamVars, closing,
                 metricVars, breakerVars>>

\* client.call returned; the result is kept over the check-in.
Finish(c, o, a) ==
  /\ Goto(c, "checkin")
  /\ outcome' = [outcome EXCEPT ![c] = o]
  /\ answer' = [answer EXCEPT ![c] = a]
  /\ UNCHANGED <<client, permits, idle, closing, metricVars, breakerVars>>

\* UdsClient::connect, handshake included; the stream is stored at its end.
Connect(c) ==
  /\ pc[c] = "connect"
  /\ Goto(c, "write")
  /\ conn' = [conn EXCEPT ![client[c]] = "open"]
  /\ UNCHANGED <<client, outcome, answer, permits, idle, owed, closing,
                 metricVars, breakerVars>>

ConnectFails(c) ==
  /\ pc[c] = "connect"
  /\ Finish(c, "error", NoCall)
  /\ UNCHANGED streamVars

\* write_message: the server will answer after what it already owes.
Write(c) ==
  /\ pc[c] = "write"
  /\ Goto(c, "read")
  /\ owed' = IF conn[client[c]] = "open"
             THEN [owed EXCEPT ![client[c]] = Append(@, c)] ELSE owed
  /\ UNCHANGED <<client, outcome, answer, permits, idle, conn, closing,
                 metricVars, breakerVars>>

\* read_message: the next response on the stream, whoever asked for it
\* (request_id is not compared).  The BufReader is made for this call and
\* dropped after it: what it has read ahead is lost, in whole frames or torn.
Read(c) ==
  /\ pc[c] = "read"
  /\ conn[client[c]] = "open"
  /\ owed[client[c]] # << >>
  /\ \/ /\ \E n \in DOMAIN owed[client[c]] :
             owed' = [owed EXCEPT ![client[c]] = SubSeq(@, n + 1, Len(@))]
        /\ UNCHANGED conn
     \/ Len(owed[client[c]]) > 1 /\ TearStream(client[c])
  /\ Finish(c, "ok", Head(owed[client[c]]))

\* An error frame, end of file, a torn frame, the client's own request_timeout:
\* do_call_internal fails and UdsClient::call drops the stream.
ExchangeFails(c) ==
  /\ pc[c] \in {"write", "read"}
  /\ CloseStream(client[c])
  /\ Finish(c, "error", NoCall)

\* tokio::time::timeout drops the future wherever it waits.  The stream is the
\* client's, not the future's: it survives, with whatever is under way on it.
TimeOut(c) ==
  /\ pc[c] \in InCall
  /\ \/ UNCHANGED streamVars
     \/ pc[c] # "connect" /\ TearStream(client[c])
  /\ Finish(c, "timeout", NoCall)

CheckIn(c) ==
  /\ pc[c] = "checkin"
  /\ idle' = Append(idle, client[c])
  /\ client' = [client EXCEPT ![c] = NoClient]
  /\ Goto(c, "release")
  /\ UNCHANGED <<outcome, answer, permits, streamVars, closing, metricVars,
                 breakerVars>>

\* drop(permit) and active_requests.
Release(c) ==
  /\ pc[c] = "release"
  /\ permits' = permits + 1
  /\ active' = active - 1
  /\ Goto(c, "record")
  /\ UNCHANGED <<client, outcome, answer, idle, streamVars, closing, total,
                 succeeded, failed, timeouts, breakerVars>>

\* The match on the result: the breaker and the counters.
Record(c) ==
  /\ pc[c] = "record"
  /\ \/ /\ outcome[c] = "ok"
        /\ Breaker!RecordSuccess
        /\ succeeded' = succeeded + 1
        /\ UNCHANGED <<failed, timeouts>>
     \/ /\ outcome[c] \in {"error", "timeout"}
        /\ Breaker!RecordFailure
        /\ failed' = failed + 1
        /\ timeouts' = timeouts + (IF outcome[c] = "timeout" THEN 1 ELSE 0)
        /\ UNCHANGED succeeded
  /\ Goto(c, "done")
  /\ UNCHANGED <<client, outcome, answer, permits, idle, streamVars, closing,
                 total, active>>

------------------------------------------------------------------------------
\* The environment of a call, and close()

\* The caller drops the future at an await: locals are dropped (the permit, the
\* client with its stream), nothing after the await runs.
Abandon(c) ==
  /\ pc[c] \in {"acquire", "checkout", "checkin"} \cup InCall
  /\ Goto(c, "dropped")
  /\ client' = [client EXCEPT ![c] = NoClient]
  /\ permits' = IF pc[c] = "acquire" THEN permits ELSE permits + 1
  /\ \/ client[c] = NoClient /\ UNCHANGED streamVars
     \/ client[c] # NoClient /\ CloseStream(client[c])
  /\ UNCHANGED <<outcome, answer, idle, closing, metricVars, breakerVars>>

\* close() stores the flag, closes the semaphore, then closes and drops the
\* clients that are idle when it gets the lock.
CloseFlag ==
  /\ closing = "no"
  /\ closing' = "flagged"
  /\ UNCHANGED <<callVars, permits, idle, streamVars, metricVars, breakerVars>>

CloseSemaphore ==
  /\ closing = "flagged"
  /\ closing' = "sealed"
  /\ UNCHANGED <<callVars, permits, idle, streamVars, metricVars, breakerVars>>

CloseClients ==
  /\ closing = "sealed"
  /\ closing' = "closed"
  /\ idle' = << >>
  /\ conn' = [k \in Clients |-> IF k \in IdleClients THEN "closed" ELSE conn[k]]
  /\ owed' = [k \in Clients |-> IF k \in IdleClients THEN << >> ELSE owed[k]]
  /\ UNCHANGED <<callVars, permits, metricVars, breakerVars>>

\* metrics() and circuit_breaker_state() ask the breaker, which may move it.
Observe ==
  /\ Breaker!Poll
  /\ UNCHANGED <<callVars, permits, idle, streamVars, closing, metricVars>>

Tick ==
  /\ Breaker!Tick
  /\ UNCHANGED <<callVars, permits, idle, streamVars, closing, metricVars>>

------------------------------------------------------------------------------

\* Steps the pool takes by itself.
Advance(c) ==
  \/ Admit(c) \/ Acquire(c) \/ Exhausted(c) \/ Reuse(c) \/ Create(c)
  \/ CheckIn(c) \/ Release(c) \/ Record(c)

\* Steps that need the server or the network.
Exchange(c) ==
  \/ Connect(c) \/ ConnectFails(c) \/ Write(c) \/ Read(c) \/ ExchangeFails(c)

CallStep(c) == Begin(c) \/ Advance(c) \/ Exchange(c) \/ TimeOut(c) \/ Abandon(c)

Next ==
  \/ \E c \in Calls : CallStep(c)
  \/ CloseFlag \/ CloseSemaphore \/ CloseClients
  \/ Observe \/ Tick

Spec == Init /\ [][Next]_vars

(****************************************************************************)
(* The runtime polls a call that can go on, and timers fire.  Nothing is    *)
(* assumed of the server, of the callers or of close().  tokio's semaphore  *)
(* is a queue; with finitely many calls weak fairness is all it has to give.*)
(****************************************************************************)
Fairness == \A c \in Calls : WF_vars(Advance(c)) /\ WF_vars(TimeOut(c))

LiveSpec == Spec /\ Fairness

------------------------------------------------------------------------------
\* Properties

TypeOK ==
  /\ pc \in [Calls -> Labels]
  /\ client \in [Calls -> Clients \cup {NoClient}]
  /\ outcome \in [Calls -> Outcomes]
  /\ answer \in [Calls -> Calls \cup {NoCall}]
  /\ permits \in 0 .. MaxConcurrent
  /\ idle \in Seq(Clients)
  /\ conn \in [Clients -> {"closed", "open", "torn"}]
  /\ owed \in [Clients -> Seq(Calls)]
  /\ closing \in {"no", "flagged", "sealed", "closed"}
  /\ {total, active, succeeded, failed, timeouts} \subseteq Nat
  /\ Breaker!TypeOK

(* A client is with one call or in the pool, once: no two calls ever write  *)
(* to the same stream.                                                      *)
ClientExclusive ==
  /\ \A c, d \in Calls : client[c] = client[d] /\ c # d => client[c] = NoClient
  /\ IdleClients \cap Held = {}
  /\ \A i, j \in DOMAIN idle : idle[i] = idle[j] => i = j

(* The permits bound the clients too, idle and lent: a client is returned   *)
(* before its permit, and created only when none is idle.  At most          *)
(* max_concurrent sockets are open.                                         *)
ClientsWithinLimit == Len(idle) + Cardinality(Held) <= MaxConcurrent

(* Permits are neither lost nor made up, whether a call ends, fails, times  *)
(* out or is dropped by its caller, and close() does not change them.       *)
PermitsConserved == permits + Cardinality(Holders) = MaxConcurrent

(* The counters of metrics(): every admitted call is waiting, running, or   *)
(* ended in exactly one way.  A call its caller dropped is in no count but  *)
(* total_requests, and stays in active_requests for ever.                   *)
InFlight == {c \in Calls : pc[c] \in {"acquire"} \cup Holding}
Recording == {c \in Calls : pc[c] = "record"}
Dropped == {c \in Calls : pc[c] = "dropped"}
Refused == {c \in Calls : outcome[c] = "exhausted"}

MetricsAccount ==
  /\ active = Cardinality(InFlight) + Cardinality(Dropped)
  /\ total = active + Cardinality(Recording) + succeeded + failed
             + Cardinality(Refused)
  /\ timeouts <= failed

(* A response reaches at most one call.                                     *)
AnswersUnique ==
  \A c, d \in Calls : answer[c] = answer[d] /\ c # d => answer[c] = NoCall

(* A response belongs to the request it answers.  It does not always: the    *)
(* call after a timed-out one reads the late response of that one.          *)
AnswersOwnRequest == \A c \in Calls : answer[c] \in {c, NoCall}

(* As long as no call has run into the pool's timeout every call that       *)
(* returns a response returns its own: UdsClient::call drops the stream on  *)
(* every error it sees, and a dropped call takes its client with it.        *)
WrongAnswerNeedsTimeout ==
  (\A c \in Calls : outcome[c] # "timeout")
     => AnswersOwnRequest

(* The breaker leaves Closed only after `threshold` calls have failed, in   *)
(* whatever order the calls record what became of them.                     *)
BreakerNeedsFailures == state # "Closed" => failed >= Threshold

(* Every call that started ends, whatever the server does: a waiter gets a  *)
(* permit or is refused by close(), and the timeout ends the exchange.      *)
EveryCallEnds == \A c \in Calls : pc[c] # "idle" ~> pc[c] \in Ended

==============================================================================
