# A verification project for XProtocol

XProtocol is a Rust library for calls between services on one host or over TCP:
clients, client pools with a circuit breaker, servers, and the services around
them (metrics, discovery, webhooks, rate limits, shutdown). This directory holds
TLA+ modules of the parts whose correctness depends on interleaving, failure and
time, the TLC runs that check them on small instances, and theorems about them
with proofs checked by TLAPS. Paths are relative to the repository: `pool.rs` is
`src/src/pool.rs`.

`PROJECT.json` is the index: components, runs, the lines each definition models,
hazards, findings, theorems, and for each property a seeded fault that it notices.

## 1. Inventory

| Component (source) | State | Operations | Interacts with | What is hard | Correct means |
|---|---|---|---|---|---|
| CircuitBreaker (`circuit_breaker.rs`) | `state`, `failures`, `successes`, `last_failure`, each behind its own lock or atomic | `record_success`, `record_failure`, `state`, `is_available`, `can_execute` | called by ProductionPool on both sides of a call | methods of several threads interleave between the locks | cannot get stuck open; half-open only after the timeout; one thread sees the textbook breaker |
| ProductionPool (`pool.rs:512-795`) | semaphore, idle clients, metrics, breaker, shutdown flag | `call`, `call_with_timeout`, `call_batch`, `metrics`, `circuit_breaker_state`, `close` | owns SharedUdsClients | timeouts and dropped futures leave streams in the middle of an exchange; `close` runs beside calls | clients exclusive and bounded, permits conserved, metrics add up, answers belong to their requests, every call ends |
| UdsClientPool (`pool.rs:220-400`) | semaphore, idle clients, `created_clients` | `call`, `call_batch`, `close`, `pooled_count` | SharedUdsClients | a counter that is added to, tested and taken back, never decreased when a client is lost, and stored to by `close` | clients bounded, counter bounded, slow path only after a loss |
| UdsClient, SharedUdsClient (`client.rs:14-342`) | stream, connected flag | `connect`, `call`, `call_streaming`, `get_schema`, `close` | UdsServer over a socket | two timeouts, dropped futures, a BufReader per call | in step with the server; every operation ends |
| UdsServer (`server.rs`) | `ACTIVE_CONNECTIONS`, rate window, a task per connection | accept loop, handshake, request, streaming, schema | clients, handler, metrics, webhook | limits checked and counted in separate steps, `?` and panics between start and end of a request | limit kept, counters account for every connection and request, dead connections end |
| TcpClient, TcpServer (`tcp.rs`) | connected flag, stream; a task per connection | `connect`, `call`, `close`; `run`, `run_with_shutdown` | each other | the handshake is repeated on every call; `connect` dials twice | own answers, calls end |
| ReliableUdsClient (`client.rs:343-752`) | connection state, stream, statistics, a lock | `connect`, `disconnect`, `call`, `ping`, `reconnect` | UdsServer | locks held over awaits, states left behind by cancelled futures, PONGs never read | connected means there is a stream; operations end |
| TopicBasedPool (`pool.rs:402-510`) | a client per topic | `call_with_topic`, `call_with_topics`, `close` | SharedUdsClients, a server task per connection | calls wait in line for a client; after a timeout the server still works on what the client has given up | serial per topic until a call times out or is dropped; calls and `close` end |
| UdsConnectionPool (`pool.rs:15-218`) | idle streams, statistics | `get`, `put`, `call`, `cleanup` | UdsServer | pools streams that failed, sends no handshake | what is lent again carries no request and no answer |
| ServiceDiscovery, BackgroundHealthChecker (`discovery.rs`) | endpoints, three load balancers; a loop and its token | `register`, `unregister`, `select`; `start` | load balancer | endpoints and balancers change under different locks, and a rebuild can fail | balancers choose from what is registered; a cancelled loop ends |
| MetricsCollector, ConnectionTracker, AlertManager (`metrics.rs`) | atomics, histogram, rules | connections, start and end of a request, snapshot, alerts | UdsServer | counters read one by one while requests run; maxima by compare-exchange; an entry looked up twice | counts agree when quiet; an alert has a cause |
| Rate limiters (`auth.rs`, `utils.rs`) | instants per client | `check`, `try_acquire`, `available`, `reset` | UdsServer | the instant is taken before the lock | at most `max_requests` per window, late instants apart |
| Webhook (`webhook.rs`) | senders and their retries | `notify`, `send` | UdsServer awaits it | a lost answer is a retry, the first copy perhaps still under way | at most `max_retries + 1` copies, and a failure is reported only after all of them |
| GracefulShutdown (`shutdown.rs`) | a broadcast channel, its one receiver behind a lock | `trigger`, `wait`, `run_with_graceful_shutdown` | servers | one trigger, several waiters, one receiver locked twice | `run` ends after ctrl_c; a trigger reaches one waiter |
| SessionManager, MessageQueue, DeadLetterQueue, `utils::HealthChecker` (`session.rs`, `utils.rs`) | a map, queues, flags | one lock each | not used by the servers | little: each operation is one critical section | bounds |
| Wire format (`wire.rs`, `protocol.rs`, `error.rs`) | none | `read_message`, `write_message` | everything | partial reads when a future is dropped | frames stay aligned |
| gRPC, TLS, sockets, configuration, runtime, schema, authentication, streaming helpers | little or none | conversions, builders, glue | | | |

Interaction is by calls and by frames. A pool lends a client to a call; the call
drives the client; the client and one task of the server exchange frames in order
over a socket. Three things make this hard, everywhere in the crate:

* **Futures are dropped.** `tokio::time::timeout`, or the caller, drops a call at
  any await. Nothing runs but destructors: permits come back, counters do not, and
  a frame may have been read in part.
* **No response is matched to its request.** `request_id` is written and never
  compared, so a stream with something left on it answers the wrong call.
* **A timeout is not an error to the layer below.** The pool's timeout drops the
  client's future, so the client does not close its stream as it does on errors.

## 2. Modules

| Module | Models | Theorems |
|---|---|---|
| `AtomicBreaker` | what the breaker promises: every method one step | |
| `CircuitBreaker` | the breaker as its atomic operations and critical sections, any number of threads | `CircuitBreaker_proofs` |
| `ProductionPool` | the pool over its clients, with `AtomicBreaker` as its breaker | `ProductionPool_proofs` |
| `UdsClientPool` | the pool with the `created_clients` counter | `UdsClientPool_proofs` |
| `UdsSession` | UdsClients and the UdsServer they share | `UdsSession_proofs` |
| `TcpSession` | TcpClient and TcpServer | `TcpSession_proofs` |
| `ReliableClient` | ReliableUdsClient and the tasks that share it | `Clients_proofs` |
| `TopicPool` | TopicBasedPool, its clients and the server's connection tasks | `Pools_proofs` |
| `StreamPool` | UdsConnectionPool and its peers | `Pools_proofs` |
| `ServiceMetrics` | ConnectionTracker, MetricsCollector, ServiceMetrics, AlertManager | `Services_proofs` |
| `RateLimiter` | both rate limiters | `Services_proofs` |
| `Discovery` | ServiceDiscovery | `Services_proofs` |
| `HealthChecker` | BackgroundHealthChecker and its CancellationToken | |
| `Webhook` | WebhookService over its senders | `Clients_proofs` |
| `Shutdown` | GracefulShutdown and `run_with_graceful_shutdown` | |
| `MCClients`, `MCServices` | the last nine, side by side | |
| other `MC...` | the instances TLC checks (symmetry sets); the constants are in the `.cfg` files | |

`MCClients` and `MCServices` hold parts that share no state. A variable `part`, chosen
at the start, says which of them a behaviour is about; the others stay in their
initial states. One run then checks the union of the parts' states and not their
product. No action that has fairness is enabled in a part's initial state, so the
parts that stand still make no liveness property true or false.

**How state and actions correspond to code.** A process (thread, call, client,
connection task) has a program counter that names what it does next. A step is what
runs between two points where somebody else can see or change its state: an await
that can suspend, a lock taken, an atomic operation. A critical section in which
nothing can interfere is one step; `close()` of `UdsClientPool`, which holds a lock
over two operations that others can see, is two.

* `CircuitBreaker` is the finest: `record_failure` is `FailCount`, `FailStamp`,
  `FailWrite`, `FailLoad`, `FailOpen`; `state()` is `PollRead`, `PollCheck`,
  `PollWrite`. The read guard that `state()` keeps on `last_failure` while it writes
  `state` is why `FailWrite` waits for it. Instants are ages, which `Tick` lets grow
  up to just past the timeout: all the code compares. `AtomicBreaker` has one action
  per method.
* `ProductionPool`: `Begin` (shutdown flag, breaker), `Admit` (counters), `Acquire`
  or `Exhausted`, `Reuse` or `Create`, then the exchange (`FirstStep`, `Connect`,
  `ConnectFails`, `Write`, `Read`, `ExchangeFails`), `Finish` or `TimeOut`, `CheckIn`,
  `Release`, `Record`. `Abandon` is a caller that drops the call at an await.
  `CloseFlag`, `CloseSemaphore`, `CloseClients` are the three parts of `close`. A
  connection is the list of calls whose responses are still to come on it. The
  per-call BufReader (`client.rs:143`) may take whole or partial frames with it.
* `UdsClientPool`: `Pop`, `Add`, `Sub`, `Retry` and `Wake` are the statements of
  `get_or_create_client`; `created` wraps at `Modulus` as a `usize` does.
* `UdsSession`: client actions follow `connect` (`Dial`, `Hello`, `ReadAck`,
  `Rejected`, `ConnectFails`) and the exchange (`Write`, `Read`, `ExchangeFails`,
  `Abandon`); `Start` chooses `call`, `call_streaming`, `get_schema` or a bare
  `connect`. On the server, `Accept` is the loop's body, `Handshake` and
  `RateLimited` the first frame, and each arm of the loop's match is an action; the
  handler and the webhooks are awaited between `Request` and `Respond`, and between
  `StreamRequest` and `StreamEnd`. The phase in which a task ended (`ended`, `cut`,
  `panicked`, `crashed`) records which counters it left behind.
* `TcpSession`: `connect` is `Dial`, `Hello`, `ReadAck`, `Redial`; `call` is `Greet`,
  `Greeted`, `WriteRequest`, `ReadResponse`. End of file in the server's loop is an
  arm that does nothing and comes round again (`tcp.rs:80` breaks on
  `ConnectionClosed`, but `error.rs:25-28` makes end of file a `ConnectionFailed`),
  so it is a step that changes nothing.

* `ReliableClient`: every task may be on a thread of its own. `state` and `stream` have
  a lock each, so that a store of the one and a store of the other are two steps:
  `StoreStream` and `StoreState` after a dial, `Disconnect` and `StoreDisconnected`,
  `Attempt` and `DropStream` in the loop of `reconnect`. `Start`, `Woken`, `Locked`,
  `DialFails` and `StoreFailed` are the rest of `connect` and `ensure_connected`;
  `Write`, the `Read...` actions and `StoreClosed` are `call`; `Reconnect` and `Resume`
  lead to `Attempt`. `Jam` is a task whose second `state.read()` comes behind a
  `state.write()` that waits for its first: parking_lot prefers the writer. It is the
  same on one thread, where the writer keeps the thread, and on two. From then on
  every look at `state` that needs the lock waits too. Tasks that share a thread
  (`connect` and `call` must) have fewer behaviours than these and no others.
* `TopicPool`: `Find` is the entry of the map, `Join` the place in line for the
  client's mutex, then `Connect`, `Send`, `Receive` or `Fail`. The mutex is fair: who
  comes to it takes the next ticket, and it is with the one in line who has the
  lowest (`First`). `Answer` and `ServerEnds` are the connection's task. `close` is `CloseStarts`,
  `CloseJoins` and `CloseClient`.
* `StreamPool`: `Hit` or `Miss`, `Write`, `Read` or `Broken`, and `PutBack` within
  both of the last, because a stream goes back whatever became of the exchange. The
  pool is a set of streams with the order they came in: which ones it may lend or let
  go is all the code knows of the library's pool.
* `ServiceMetrics`: one step per atomic operation that another thread can tell apart;
  `PeakLoad`/`PeakCas` and `MaxLoad`/`MaxCas` are the two compare-exchange loops,
  `Lookup` and `Insert` the two halves of `get_or_create_service`, the `Snap...`
  actions the reads of a snapshot in their order.
* `RateLimiter`: `TakeTime` before the lock, `Decide` under it; the list of instants
  is how often each is in it, and its length the number of those copies (`Total`).
  `Discovery`: the change
  of a list under the write lock, `BeginRebuild` under the read lock, `Build` per
  balancer. `HealthChecker`: the branches of the loop's select. `Webhook`: `Notify`,
  then `PostSucceeds`, `PostFails` and `Awake` per attempt; `ArrivesLate` is a post
  whose sender has already been told that it failed. `Shutdown`: the two awaits of
  `wait`, and the branches of the select in `run_with_graceful_shutdown`. The one
  receiver of a channel of capacity 1 wakes once for one trigger and twice for more
  (Lagged, then the value), so `message` counts to two.

Data is abstract. A request is the call that made it, a response names the request
it answers, a frame is its type. Payloads, encodings, schemas, log lines and latency
are left out, except that STREAM_END is the set of its fields, because the two sides
disagree about them.

**Assumptions of the models.** A written frame goes out whole (requests fit the
BufWriter and are flushed once); it can be read in part. A torn stream never yields
a frame again. In `ProductionPool` the breaker's methods are atomic, which is right
on the single-threaded runtime (`SingleThreadRefinement`); with several threads the
statements `CircuitBreaker` makes are the ones to rely on. `TopicPool` and
`StreamPool` take a frame as whole or absent. In `HealthChecker` each tick finds any
set of services, because others register and unregister meanwhile. `Accept` of
`UdsSession` loads, compares and increments `ACTIVE_CONNECTIONS` in one step: only the
accept loop increments, and a decrement in between makes what it compared too large,
never too small. The arm for a streaming request with undecodable JSON
(`server.rs:275`) is left out, because a UdsClient sends none. In `UdsClientPool` a
client that will not be pooled is gone when that is decided; a future of `call_batch`
frees it at its end, after its permit, so that for this moment a socket more than
there are permits can be open. `UdsClientPool`
assumes that `usize` holds `max_pool_size` and one for each call under way.

## 3. What is checked

Every run finishes without an error except the three marked *violated*, which
reproduce a disagreement between the code and what is said of it.

| Run | Instance | What it shows |
|---|---|---|
| `breaker` | 3 threads, threshold 2, 3 failures | However methods interleave: an open breaker has an instant to expire (`OpenHasFailure`), it becomes half-open only while the last failure is older than the timeout (`HalfOpenAfterTimeout`), it never closes without having been half-open (`NeverOpenToClosed`), and it does not stay open if failures stop and somebody keeps asking (`NeverStuckOpen`). |
| `breaker_single` | 1 thread, threshold 2, 4 failures | The breaker implements `AtomicBreaker`. |
| `pool` | 3 calls, 2 permits, 3 clients | Clients are exclusive and at most `max_concurrent`, permits are conserved, the metrics account for every call, a response reaches one call, a wrong answer needs a timeout, the breaker leaves Closed only after enough failures. |
| `pool_live` | 2 calls, 1 permit | Every call ends though the server may be silent for ever. |
| `pool_wrong_answer` | 2 calls, 1 client | *Violated*: a call that reuses the client of a timed-out call returns the late response of that one (`pool.rs:626`). |
| `client_pool` | 3 calls, 2 permits, counter modulo 8 | Clients are exclusive and bounded by the permits whatever the counter says, the counter is bounded until `close`, the slow path needs a lost client. |
| `uds` | 2 clients, 2 operations, 2 connections, limits of 1 | A client whose operations nobody dropped stays in step with the server, the connection limit holds, both counters are exactly what is under way plus what panics and failed writes left behind, operations end, and tasks of dropped connections end. |
| `uds_streaming` | 1 client, 1 operation | *Violated*: the client cannot decode the server's STREAM_END (`server.rs:293`). |
| `tcp` | 3 calls, 4 connections | A call returns its own response even after dropped calls, at most one frame is owed on a connection, and a call on a fresh connection ends. |
| `tcp_second_call` | 2 calls, 2 connections | *Violated*: the second call on a connection waits for ever (`tcp.rs:81`, `210`). |
| `clients` | 3 tasks, 2 attempts; 2 calls of a topic and `close`; 2 events, 2 senders, 1 retry; 2 services; 3 waiters | A ReliableUdsClient, whose tasks are on three threads, says Connected without a stream only while a `disconnect` is between its two stores, or after one ran between the two of a dial; until something is left on the stream, no call reads another's answer; `connect` returns Ok only when connected unless a dropped connect left Connecting behind; copies of a webhook event are bounded; and operations, topic calls, `close`, `notify`, a cancelled checker and `run` after ctrl_c end. |
| `services` | 2 threads and a monitor for the metrics; 3 threads, 2 addresses; 3 threads, 2 requests in a window of 2; 3 calls, 1 pooled stream; 3 calls of a topic | Metrics agree when nobody is under way; an alert on the 99th percentile has a cause, the threshold being between two bounds of the histogram (2 and 6, threshold 4, latencies 2, 3 and 7); balancers choose from what is registered unless their last build failed; a window lets no more than its limit through; streams in the pool carry nothing; a topic is serial. |

**Bounds and why they are enough.** Two calls make every pairwise race; a third one
finds the permits taken or meets what the race left. With two permits and three
calls the semaphore, the pool and the waiting line are each empty, partly used and
full. The breaker's threshold of 2 separates the first failure from the one that
opens it, and the timeout is as short as can be waited for. In `uds` limits of one
make every second connection and handshake meet them. Two operations are what a late
answer needs, one to leave it and one to read it. `TcpSession` has three because a
dropped call, the call that uses up what it left and the next one are three. Four
connections let its client connect twice. In `clients` three tasks are one that dials,
one that looks on and one that disconnects or is dropped, and two attempts are the
first and the last; a disconnect falls between the two stores of a dial, and a jam
occurs with writer and sleeper on different threads; a webhook's second sender and second event show that a failure
stops neither. In `services` two threads race for each maximum while the monitor
reads; a lookup fails for one of the two addresses; three threads in the limiter are
a window filled by two and the one refused; three calls of one topic are one at the
server, one in line and one that comes later. The names of all bounds are `Max...`
constants or, for calls, the sets themselves.

**Fairness.** The runtime polls a future that can go on, timers fire, and time
passes: weak fairness of the steps of each call, client or task. Callers need not
start or drop anything and `close` need not be called. In `ProductionPool` nothing is
assumed of the server. In `UdsSession` and `TcpSession`, where the server is modelled,
its tasks are polled and its handlers and webhooks return; `OperationsEnd` holds with
requests that get no answer, because the client has timeouts, `NewConnectionServes`
needs the handler, because TcpClient has none. `NeverStuckOpen` is conditional on
what callers do and says so. In `ReliableClient` the peer need not answer: the request
timeout ends a read. Its tasks are fair one by one, as threads and the tasks of one
thread are, except where they wait for a lock nobody will release (`Jammed`, `Stuck`). In `TopicPool` the client's timeout does the same. The webhook's
posts have the timeout of their HTTP client. The end of the checker's loop has strong
fairness, because `tokio::select!` takes one of its ready branches at random, and the
branch of the token is ready again and again but not for ever: its 100 ms sleep
begins anew with every tick. Deadlock
checking is off in the runs of `UdsSession` and `TcpSession`, which stop when the
bounded number of operations is used up, and in `clients` and `services`, whose tasks
run one operation each; in the others a clock or a close is always
possible, and that calls go on is the subject of the liveness properties.

**What the code does that the models had to follow.**

* A caller that drops a call of ProductionPool leaves `active_requests` one too high
  for ever (`pool.rs:613`, `634`): `MetricsAccount` states the count with that excess.
* `circuit_breaker_opens` is never incremented (`pool.rs:557`); HalfOpen admits any
  number of calls; a success admitted before the breaker opened resets its count.
* Calls in flight during `close()` push connected clients into the pool that `close()`
  has just emptied (`pool.rs:629`, `769-776`).
* `created_clients` counts clients that no longer exist, and after `close()` it can
  wrap below zero (`pool.rs:278`, `394`): later calls then sleep 30 ms on the slow path.
* A handler panic takes one of `max_connections` for good (`server.rs:106-114`); a
  failed write of a response leaves the service's `active_requests` one too high
  (`server.rs:256`).
* Every connection `TcpClient::connect` shakes hands on leaves a server task that
  reads end of file for ever (`tcp.rs:80`). `connected` is set before the connection
  for calls exists (`tcp.rs:176`). The second acknowledgement is not looked at.
* A `connect` of ReliableUdsClient that is dropped while it dials leaves Connecting
  behind: every later `connect` returns Ok without a connection (`client.rs:553`).
* A task that looks at the state during a dial sleeps with the read guard and then
  reads the state again (`client.rs:536-539`). A task that comes to write the state
  meanwhile waits for the guard: on the same thread the sleeper is never polled
  again, on another its second read waits behind the writer. A frame of another type
  makes `call` lock the stream it has locked (`client.rs:639`). `OperationsEnd` states
  both as exceptions.
* `disconnect` takes neither `lock` nor one lock for both fields. Between the two stores
  of `connect` or `reconnect` it takes the new stream away, and the dial then stores
  Connected (`client.rs:567-568`, `590-591`, `715-716`): the client says Connected with
  no stream until the next `call` finds none, or a disconnect or reconnect, and
  until then `connect` returns Ok at once. `ConnectedHasStream` has this and the window within
  `disconnect` as its only exceptions; a reconnect, a failed exchange or another
  order of stores never leads there.
* `ping` never reads its PONG: the next call does (`client.rs:669`).
* UdsConnectionPool sends no handshake, so that UdsServer refuses each of its
  requests, and pools the dead stream for the next call to fail on.
* In TopicBasedPool a call that times out is still at the server when the next one
  of its topic arrives, on a new connection: `TopicSerial` excepts such topics.
* A trigger wakes one waiter of GracefulShutdown; a second `wait()` sleeps on.
* The `running` flag of BackgroundHealthChecker is never cleared: a `start` after the
  loop has ended does nothing. What the checks find goes to `set_backend_health`,
  which does nothing.
* `ActiveConnectionsAbove` and `CircuitBreakerOpen` never alert (`metrics.rs:340`).
  A snapshot taken while a request is between the total and the histogram gives the
  last bound as its percentile (`metrics.rs:44`). A percentile is the upper bound of a
  bucket (`metrics.rs:36-39`): with `LatencyP99Above(300)` one finished request of
  260 ms, in the bucket up to 500, alerts although nothing took longer than 300 ms.
  `AlertNeedsCause` says what an alert does need: a request slower than every bound
  within the threshold (250 here).
* A rate limiter can let a request through with an instant older than one it has
  decided on, whose purge has made room for it: more than the limit in one window.
  `WindowBound` excepts these late grants and bounds the others.
* All UdsClients share one rate window, because all say `protocol-client`.

## 4. What is proved

For every number of threads, calls and clients, and every threshold, limit and
timeout; the only assumptions are the named `ASSUME`s on the constants.

**`CircuitBreaker_proofs`.** `BreakerInvariant`: the inductive invariant adds to
`TypeOK` what a thread knows at its program counter. The thread about to store Open
has stamped a failure that nobody can erase; the thread about to store HalfOpen
holds the guard that keeps anyone from replacing the instant it found expired. From
it follow `TypeCorrect`, `OpenHasFailureCorrect`, `HalfOpenAfterTimeoutCorrect` and
`NeverOpenToClosedCorrect`; without the conjunct about `poll_write`, the third is not
inductive, because the check and the write are two steps. `SingleThreadRefinement`:
with one thread, the initial state maps to an initial state of `AtomicBreaker` and
each step to a step or a stutter, `record_success` taking effect at its first
operation, `record_failure` when it reads the clock, `state()` when it finds the
timeout elapsed.

**`ProductionPool_proofs`.** `PoolInvariant`: `Base` (types; a call holds a client
exactly at the labels between check-out and check-in; clients are exclusive) and two
counts, permits free plus labels that hold one, and idle clients plus lent ones. The
second count is inductive only with the first: a client is created when none is idle,
and then the lent ones are bounded by the permits. `PermitsConservedCorrect`,
`ClientsWithinLimitCorrect` and `ClientExclusiveCorrect` follow. Lemmas about the
cardinality of the calls at a set of labels (`CountExcept`, `CountGoto`) carry the
counts across a step. `WrongAnswerNeedsTimeoutCorrect`: while no call has timed out,
a stream owes nothing, or owes exactly the response of the call that is reading from
it; this is what every error path must restore by closing the stream.
`MetricsAccountCorrect` and `BreakerNeedsFailuresCorrect` rest on a third invariant
that relates the counters to the same counts and the breaker's failures to `failed`.
`TypeCorrect` collects the types.

**`UdsClientPool_proofs`.** `PoolInvariant`: types, `Shape` (a call has a client
exactly at the labels where the code has one), exclusive clients, and two counts as
in `ProductionPool`: permits with the calls that hold one, and idle clients with the
calls that have *or may still make* one. A call is counted among these from the
moment it finds the pool empty, because it may create a client after its sleeps
whatever the pool holds by then. `created_clients` appears in no part of it:
`ClientsWithinLimitCorrect` therefore holds with a counter that is wrong or has
wrapped. `CounterBoundedCorrect` and `SlowPathNeedsLossCorrect` add how far the counter
can be from the clients there are while none has been lost.

**`UdsSession_proofs`.** `CountInvariant`: each counter is the number of connections
in certain phases. A step moves at most one connection, so that one lemma (`MoveInv`)
covers every step: it asks what the phase left and the phase entered add to each
counter. The limit needs that the accept loop is one task; `WithinMaxConnections`
counts the phases served, which are some of those `active` counts.

**`TcpSession_proofs`.** `SessionInvariant`: on a connection whose frames are whole the
client can expect at most one frame, and a server that has not read the handshake has
been asked nothing (`Early`, `Whole`); a call that writes its request is owed nothing,
and one that reads is owed its own response only (`Exchange`). `OwnAnswerCorrect` is
the point: a call takes any frame for its acknowledgement, and that this frame was the
only one left is what makes the next one its own.

**`Clients_proofs`**, on `ReliableClient`. `SessionInvariant`: a label says who holds `lock`, and a stream owes nothing, or the
reader's response to the one reader; `InStepCorrect` follows. `ConnectedHasStreamCorrect`
builds on it: `StreamInv` adds that a dial between its two stores still has its stream
unless a disconnect has taken it (`taken`), and that a `reconnect` about to drop the
stream has already left Connected; that nobody else is between two stores is the
lock's doing. The action property
`OkMeansConnectedCorrect` needs that somebody dials in the state Connecting unless a
dropped `connect` has left it there, and that whoever dials holds the lock: a task
that finds Connecting under the lock therefore finds what was left. On `Webhook`,
`DeliveryInvariant`: senders and events are taken in order, so that a post is done
with, being made or still to come; the attempts of the one being made are the posts
made.

**`Pools_proofs`.** On `StreamPool`, `StreamInv`: a stream has one owner, the pool or a
call in its exchange; the pool's are empty, and a call's holds that call's request or
answer. An exchange that fails leaves nothing behind because it fails before
it has written anything (a request too large for a frame), on an answer it has read,
or on a peer that has gone, with all it had sent (`Broken`).
On `TopicPool`, `TopicInv`, in eight named parts: the client of a call is its
topic's and no other's (`TopicOwners`), tickets are given once (`TopicTickets`), the
call in its exchange is the first in line (`TopicTurns`), a client has a stream of its
own (`TopicStreams`), and the stream of an undisturbed topic holds what its reader is
owed and nothing else (`TopicContents`). `TopicSerialCorrect` is then a matter of
tickets: a request at the server is the reader's, the reader is first, and who had an
earlier ticket has ended.

**`Services_proofs`.** On `Discovery`, `DiscoveryInvariant`: a thread that rebuilds holds
the current list of its service, because the write lock of a change waits for the read
locks of the rebuilds; each thread that has still to build makes good what the others
left. On `RateLimiter`, `LimiterInv`: a grant is among the instants kept for as long as
it counts (`GrantsKept`), what a purge drops being too old for the newest instant
decided with and for every later one. When a request is admitted the grants of its
window are therefore at most the instants kept, of which there are fewer than the
limit. The count is the cardinality of a set of copies, so that the lemmas on finite
sets apply. On `ServiceMetrics`, `MetricsInvariant` has three parts. `CountingInv`: each
number of the registered object is the number of workers that are past the operation
which adds to it; the maximum is of some request that has ended and is missing only
requests still in their compare-exchange loop; the peak is what it should be or
somebody has yet to publish it. `CountersAgreeCorrect` is its instance with nobody
under way. `MonitorInv`: a snapshot whose total was read with nobody under way follows
a set of requests that had all been observed; it has counted those of them in the
buckets it has passed, and these are fewer than the rank it looks for. An alert is
raised past every bucket whose bound is within the threshold, and if each of those
requests were in one of these it would have found its rank before:
`AlertNeedsCauseCorrect`, for any threshold. Where the threshold is itself a bound the
request was slower than the threshold, which is `AlertAtBoundCorrect`.

**Also in `ProductionPool_proofs` and `UdsSession_proofs`.** `AnswersUniqueCorrect`: a
response is on one stream, in one place, until one call returns it or it is lost
(`OnceInv`), which holds through every timeout, torn stream and dropped call, where
`WrongAnswerNeedsTimeout` gives up. `SessionInvariant` of `UdsSession` gives `InStepCorrect`:
a connection has one owner (`Owners`); until an operation is dropped, the stream of a
client is empty between operations and, in `call` and `get_schema`, carries at most
one frame, the request or what may answer it (`Exchange`). The server's task, which
reads requests and appends answers, is described once (`Serves`), and each of its
actions is shown to be such a step.

**Only model-checked.** Liveness: `NeverStuckOpen`, `EveryCallEnds`, `OperationsEnd` of
`UdsSession` and of `ReliableClient`, `DroppedConnectionsEnd`, `NewConnectionServes`,
`TasksEnd`, because fairness and ENABLED are beyond the prover. `HealthChecker` and
`Shutdown` have no other properties. Every safety invariant, action property and
refinement the passing runs check is proved.

## 5. Plan

The order is by weight in the crate: first the pool and its breaker, which every
production call crosses, then the sessions a pool's clients have with the servers,
then what surrounds them.

1. Done: all modules of section 2, and the proofs of section 4.
2. Abstract specifications: a pool as a bounded set of exclusive resources, which
   `ProductionPool` and `UdsClientPool` both implement; a session as a sequence of
   calls and their answers, which `TcpSession` implements.
3. The refinements of 2 as properties of the runs, then as theorems: the invariants
   proved so far are what their steps need.

## 6. What is not modelled

* **SessionManager, MessageQueue, DeadLetterQueue, authentication**: one lock or none
  per operation, operations that do not build on each other, and no caller in the
  crate. `utils::HealthChecker` is a loop of the form of BackgroundHealthChecker's.
* **gRPC adapter, generated code, TLS, socket and configuration helpers, runtime,
  schema**: glue and pure I/O; the runtime only decides how many threads there are.
* **Streaming handlers**: traits and constructors; what goes over the wire is in
  `UdsSession`.
* MSG_PING and MSG_CLOSE in the sessions: no UdsClient or TcpClient sends them.
* The statistics of ReliableUdsClient and `connection_error`, counters that nothing
  reads back; `needs_reconnect`, a look at a clock.
* A second UdsServer in the process, which would share `ACTIVE_CONNECTIONS`.
* Log and trace output, the contents of payloads; latencies, except as the values a
  histogram counts.

## 7. Running

    tlc -workers 2 -config MCProductionPool.cfg MCProductionPool.tla
    tlapm ProductionPool_proofs.tla

Section 3 names the runs; `PROJECT.json` gives the module and configuration of each.
The definitions under "Seeded faults" in the modules belong to no specification: each
is an operation with a plausible mistake in it, put in place of the real one to see
that a property notices.
