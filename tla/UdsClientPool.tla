---------------------------- MODULE UdsClientPool ----------------------------
(****************************************************************************)
(* UdsClientPool of src/pool.rs: call, call_batch (each future of a batch   *)
(* is a call of mode "batch"), close and pooled_count.                      *)
(*                                                                          *)
(* Two numbers bound the clients: the semaphore's permits, and              *)
(* created_clients, an atomic counter that is added to before it is tested  *)
(* and taken back afterwards, that nothing decreases when a client is       *)
(* dropped, and that close() stores zero into whatever is under way.  The   *)
(* counter is a usize and wraps; Modulus is its range.                      *)
(*                                                                          *)
(* UdsClient::call drops its stream on every error and connects again, so   *)
(* what a call does with its client is one step with three outcomes.        *)
(****************************************************************************)
EXTENDS Integers, Sequences, FiniteSets

CONSTANTS Calls, Clients,
          MaxConcurrent,   \* permits of the semaphore
          MaxPoolSize,     \* max_pool_size
          Modulus,         \* usize::MAX + 1
          NoClient

ASSUME ClientPoolAssumption ==
  /\ IsFiniteSet(Calls)
  /\ NoClient \notin Clients
  /\ MaxConcurrent \in Nat
  /\ MaxPoolSize \in Nat
  /\ Modulus \in Nat
  /\ MaxPoolSize + Cardinality(Calls) < Modulus

\* `let mut retries = 3`
Retries == 3

VARIABLES
  mode,          \* "call" or "batch"
  pc,            \* what each call does next
  client,        \* the client a call holds, or NoClient
  outcome,       \* how the exchange of a call ended
  retries,       \* attempts a call has left on the slow path
  permits,       \* free permits of the semaphore
  idle,          \* the Vec of pooled clients
  created,       \* created_clients
  closing        \* "no", "clearing" while close() holds the lock, "closed"

callVars == <<mode, pc, client, outcome, retries>>
vars == <<callVars, permits, idle, created, closing>>

Holding == {"pop", "add", "sub", "retry", "sleep", "exchange", "return",
            "release"}
Labels == {"idle", "acquire", "done", "dropped"} \cup Holding
Outcomes == {"none", "ok", "transport", "other"}

Held == {client[c] : c \in Calls} \ {NoClient}
IdleClients == {idle[i] : i \in DOMAIN idle}
Holders == {c \in Calls : pc[c] \in Holding}

\* The lock on the pool: callers hold it for one step, close() for two.
LockFree == closing # "clearing"

Goto(c, l) == pc' = [pc EXCEPT ![c] = l]

\* SharedUdsClient::new(&self.path): a client nobody has.
NewClient(c) ==
  \E k \in Clients \ (Held \cup IdleClients) :
    client' = [client EXCEPT ![c] = k]

\* pool.pop()
PopClient(c) ==
  /\ idle # << >>
  /\ client' = [client EXCEPT ![c] = idle[Len(idle)]]
  /\ idle' = SubSeq(idle, 1, Len(idle) - 1)

Init ==
  /\ mode \in [Calls -> {"call", "batch"}]
  /\ pc = [c \in Calls |-> "idle"]
  /\ client = [c \in Calls |-> NoClient]
  /\ outcome = [c \in Calls |-> "none"]
  /\ retries = [c \in Calls |-> 0]
  /\ permits = MaxConcurrent
  /\ idle = << >>
  /\ created = 0
  /\ closing = "no"

------------------------------------------------------------------------------
\* Seeded faults: each replaces the action named in PROJECT.json to show that
\* a property notices it.  No specification of this module uses them.

\* The counter is not taken back when the pool is full.
SubForgotten(c) ==
  /\ pc[c] = "sub"
  /\ \/ /\ mode[c] = "batch"
        /\ NewClient(c)
        /\ Goto(c, "exchange")
        /\ UNCHANGED retries
     \/ /\ mode[c] = "call"
        /\ Goto(c, "retry")
        /\ retries' = [retries EXCEPT ![c] = Retries]
        /\ UNCHANGED client
  /\ UNCHANGED <<mode, outcome, permits, idle, created, closing>>

\* The counter is tested after its own addition, as if it returned the new value.
AddLate(c) ==
  /\ pc[c] = "add"
  /\ created' = (created + 1) % Modulus
  /\ \/ created + 1 < MaxPoolSize /\ NewClient(c) /\ Goto(c, "exchange")
     \/ created + 1 >= MaxPoolSize /\ Goto(c, "sub") /\ UNCHANGED client
  /\ UNCHANGED <<mode, outcome, retries, permits, idle, closing>>

\* The permit is dropped before the client is back in the pool.
ExchangeDropsPermit(c) ==
  /\ pc[c] = "exchange"
  /\ outcome' = [outcome EXCEPT ![c] = "ok"]
  /\ permits' = permits + 1
  /\ Goto(c, "return")
  /\ UNCHANGED <<mode, client, retries, idle, created, closing>>

\* A client is returned and kept.
ReturnKeepsClient(c) ==
  /\ pc[c] = "return"
  /\ LockFree
  /\ idle' = IF Len(idle) < MaxPoolSize THEN Append(idle, client[c]) ELSE idle
  /\ Goto(c, "release")
  /\ UNCHANGED <<mode, client, outcome, retries, permits, created, closing>>

------------------------------------------------------------------------------
\* call and the futures of call_batch

Begin(c) ==
  /\ pc[c] = "idle"
  /\ Goto(c, "acquire")
  /\ UNCHANGED <<mode, client, outcome, retries, permits, idle, created, closing>>

\* The semaphore is never closed: acquire fails never.
Acquire(c) ==
  /\ pc[c] = "acquire"
  /\ permits > 0
  /\ permits' = permits - 1
  /\ Goto(c, "pop")
  /\ UNCHANGED <<mode, client, outcome, retries, idle, created, closing>>

Pop(c) ==
  /\ pc[c] = "pop"
  /\ LockFree
  /\ \/ PopClient(c) /\ Goto(c, "exchange")
     \/ idle = << >> /\ Goto(c, "add") /\ UNCHANGED <<client, idle>>
  /\ UNCHANGED <<mode, outcome, retries, permits, created, closing>>

\* fetch_add returns what the counter was.
Add(c) ==
  /\ pc[c] = "add"
  /\ created' = (created + 1) % Modulus
  /\ \/ created < MaxPoolSize /\ NewClient(c) /\ Goto(c, "exchange")
     \/ created >= MaxPoolSize /\ Goto(c, "sub") /\ UNCHANGED client
  /\ UNCHANGED <<mode, outcome, retries, permits, idle, closing>>

\* fetch_sub; a batch call makes its client at once, a call tries again.
Sub(c) ==
  /\ pc[c] = "sub"
  /\ created' = (created - 1) % Modulus
  /\ \/ /\ mode[c] = "batch"
        /\ NewClient(c)
        /\ Goto(c, "exchange")
        /\ UNCHANGED retries
     \/ /\ mode[c] = "call"
        /\ Goto(c, "retry")
        /\ retries' = [retries EXCEPT ![c] = Retries]
        /\ UNCHANGED client
  /\ UNCHANGED <<mode, outcome, permits, idle, closing>>

Retry(c) ==
  /\ pc[c] = "retry"
  /\ LockFree
  /\ \/ PopClient(c) /\ Goto(c, "exchange")
     \/ idle = << >> /\ Goto(c, "sleep") /\ UNCHANGED <<client, idle>>
  /\ UNCHANGED <<mode, outcome, retries, permits, created, closing>>

\* Ten milliseconds later; after the last attempt a client is made uncounted.
Wake(c) ==
  /\ pc[c] = "sleep"
  /\ retries' = [retries EXCEPT ![c] = @ - 1]
  /\ \/ retries[c] > 1 /\ Goto(c, "retry") /\ UNCHANGED client
     \/ retries[c] = 1 /\ NewClient(c) /\ Goto(c, "exchange")
  /\ UNCHANGED <<mode, outcome, permits, idle, created, closing>>

\* client.call: a client whose call failed in another way than by the
\* transport is not pooled; nothing takes it off the counter.  From here on
\* nobody can use it, and it counts as gone, although call_batch frees a client
\* it does not pool (this one, or one the pool has no room for) only after the
\* permit, in the same poll.
Exchange(c) ==
  /\ pc[c] = "exchange"
  /\ \/ /\ \E o \in {"ok", "transport"} : outcome' = [outcome EXCEPT ![c] = o]
        /\ Goto(c, "return")
        /\ UNCHANGED client
     \/ /\ outcome' = [outcome EXCEPT ![c] = "other"]
        /\ client' = [client EXCEPT ![c] = NoClient]
        /\ Goto(c, "release")
  /\ UNCHANGED <<mode, retries, permits, idle, created, closing>>

Return(c) ==
  /\ pc[c] = "return"
  /\ LockFree
  /\ idle' = IF Len(idle) < MaxPoolSize THEN Append(idle, client[c]) ELSE idle
  /\ client' = [client EXCEPT ![c] = NoClient]
  /\ Goto(c, "release")
  /\ UNCHANGED <<mode, outcome, retries, permits, created, closing>>

Release(c) ==
  /\ pc[c] = "release"
  /\ permits' = permits + 1
  /\ Goto(c, "done")
  /\ UNCHANGED <<mode, client, outcome, retries, idle, created, closing>>

------------------------------------------------------------------------------
\* The caller, and close()

\* The future is dropped at an await: permit and client go, the count stays.
Abandon(c) ==
  /\ pc[c] \in {"acquire", "pop", "retry", "sleep", "exchange", "return"}
  /\ Goto(c, "dropped")
  /\ client' = [client EXCEPT ![c] = NoClient]
  /\ permits' = IF pc[c] = "acquire" THEN permits ELSE permits + 1
  /\ UNCHANGED <<mode, outcome, retries, idle, created, closing>>

\* The pooled clients are closed and dropped; the lock stays held.
CloseClear ==
  /\ LockFree
  /\ closing' = "clearing"
  /\ idle' = << >>
  /\ UNCHANGED <<callVars, permits, created>>

CloseReset ==
  /\ closing = "clearing"
  /\ closing' = "closed"
  /\ created' = 0
  /\ UNCHANGED <<callVars, permits, idle>>

------------------------------------------------------------------------------

CallStep(c) ==
  \/ Begin(c) \/ Acquire(c) \/ Pop(c) \/ Add(c) \/ Sub(c) \/ Retry(c) \/ Wake(c)
  \/ Exchange(c) \/ Return(c) \/ Release(c) \/ Abandon(c)

Next == (\E c \in Calls : CallStep(c)) \/ CloseClear \/ CloseReset

Spec == Init /\ [][Next]_vars

------------------------------------------------------------------------------
\* Properties

TypeOK ==
  /\ mode \in [Calls -> {"call", "batch"}]
  /\ pc \in [Calls -> Labels]
  /\ client \in [Calls -> Clients \cup {NoClient}]
  /\ outcome \in [Calls -> Outcomes]
  /\ retries \in [Calls -> 0 .. Retries]
  /\ permits \in 0 .. MaxConcurrent
  /\ idle \in Seq(Clients)
  /\ created \in 0 .. Modulus - 1
  /\ closing \in {"no", "clearing", "closed"}

(* A client is with one call or in the pool, once.                          *)
ClientExclusive ==
  /\ \A c, d \in Calls : client[c] = client[d] /\ c # d => client[c] = NoClient
  /\ IdleClients \cap Held = {}
  /\ \A i, j \in DOMAIN idle : idle[i] = idle[j] => i = j

(* However wrong created_clients is (clients lost, uncounted clients of the *)
(* slow path and of batches, a counter reset or wrapped by close), there    *)
(* are never more clients, pooled, lent or decided upon, than permits.  A   *)
(* client that is neither pooled nor lent any more is not counted, though a *)
(* batch frees it a moment after its permit.                                *)
Deciding == {c \in Calls : pc[c] \in {"add", "sub"}}

ClientsWithinLimit ==
  Len(idle) + Cardinality(Held) + Cardinality(Deciding) <= MaxConcurrent

(* Without close() the counter is at most max_pool_size and the callers     *)
(* that are about to take their addition back.                              *)
CounterBounded ==
  closing = "no"
    => created <= MaxPoolSize + Cardinality({c \in Calls : pc[c] = "sub"})

(* With room for every permit in the pool, a call waits on the slow path    *)
(* (three sleeps of ten milliseconds) only after a client has been lost:    *)
(* dropped with an error, dropped with its future, or cleared by close().   *)
ClientLost ==
  \/ closing # "no"
  \/ \E c \in Calls : outcome[c] = "other" \/ pc[c] = "dropped"

OnSlowPath == {c \in Calls : pc[c] \in {"sub", "retry", "sleep"}}

SlowPathNeedsLoss ==
  MaxPoolSize >= MaxConcurrent /\ OnSlowPath # {} => ClientLost

==============================================================================
