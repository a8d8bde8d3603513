------------------------------ MODULE TopicPool ------------------------------
(****************************************************************************)
(* TopicBasedPool of src/pool.rs: call_with_topic, call_with_topics (whose  *)
(* futures are calls of their own) and close, with what UdsServer does with *)
(* the requests.  A call without a topic is a call of UdsClientPool.        *)
(*                                                                          *)
(* The calls of a topic share a client and wait for it in line (the mutex   *)
(* is fair).  The server has a task per connection: calls that come after   *)
(* one that timed out, on another connection, are not in line with it.      *)
(****************************************************************************)
EXTENDS Naturals, Sequences, FiniteSets, Functions

CONSTANTS TopicCalls, Topics, NoTopic

ASSUME TopicAssumption == IsFiniteSet(TopicCalls) /\ NoTopic \notin Topics

VARIABLES
  tpc, topic,    \* per call: what it does next, its topic
  mine,          \* the client it was given, 0 for none
  answered,      \* the answer it returned: a call, "none" or "error"
  registry,      \* topic -> its client, 0 for none: topic_clients
  ticket, issued, \* the order in which calls, and close(), came to stand in
                 \* line for the mutex of a client: 0 for not yet
  stream,        \* per client: the connection it keeps, 0 for none
  links,         \* the connections made: requests at the server, answers
                 \* not yet read, and whether the server has closed it
  closes,        \* close(): what it does next, the clients left, the one it
                 \* waits for and its ticket, 0 for none
  disturbed      \* history: topics with a call that timed out or was dropped

topicVars == <<tpc, topic, mine, answered, registry, ticket, issued, stream,
               links, closes, disturbed>>

TopicClients == 1 .. Cardinality(TopicCalls)
Ended == {"done", "dropped"}
InLine == {"wait", "send", "read"}

TopicInit ==
  /\ tpc = [c \in TopicCalls |-> "idle"]
  /\ topic = [c \in TopicCalls |-> NoTopic]
  /\ mine = [c \in TopicCalls |-> 0]
  /\ answered = [c \in TopicCalls |-> "none"]
  /\ registry = [t \in Topics |-> 0]
  /\ ticket = [c \in TopicCalls |-> 0] /\ issued = 0
  /\ stream = [o \in TopicClients |-> 0]
  /\ links = << >>
  /\ closes = [at |-> "no", left |-> {}, client |-> 0, ticket |-> 0]
  /\ disturbed = {}

\* The mutex of client o is with the one in line for it with ticket n.
First(o, n) ==
  /\ \A d \in TopicCalls : mine[d] = o /\ tpc[d] \in InLine => n <= ticket[d]
  /\ closes.client = o => n <= closes.ticket
Link(c) == links[stream[mine[c]]]
Unused == {o \in TopicClients : \A c \in TopicCalls : mine[c] # o}
TopicGoto(c, l) == tpc' = [tpc EXCEPT ![c] = l]

\* The call returns a, and its guard is dropped: the next in line has its turn.
ReturnTopic(c, a) ==
  /\ TopicGoto(c, "done")
  /\ answered' = [answered EXCEPT ![c] = a]

------------------------------------------------------------------------------
\* Seeded fault, for PROJECT.json: `insert` where the code says or_insert_with.
FindAlwaysNew(c) ==
  /\ tpc[c] = "find" /\ closes.at # "closing"
  /\ \E o \in Unused :
       /\ mine' = [mine EXCEPT ![c] = o]
       /\ registry' = [registry EXCEPT ![topic[c]] = o]
  /\ TopicGoto(c, "join")
  /\ UNCHANGED <<topic, answered, ticket, issued, stream, links, closes, disturbed>>

------------------------------------------------------------------------------
\* call_serial

StartTopic(c) ==
  /\ tpc[c] = "idle"
  /\ \E t \in Topics : topic' = [topic EXCEPT ![c] = t]
  /\ TopicGoto(c, "find")
  /\ UNCHANGED <<mine, answered, registry, ticket, issued, stream, links, closes,
                 disturbed>>

\* Under the write lock on the map, which close() keeps out with a read lock.
Find(c) ==
  /\ tpc[c] = "find" /\ closes.at # "closing"
  /\ \E o \in TopicClients :
       /\ IF registry[topic[c]] = 0 THEN o \in Unused ELSE o = registry[topic[c]]
       /\ mine' = [mine EXCEPT ![c] = o]
       /\ registry' = [registry EXCEPT ![topic[c]] = o]
  /\ TopicGoto(c, "join")
  /\ UNCHANGED <<topic, answered, ticket, issued, stream, links, closes, disturbed>>

Join(c) ==
  /\ tpc[c] = "join"
  /\ issued' = issued + 1
  /\ ticket' = [ticket EXCEPT ![c] = issued + 1]
  /\ TopicGoto(c, "wait")
  /\ UNCHANGED <<topic, mine, answered, registry, stream, links, closes, disturbed>>

\* The client's turn: it connects if it has no stream, which may fail.
Connect(c) ==
  /\ tpc[c] = "wait" /\ First(mine[c], ticket[c])
  /\ \/ /\ stream[mine[c]] # 0
        /\ TopicGoto(c, "send")
        /\ UNCHANGED <<answered, stream, links>>
     \/ /\ stream[mine[c]] = 0
        /\ links' = Append(links,
                           [requests |-> << >>, answers |-> << >>, gone |-> FALSE])
        /\ stream' = [stream EXCEPT ![mine[c]] = Len(links) + 1]
        /\ TopicGoto(c, "send")
        /\ UNCHANGED answered
     \/ /\ stream[mine[c]] = 0
        /\ ReturnTopic(c, "error")
        /\ UNCHANGED <<stream, links>>
  /\ UNCHANGED <<topic, mine, registry, ticket, issued, closes, disturbed>>

Send(c) ==
  /\ tpc[c] = "send" /\ ~Link(c).gone
  /\ links' = [links EXCEPT ![stream[mine[c]]].requests = Append(@, c)]
  /\ TopicGoto(c, "read")
  /\ UNCHANGED <<topic, mine, answered, registry, ticket, issued, stream, closes,
                 disturbed>>

\* The first answer on the connection, whosever it is.
Receive(c) ==
  /\ tpc[c] = "read" /\ Link(c).answers # << >>
  /\ ReturnTopic(c, Head(Link(c).answers))
  /\ links' = [links EXCEPT ![stream[mine[c]]].answers = Tail(@)]
  /\ UNCHANGED <<topic, mine, registry, ticket, issued, stream, closes, disturbed>>

\* Every error drops the stream: the server has gone, or answers with an
\* error, or nothing is read in time, which leaves the request at the server.
Fail(c) ==
  /\ \/ tpc[c] = "read"
     \/ tpc[c] = "send" /\ Link(c).gone
  /\ ReturnTopic(c, "error")
  /\ stream' = [stream EXCEPT ![mine[c]] = 0]
  /\ disturbed' = IF Link(c).gone \/ Link(c).answers # << >>
                    THEN disturbed ELSE disturbed \cup {topic[c]}
  /\ UNCHANGED <<topic, mine, registry, ticket, issued, links, closes>>

\* The future is dropped: out of the line, and the stream stays as it is.
DropCall(c) ==
  /\ tpc[c] \notin {"idle"} \cup Ended
  /\ TopicGoto(c, "dropped")
  /\ disturbed' = disturbed \cup IF tpc[c] \in {"send", "read"} THEN {topic[c]} ELSE {}
  /\ UNCHANGED <<topic, mine, answered, registry, ticket, issued, stream, links,
                 closes>>

------------------------------------------------------------------------------
\* close

CloseStarts ==
  /\ closes.at = "no"
  /\ closes' = [closes EXCEPT !.at = "closing",
                              !.left = {registry[t] : t \in Topics} \ {0}]
  /\ UNCHANGED <<tpc, topic, mine, answered, registry, ticket, issued, stream,
                 links, disturbed>>

CloseJoins ==
  /\ closes.at = "closing" /\ closes.client = 0
  /\ \/ /\ closes.left = {}
        /\ closes' = [closes EXCEPT !.at = "closed"]
        /\ UNCHANGED issued
     \/ /\ \E o \in closes.left :
             closes' = [closes EXCEPT !.client = o, !.ticket = issued + 1]
        /\ issued' = issued + 1
  /\ UNCHANGED <<tpc, topic, mine, answered, registry, ticket, stream, links,
                 disturbed>>

CloseClient ==
  /\ closes.client # 0 /\ First(closes.client, closes.ticket)
  /\ stream' = [stream EXCEPT ![closes.client] = 0]
  /\ closes' = [closes EXCEPT !.left = @ \ {closes.client}, !.client = 0,
                              !.ticket = 0]
  /\ UNCHANGED <<tpc, topic, mine, answered, registry, ticket, issued, links,
                 disturbed>>

------------------------------------------------------------------------------
\* UdsServer's task for connection k: it has the requests in the order they
\* were written, the first in hand; the answer follows the client's close too.

Answer(k) ==
  /\ links[k].requests # << >>
  /\ LET l == links[k] IN
     links' = [links EXCEPT ![k] = [requests |-> Tail(l.requests),
                 answers |-> Append(l.answers, Head(l.requests)), gone |-> l.gone]]
  /\ UNCHANGED <<tpc, topic, mine, answered, registry, ticket, issued, stream,
                 closes, disturbed>>

\* The task ends, the idle timeout for one, with requests not yet read.
ServerEnds(k) ==
  /\ ~links[k].gone
  /\ links' = [links EXCEPT ![k] =
                 [requests |-> << >>, answers |-> @.answers, gone |-> TRUE]]
  /\ UNCHANGED <<tpc, topic, mine, answered, registry, ticket, issued, stream,
                 closes, disturbed>>

CallStep(c) ==
  Find(c) \/ Join(c) \/ Connect(c) \/ Send(c) \/ Receive(c) \/ Fail(c)
CloseStep == CloseJoins \/ CloseClient

TopicNext ==
  \/ \E c \in TopicCalls : StartTopic(c) \/ CallStep(c) \/ DropCall(c)
  \/ CloseStarts \/ CloseStep
  \/ \E k \in DOMAIN links : Answer(k) \/ ServerEnds(k)

TopicSpec == TopicInit /\ [][TopicNext]_topicVars

\* tokio polls what is ready; the client's timeouts end connect and read.
TopicFairness ==
  /\ \A c \in TopicCalls : WF_topicVars(CallStep(c))
  /\ WF_topicVars(CloseStep)

------------------------------------------------------------------------------
\* Properties

AtServer == UNION {Range(links[k].requests) : k \in DOMAIN links}

(* A topic is serial as long as no call of it timed out or was dropped over *)
(* its exchange: the server has one request of it at a time, in the order   *)
(* the calls came to the client, and each call gets its own answer, however *)
(* connections fail and clients are closed (pool.rs:440).                   *)
TopicSerial ==
  \A c \in TopicCalls : topic[c] \in Topics \ disturbed =>
    /\ answered[c] \in {c, "none", "error"}
    /\ c \in AtServer => \A d \in TopicCalls \ {c} : topic[d] = topic[c] =>
         /\ d \notin AtServer
         /\ ticket[d] \in 1 .. ticket[c] - 1 => tpc[d] \in Ended

(* Every call ends, and close() gets through its clients.                   *)
CallsReturn ==
  /\ \A c \in TopicCalls : tpc[c] = "find" ~> tpc[c] \in Ended
  /\ closes.at = "closing" ~> closes.at = "closed"

==============================================================================
