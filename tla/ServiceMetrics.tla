---------------------------- MODULE ServiceMetrics ----------------------------
(****************************************************************************)
(* src/metrics.rs: ConnectionTracker, MetricsCollector, ServiceMetrics with *)
(* its Histogram, and AlertManager::check.                                  *)
(*                                                                          *)
(* Workers each track a connection and one request for the service, on      *)
(* threads of their own; a monitor checks the alert rules meanwhile.  Each  *)
(* atomic operation that another thread can tell apart is a step; counters  *)
(* that nobody compares (total and active, count and sum) move together.    *)
(* A request may end without request_end: the server's task leaves by `?`.  *)
(****************************************************************************)
EXTENDS Naturals, Sequences, FiniteSets

CONSTANTS Workers,
          Bounds,            \* of the histogram, increasing
          Latencies,
          SlowerThan,        \* LatencyP99Above(SlowerThan), any threshold
          ErrorPercent       \* ErrorRateAbove(ErrorPercent / 100)

ASSUME MetricsAssumption ==
  /\ IsFiniteSet(Workers)
  /\ Bounds \in Seq(Nat) /\ Bounds # << >>
  /\ \A i, j \in DOMAIN Bounds : i < j => Bounds[i] < Bounds[j]
  /\ Latencies \subseteq Nat
  /\ SlowerThan \in Nat /\ ErrorPercent \in Nat

VARIABLES
  wpc, handle,          \* what a worker does next, the metrics it was given
  value, seen,          \* what it publishes (connections, then its latency),
                        \* the maximum it has loaded to compare with
  result,               \* how its request ended
  registered,           \* the service's entry in the collector, 0 for none
  metrics,              \* the ServiceMetrics objects
  tracker,              \* the ConnectionTracker
  most,                 \* history: the most connections ever open at once
  monitor               \* the thread in AlertManager::check

workerVars == <<wpc, handle, value, result, seen>>
metricsVars == <<workerVars, registered, metrics, tracker, most, monitor>>

Objects == 1 .. Cardinality(Workers)
Buckets == 1 .. Len(Bounds) + 1
Results == {"success", "failure", "timeout"}
Maximum(S) == CHOOSE m \in S \cup {0} : \A n \in S : n <= m

\* Seeded fault: a latency equal to a bound goes into the bucket above it.
BucketAbove(v) == Cardinality({i \in DOMAIN Bounds : Bounds[i] <= v}) + 1

\* binary_search: where v is among the bounds, or would be.
Bucket(v) == Cardinality({i \in DOMAIN Bounds : Bounds[i] < v}) + 1

\* ceil(total * 99 / 100)
Target(n) == (n * 99 + 99) \div 100

NewMetrics == [total |-> 0, active |-> 0, count |-> 0, sum |-> 0, max |-> 0,
               hist |-> [b \in Buckets |-> 0], ended |-> [r \in Results |-> 0]]
NewMonitor == [at |-> 0, total |-> 0, failures |-> 0, cum |-> 0,
               running |-> FALSE, alerts |-> {}]

MetricsInit ==
  /\ wpc = [w \in Workers |-> "idle"]
  /\ handle = [w \in Workers |-> 0]
  /\ value = [w \in Workers |-> 0]
  /\ result = [w \in Workers |-> "none"]
  /\ seen = [w \in Workers |-> 0]
  /\ registered = 0
  /\ metrics = [o \in Objects |-> NewMetrics]
  /\ tracker = [total |-> 0, active |-> 0, peak |-> 0, closed |-> 0]
  /\ most = 0
  /\ monitor = NewMonitor

WGoto(w, l) == wpc' = [wpc EXCEPT ![w] = l]
Mine(w) == metrics[handle[w]]
SetMine(w, m) == metrics' = [metrics EXCEPT ![handle[w]] = m]
SnapshotRunning == monitor.at # 0
Used == {handle[w] : w \in Workers}

------------------------------------------------------------------------------
\* Seeded faults, for PROJECT.json; no specification uses them.

\* The new peak is stored, not exchanged.
PeakStore(w) ==
  /\ wpc[w] = "peakcas"
  /\ tracker' = [tracker EXCEPT !.peak = value[w]]
  /\ WGoto(w, "lookup")
  /\ UNCHANGED <<handle, value, result, seen, registered, metrics, most, monitor>>

------------------------------------------------------------------------------
\* connection_opened, connection_closed

Opened(w) ==
  /\ wpc[w] = "idle"
  /\ tracker' = [tracker EXCEPT !.total = @ + 1, !.active = @ + 1]
  /\ value' = [value EXCEPT ![w] = tracker.active + 1]
  /\ most' = Maximum({most, tracker.active + 1})
  /\ WGoto(w, "peak")
  /\ UNCHANGED <<handle, result, seen, registered, metrics, monitor>>

\* The loop that raises the peak: load, then compare_exchange.
PeakLoad(w) ==
  /\ wpc[w] = "peak"
  /\ seen' = [seen EXCEPT ![w] = tracker.peak]
  /\ WGoto(w, IF value[w] <= tracker.peak THEN "lookup" ELSE "peakcas")
  /\ UNCHANGED <<handle, value, result, registered, metrics, tracker, most, monitor>>

PeakCas(w) ==
  /\ wpc[w] = "peakcas"
  /\ \/ /\ tracker.peak = seen[w]
        /\ tracker' = [tracker EXCEPT !.peak = value[w]]
        /\ WGoto(w, "lookup")
     \/ tracker.peak # seen[w] /\ WGoto(w, "peak") /\ UNCHANGED tracker
  /\ UNCHANGED <<handle, value, result, seen, registered, metrics, most, monitor>>

Closed(w) ==
  /\ wpc[w] = "close"
  /\ tracker' = [tracker EXCEPT !.active = @ - 1, !.closed = @ + 1]
  /\ WGoto(w, "done")
  /\ UNCHANGED <<handle, value, result, seen, registered, metrics, most, monitor>>

------------------------------------------------------------------------------
\* get_or_create_service: under the read lock, then again under the write lock

Lookup(w) ==
  /\ wpc[w] = "lookup"
  /\ handle' = [handle EXCEPT ![w] = registered]
  /\ WGoto(w, IF registered # 0 THEN "start" ELSE "insert")
  /\ UNCHANGED <<value, result, seen, registered, metrics, tracker, most, monitor>>

Insert(w) ==
  /\ wpc[w] = "insert"
  /\ ~SnapshotRunning
  /\ \/ /\ registered # 0
        /\ handle' = [handle EXCEPT ![w] = registered]
        /\ UNCHANGED registered
     \/ /\ registered = 0
        /\ \E o \in Objects \ Used :
             handle' = [handle EXCEPT ![w] = o] /\ registered' = o
  /\ WGoto(w, "start")
  /\ UNCHANGED <<value, result, seen, metrics, tracker, most, monitor>>

------------------------------------------------------------------------------
\* request_start, request_end

RequestStart(w) ==
  /\ wpc[w] = "start"
  /\ SetMine(w, [Mine(w) EXCEPT !.total = @ + 1, !.active = @ + 1])
  /\ WGoto(w, "run")
  /\ UNCHANGED <<handle, value, result, seen, registered, tracker, most, monitor>>

\* The request ends, or its task does.
RequestEnd(w) ==
  /\ wpc[w] = "run"
  /\ \/ \E v \in Latencies, r \in Results :
          /\ value' = [value EXCEPT ![w] = v]
          /\ result' = [result EXCEPT ![w] = r]
          /\ SetMine(w, [Mine(w) EXCEPT !.active = @ - 1, !.count = @ + 1,
                                        !.sum = @ + v])
          /\ WGoto(w, "max")
     \/ /\ result' = [result EXCEPT ![w] = "cut"]
        /\ WGoto(w, "close")
        /\ UNCHANGED <<value, metrics>>
  /\ UNCHANGED <<handle, seen, registered, tracker, most, monitor>>

MaxLoad(w) ==
  /\ wpc[w] = "max"
  /\ seen' = [seen EXCEPT ![w] = Mine(w).max]
  /\ WGoto(w, IF value[w] <= Mine(w).max THEN "observe" ELSE "maxcas")
  /\ UNCHANGED <<handle, value, result, registered, metrics, tracker, most, monitor>>

MaxCas(w) ==
  /\ wpc[w] = "maxcas"
  /\ \/ /\ Mine(w).max = seen[w]
        /\ SetMine(w, [Mine(w) EXCEPT !.max = value[w]])
        /\ WGoto(w, "observe")
     \/ Mine(w).max # seen[w] /\ WGoto(w, "max") /\ UNCHANGED metrics
  /\ UNCHANGED <<handle, value, result, seen, registered, tracker, most, monitor>>

Observe(w) ==
  /\ wpc[w] = "observe"
  /\ SetMine(w, [Mine(w) EXCEPT !.hist[Bucket(value[w])] = @ + 1])
  /\ WGoto(w, "result")
  /\ UNCHANGED <<handle, value, result, seen, registered, tracker, most, monitor>>

CountResult(w) ==
  /\ wpc[w] = "result"
  /\ SetMine(w, [Mine(w) EXCEPT !.ended[result[w]] = @ + 1])
  /\ WGoto(w, "close")
  /\ UNCHANGED <<handle, value, result, seen, registered, tracker, most, monitor>>

------------------------------------------------------------------------------
\* AlertManager::check, snapshot_all, snapshot, percentile

\* A request is counted in total and not, or never to be, in the histogram.
Running == \E w \in Workers : \/ wpc[w] \in {"run", "max", "maxcas", "observe"}
                              \/ result[w] = "cut"

SnapTotal ==
  /\ monitor.at = 0 /\ registered # 0
  /\ monitor' = [NewMonitor EXCEPT !.at = 1, !.total = metrics[registered].total,
                                   !.running = Running]
  /\ UNCHANGED <<workerVars, registered, metrics, tracker, most>>

SnapFailures ==
  /\ monitor.at = 1
  /\ monitor' = [monitor EXCEPT !.at = 2,
                                !.failures = metrics[registered].ended["failure"]]
  /\ UNCHANGED <<workerVars, registered, metrics, tracker, most>>

\* One bucket of percentile(99, total); the rules are judged after the last.
SnapBucket ==
  /\ monitor.at \in {b + 1 : b \in Buckets}
  /\ LET b == monitor.at - 1
         cum == monitor.cum + metrics[registered].hist[b]
         p99 == IF monitor.total = 0 THEN 0
                ELSE Bounds[IF b > Len(Bounds) THEN Len(Bounds) ELSE b]
         found == \/ monitor.total = 0 \/ cum >= Target(monitor.total)
                  \/ b = Len(Bounds) + 1
     IN \/ /\ ~found
           /\ monitor' = [monitor EXCEPT !.at = @ + 1, !.cum = cum]
        \/ /\ found
           /\ monitor' = [monitor EXCEPT !.at = 0, !.cum = 0, !.alerts =
                {r \in {"p99", "rate"} :
                   \/ r = "p99" /\ p99 > SlowerThan
                   \/ /\ r = "rate" /\ monitor.total > 0
                      /\ monitor.failures * 100 > ErrorPercent * monitor.total}]
  /\ UNCHANGED <<workerVars, registered, metrics, tracker, most>>

Work(w) ==
  \/ Opened(w) \/ PeakLoad(w) \/ PeakCas(w) \/ Closed(w) \/ Lookup(w) \/ Insert(w)
  \/ RequestStart(w) \/ RequestEnd(w) \/ MaxLoad(w) \/ MaxCas(w)
  \/ Observe(w) \/ CountResult(w)

MetricsNext ==
  (\E w \in Workers : Work(w)) \/ SnapTotal \/ SnapFailures \/ SnapBucket

MetricsSpec == MetricsInit /\ [][MetricsNext]_metricsVars

------------------------------------------------------------------------------
\* Properties

(* When no worker is under way the numbers agree, however their operations  *)
(* interleaved: one object has all requests of the service (metrics.rs:250),*)
(* the maximum and the peak have lost no update (102, 188), and all that is *)
(* missing are requests whose task ended without request_end.               *)
With(r) == {w \in Workers : result[w] = r}
Finished == {w \in Workers : wpc[w] = "done" /\ result[w] # "cut"}

CountersAgree ==
  (\A w \in Workers : wpc[w] \in {"idle", "done"}) /\ registered # 0 =>
    LET m == metrics[registered] IN
    /\ m.total = Cardinality(Finished) + Cardinality(With("cut"))
    /\ m.active = Cardinality(With("cut"))
    /\ m.count = Cardinality(Finished)
    /\ \A r \in Results : m.ended[r] = Cardinality(With(r))
    /\ \A b \in Buckets :
         m.hist[b] = Cardinality({w \in Finished : Bucket(value[w]) = b})
    /\ m.max = Maximum({value[w] : w \in Finished})
    /\ tracker.active = 0 /\ tracker.closed = tracker.total
    /\ tracker.peak = most

(* An alert on the 99th percentile has a cause: a request slower than every *)
(* bound within the threshold, since the percentile is the bound above a    *)
(* latency (metrics.rs:37), or one that was counted but not observed when   *)
(* the total was read, which takes the last bound for its latency (44).     *)
AlertNeedsCause ==
  "p99" \in monitor.alerts =>
    \/ monitor.running
    \/ \E w \in Workers :
         /\ result[w] \in Results
         /\ \A i \in DOMAIN Bounds : Bounds[i] <= SlowerThan => Bounds[i] < value[w]

==============================================================================
