------------------------------ MODULE Service ------------------------------
(***************************************************************************)
(* MetricsService (internal/app/server/service/metrics.go) and the HTTP    *)
(* handlers that call it (handlers.go, middleware/json.go) over MemStorage *)
(* (repository/storage.go): the goroutines of several requests update and  *)
(* read two maps metric by metric, each step atomic and nothing more.      *)
(*                                                                         *)
(* Postgres has the same handlers over the other storage.  Saving to a     *)
(* file, which only reads these maps, is in FileStorage.                   *)
(***************************************************************************)
EXTENDS Integers, Sequences, FiniteSets

CONSTANTS
  Handlers,
  Names,           \* metric names; a gauge and a counter may share one
  Requests,        \* what clients send, see ServiceRequestOK
  GaugeValues, NaN,  \* strings that ParseFloat takes; the one JSON has no form for
  Invalid,         \* a string that does not parse
  Nil,             \* no delta or value
  Absent,          \* no such metric
  MaxInt,          \* the largest int64
  MaxRequests      \* bound: requests

Int64 == (-MaxInt - 1)..MaxInt

\* POST /update/:type/:name/:value, POST /update/, POST /updates/, POST /value/,
\* GET /value/:type/:name, GET /.
Kinds == {"path", "json", "batch", "value", "get", "list"}

Items == [mtype : {"gauge", "counter", "other"}, id : Names,
          val : Int64 \cup GaugeValues \cup {Invalid, Nil}]

ServiceRequestOK(r) ==
  /\ r.kind \in Kinds /\ r.items \in Seq(Items)
  /\ r.kind = "list" <=> r.items = <<>>
  /\ r.kind # "batch" => Len(r.items) <= 1
  /\ \A k \in DOMAIN r.items :
       LET x == r.items[k]
       IN  /\ x.val \in Int64 => x.mtype = "counter"
           /\ x.val \in GaugeValues => x.mtype = "gauge"
           /\ x.val \in {Invalid, NaN} => r.kind = "path"

ASSUME ServiceAssumption ==
  /\ IsFiniteSet(Handlers)
  /\ MaxInt \in Nat /\ MaxRequests \in Nat
  /\ NaN \in GaugeValues
  /\ {Absent, Nil, Invalid} \cap (GaugeValues \cup Int64) = {}
  /\ \A r \in Requests : ServiceRequestOK(r)

VARIABLES
  gauges, counters,   \* MemStorage
  at,        \* where each handler is
  req,       \* its request
  todo,      \* items still to be applied, or to be read
  result,    \* the metrics of its answer, gathered so far
  status,    \* the status it answers with
  blank,     \* its answer has no body
  seen,      \* history: what memory has held since the handler began to read
  existed,   \* history: the metrics there were when its request began
  asked,     \* history: the deltas of all requests, per name
  served

storage == <<gauges, counters>>
request == <<at, req, todo, result, status, blank>>
service == <<storage, request, seen, existed, asked, served>>

NoRequest == [kind |-> "none", items |-> <<>>]

Metric(t, n, v) == [mtype |-> t, id |-> n, val |-> v]

\* What is in memory.
Held == {Metric("gauge", n, gauges[n]) : n \in {m \in Names : gauges[m] # Absent}}
        \cup {Metric("counter", n, counters[n]) : n \in {m \in Names : counters[m] # Absent}}

ServiceInit ==
  /\ gauges = [n \in Names |-> Absent] /\ counters = [n \in Names |-> Absent]
  /\ at = [h \in Handlers |-> "idle"]
  /\ req = [h \in Handlers |-> NoRequest]
  /\ todo = [h \in Handlers |-> <<>>]
  /\ result = [h \in Handlers |-> {}]
  /\ status = [h \in Handlers |-> 0]
  /\ blank = [h \in Handlers |-> FALSE]
  /\ seen = [h \in Handlers |-> {}]
  /\ existed = [h \in Handlers |-> {}]
  /\ asked = [n \in Names |-> 0]
  /\ served = 0

-----------------------------------------------------------------------------
(* MemStorage.                                                             *)

Wrap(n) == ((n + MaxInt + 1) % (2 * MaxInt + 2)) - MaxInt - 1

\* Faulty variant: a sum that is out of range stops at the largest int64.
SumSaturating(n, d) == IF n + d > MaxInt THEN MaxInt ELSE n + d

\* += of int64.
Sum(n, d) == Wrap(n + d)

Number(v) == IF v = Absent THEN 0 ELSE v

\* UpdateCounter under the map's lock, or UpdateGaugeRaw into the sync.Map; an
\* item of a batch without a delta or value, or of another type, does nothing.
Apply(x) ==
  /\ counters' = IF x.mtype = "counter" /\ x.val # Nil
                 THEN [counters EXCEPT ![x.id] = Sum(Number(@), x.val)] ELSE counters
  /\ gauges' = IF x.mtype = "gauge" /\ x.val # Nil
               THEN [gauges EXCEPT ![x.id] = x.val] ELSE gauges

\* What one item adds to the counter n, and the first k of a sequence together.
DeltaOf(x, n) == IF x.id = n /\ x.val \in Int64 THEN x.val ELSE 0

DeltasUpTo(items, n) ==
  LET sum[k \in 0..Len(items)] ==
        IF k = 0 THEN 0 ELSE sum[k - 1] + DeltaOf(items[k], n)
  IN  sum

Deltas(r, n) == DeltasUpTo(r.items, n)[Len(r.items)]

\* Handlers that read see what is written meanwhile; h begins to.
Sees(h, begins) ==
  seen' = [g \in Handlers |->
            IF g = h THEN IF begins THEN Held' ELSE seen[g]
            ELSE IF at[g] \in {"read", "list"} THEN seen[g] \cup Held' ELSE seen[g]]

-----------------------------------------------------------------------------
(* Requests.                                                               *)

FirstStep == [path |-> "update", json |-> "update", batch |-> "update",
              value |-> "read", get |-> "read", list |-> "list"]

Answer(h, code, noBody) ==
  /\ at' = [at EXCEPT ![h] = "answer"]
  /\ status' = [status EXCEPT ![h] = code]
  /\ blank' = [blank EXCEPT ![h] = noBody]

\* The handler is called; a body that does not parse is answered at once.
Begin(h, r, parses) ==
  /\ served < MaxRequests
  /\ served' = served + 1
  /\ req' = [req EXCEPT ![h] = r]
  /\ todo' = [todo EXCEPT ![h] = r.items]
  /\ result' = [result EXCEPT ![h] = {}]
  /\ existed' = [existed EXCEPT ![h] = {<<m.mtype, m.id>> : m \in Held}]
  /\ IF parses
     THEN /\ at' = [at EXCEPT ![h] = FirstStep[r.kind]]
          /\ status' = [status EXCEPT ![h] = 200]
          /\ blank' = [blank EXCEPT ![h] = FALSE]
          /\ asked' = IF FirstStep[r.kind] = "update"
                      THEN [n \in Names |-> asked[n] + Deltas(r, n)] ELSE asked
     ELSE Answer(h, 400, FALSE) /\ UNCHANGED asked
  /\ seen' = [seen EXCEPT ![h] = Held]
  /\ UNCHANGED storage

\* UpdateMetric for one metric, after the checks that the handler or
\* JSONUpdateMiddleware and UpdateMetric make of it.
Accepted(x) == x.mtype # "other" /\ x.val \notin {Invalid, Nil}

UpdateMetric(h) ==
  /\ at[h] = "update" /\ req[h].kind \in {"path", "json"}
  /\ LET x == Head(req[h].items)
     IN  IF ~Accepted(x)
         THEN Answer(h, 400, FALSE) /\ UNCHANGED <<storage, seen>>
         ELSE /\ Apply(x)
              /\ Sees(h, TRUE)
              /\ IF req[h].kind = "path" THEN Answer(h, 200, TRUE)
                 ELSE at' = [at EXCEPT ![h] = "read"] /\ UNCHANGED <<status, blank>>
  /\ UNCHANGED <<req, todo, result, existed, asked, served>>

\* MemStorage.UpdateMetricsBatch, one metric after the other, no lock around.
ApplyNext(h) ==
  /\ at[h] = "update" /\ req[h].kind = "batch"
  /\ Apply(Head(todo[h]))
  /\ LET last == Len(todo[h]) = 1
     IN  /\ todo' = [todo EXCEPT ![h] = IF last THEN req[h].items ELSE Tail(@)]
         /\ at' = IF last THEN [at EXCEPT ![h] = "read"] ELSE at
         /\ Sees(h, last)
  /\ UNCHANGED <<req, result, status, blank, existed, asked, served>>

\* Faulty variants: the answer repeats what the request had; a counter of 0
\* counts as missing; nobody looks whether there is one.
StoredOrGiven(x) == IF x.mtype = "counter" /\ x.val # Nil THEN x.val ELSE gauges[x.id]

Stored(x) == IF x.mtype = "counter" THEN counters[x.id] ELSE gauges[x.id]

FoundNonZero(x) == x.mtype # "other" /\ Stored(x) # Absent /\ Stored(x) # 0

FoundUnchecked(x) == x.mtype # "other"

Found(x) == x.mtype # "other" /\ Stored(x) # Absent

NotFound == [json |-> 500, value |-> 404, get |-> 404]

\* json.Marshal refuses NaN: gin has set the status and writes no body.
Unwritable(h, metrics) ==
  req[h].kind # "get" /\ \E m \in metrics : m.mtype = "gauge" /\ m.val = NaN

\* GetMetricValue after a single update, or for a request to read it; the
\* answer to a batch, one metric after the other, which skips what is missing.
ReadNext(h) ==
  /\ at[h] = "read"
  /\ LET x == Head(todo[h])
         got == result[h] \cup (IF Found(x) THEN {Metric(x.mtype, x.id, Stored(x))} ELSE {})
     IN  /\ result' = [result EXCEPT ![h] = got]
         /\ todo' = [todo EXCEPT ![h] = Tail(@)]
         /\ IF Len(todo[h]) > 1 THEN UNCHANGED <<at, status, blank>>
            ELSE IF req[h].kind # "batch" /\ ~Found(x)
            THEN Answer(h, NotFound[req[h].kind], req[h].kind = "get")
            ELSE Answer(h, 200, Unwritable(h, got))
  /\ UNCHANGED <<storage, req, seen, existed, asked, served>>

\* GetAllMetrics: sync.Map.Range visits a gauge; those stored since it began it
\* may or may not visit.
VisitGauge(h, n) ==
  /\ at[h] = "list" /\ gauges[n] # Absent /\ \A m \in result[h] : m.id # n
  /\ result' = [result EXCEPT ![h] = @ \cup {Metric("gauge", n, gauges[n])}]
  /\ UNCHANGED <<storage, at, req, todo, status, blank, seen, existed, asked, served>>

\* Then all counters at once, into the same map of names: a counter hides the
\* gauge of its name.
GetAllCounters(h) ==
  /\ at[h] = "list"
  /\ \A n \in Names : <<"gauge", n>> \in existed[h] => \E m \in result[h] : m.id = n
  /\ result' = [result EXCEPT ![h] =
       {m \in @ : counters[m.id] = Absent} \cup {m \in Held : m.mtype = "counter"}]
  /\ Answer(h, 200, FALSE)
  /\ UNCHANGED <<storage, req, todo, seen, existed, asked, served>>

\* The handler has returned and its answer is sent.
Done(h) ==
  /\ at' = [at EXCEPT ![h] = "idle"]
  /\ req' = [req EXCEPT ![h] = NoRequest]
  /\ result' = [result EXCEPT ![h] = {}]
  /\ seen' = [seen EXCEPT ![h] = {}]
  /\ existed' = [existed EXCEPT ![h] = {}]
  /\ UNCHANGED <<storage, todo, status, blank, asked, served>>

ServiceStep(h) ==
  \/ UpdateMetric(h) \/ ApplyNext(h) \/ ReadNext(h)
  \/ \E n \in Names : VisitGauge(h, n)
  \/ GetAllCounters(h)

-----------------------------------------------------------------------------
(* Properties.                                                             *)

\* However updates interleave, when none is under way every counter is the sum
\* of all deltas that were asked for, modulo 2^64: none is lost or added twice
\* (storage.go:40-45, 127-145).
SumsExact ==
  (\A h \in Handlers : at[h] # "update") =>
    \A n \in Names : Number(counters[n]) = Wrap(asked[n])

\* Every metric in an answer or on the page has a value that it held after the
\* request's own updates and before the answer: whole batches are applied before
\* the first metric is read back (service/metrics.go:57-88), so two items of one
\* name show no intermediate sum.
AnswersCurrent ==
  \A h \in Handlers : at[h] = "answer" /\ status[h] = 200 => result[h] \subseteq seen[h]

\* An answer leaves out nothing it should have: every metric that the request
\* has set, or, on the page, every name that was there when the listing began,
\* though others update meanwhile and a counter may hide a gauge
\* (service/metrics.go:62-88, 127-139).
AnswersComplete ==
  \A h \in Handlers : at[h] = "answer" /\ status[h] = 200 =>
    CASE req[h].kind = "list" -> \A old \in existed[h] : \E m \in result[h] : m.id = old[2]
      [] req[h].kind = "path" -> TRUE
      [] OTHER -> \A k \in DOMAIN req[h].items :
           Accepted(req[h].items[k]) =>
             \E m \in result[h] : m.id = req[h].items[k].id /\ m.mtype = req[h].items[k].mtype
=============================================================================
