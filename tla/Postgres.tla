------------------------------ MODULE Postgres ------------------------------
(***************************************************************************)
(* PostgresStorage (internal/app/server/repository/postgres_storage.go) as *)
(* the HTTP handlers use it through MetricsService: an update under the    *)
(* write lock, retried while the error counts as temporary, and then reads *)
(* of the same metrics, each under a read lock of its own.                 *)
(*                                                                         *)
(* The database is external: a statement or a transaction takes effect as  *)
(* a whole or not at all, and an answer may get lost after it took effect. *)
(* All metrics share one table whose key is the name alone, so an update   *)
(* of the other type turns a gauge into a counter and back.                *)
(***************************************************************************)
EXTENDS Integers, Sequences, SequencesExt, Retry

CONSTANTS
  Handlers, NoOne,
  Ids,             \* metric names
  Requests,        \* what clients send, see RequestOK
  GaugeValues, Blank,   \* strings that parse; the empty string
  Nil,             \* no delta or value in a batch's item
  MaxInt,          \* the largest int64 and BIGINT
  MaxRequests,     \* bound: requests
  MaxFaults        \* bound: failing database calls

MinInt == -MaxInt - 1
Int64 == MinInt..MaxInt

Types == [counter |-> Int64 \cup {Nil}, gauge |-> GaugeValues \cup {Nil},
          other |-> Int64 \cup GaugeValues \cup {Nil}]

Items == UNION {[id : Ids, mtype : {t}, val : Types[t]] : t \in DOMAIN Types}

\* POST /update/:type/:name/:value, POST /update/, POST /updates/, GET /value,
\* GET /, with bodies that parse; single updates have a type and a value.
RequestOK(r) ==
  /\ r.kind \in {"path", "json", "batch", "value", "list"}
  /\ r.items \in Seq(Items)
  /\ r.kind = "list" <=> r.items = <<>>
  /\ r.kind \in {"path", "json", "value"} =>
       /\ Len(r.items) = 1
       /\ r.items[1].val # Nil /\ r.items[1].mtype # "other"

ASSUME PostgresAssumption ==
  /\ NoOne \notin Handlers /\ IsFiniteSet(Handlers)
  /\ MaxInt \in Nat /\ MaxRequests \in Nat /\ MaxFaults \in Nat
  /\ Blank \notin GaugeValues /\ Nil \notin GaugeValues \cup Int64
  /\ \A r \in Requests : RequestOK(r)

VARIABLES
  table,      \* the metrics table: a row for each name
  mu,         \* PostgresStorage.mu: the writer
  pc, req,    \* where each handler is, and its request
  todo,       \* items whose current value a batch's answer still needs
  attempt,    \* DoWithRetry
  page,       \* GetAllMetrics: the names collected so far
  answer,     \* the status of each handler's last answer
  mustList,   \* history: names that a listing in progress has to show
  fate,       \* history: has the update of h's request taken effect, and is
              \*   that known: "none", "lost", "done"
  overtaken,  \* history: since then another request changed h's metric, or
              \*   h could not read it
  asked,      \* history: the sum of the deltas of all requests, per name
  promised,   \* history: that of the updates that succeeded
  lost,       \* history: that of the updates whose answer was lost
  served, faults

observed == <<mustList, fate, overtaken>>
history == <<observed, asked, promised, lost>>
vars == <<table, mu, pc, req, todo, attempt, page, answer, history, served, faults>>

Absent == [mtype |-> "absent", ivalue |-> 0, graw |-> Blank]
NoRequest == [kind |-> "none", items |-> <<>>]

Writes(r) == r.kind \in {"path", "json", "batch"}

\* Errors: of the network, which DoWithRetry retries; of PostgreSQL, which come
\* as pgx v5's PgError while IsRetriablePGError looks for pgconn v1's.
Refused == [is |-> {"net.Error"}, timeout |-> FALSE, says |-> "connection refused"]
Reset == [is |-> {"net.Error"}, timeout |-> FALSE, says |-> "connection reset"]
Class08 == [is |-> {}, timeout |-> FALSE, says |-> "08"]
OtherError == [is |-> {}, timeout |-> FALSE, says |-> "other"]

Init ==
  /\ table = [i \in Ids |-> Absent]
  /\ mu = NoOne
  /\ pc = [h \in Handlers |-> "idle"]
  /\ req = [h \in Handlers |-> NoRequest]
  /\ todo = [h \in Handlers |-> <<>>]
  /\ attempt = [h \in Handlers |-> 0]
  /\ page = [h \in Handlers |-> {}]
  /\ answer = [h \in Handlers |-> "none"]
  /\ mustList = [h \in Handlers |-> {}]
  /\ fate = [h \in Handlers |-> "none"]
  /\ overtaken = [h \in Handlers |-> FALSE]
  /\ asked = [i \in Ids |-> 0] /\ promised = [i \in Ids |-> 0]
  /\ lost = [i \in Ids |-> 0] /\ served = 0 /\ faults = 0

-----------------------------------------------------------------------------
(* What an update does to the table.                                       *)

Touches(items, i, t) == \E k \in DOMAIN items : items[k].id = i /\ items[k].mtype = t

\* int64 addition in Go.
Wrap(n) == ((n - MinInt) % (2 * MaxInt + 2)) + MinInt

DeltaOf(x, i) == IF x.id = i /\ x.mtype = "counter" /\ x.val # Nil THEN x.val ELSE 0

\* Faulty variant: the first delta of a name is counted when its entry is made
\* and once more.
DeltasFirstTwice(items, i) ==
  LET sum[k \in 0..Len(items)] ==
        IF k = 0 THEN 0
        ELSE Wrap(sum[k - 1] + DeltaOf(items[k], i) *
                    (IF Touches(SubSeq(items, 1, k - 1), i, "counter") THEN 1 ELSE 2))
  IN  sum

\* deduped: deltas of a name are added up, of its values the last one counts,
\* and a gauge that has none is set to the empty string.
Deltas(items, i) ==
  LET sum[k \in 0..Len(items)] ==
        IF k = 0 THEN 0 ELSE Wrap(sum[k - 1] + DeltaOf(items[k], i))
  IN  sum

Delta(items, i) == Deltas(items, i)[Len(items)]

RawValue(items, i) ==
  LET given == {k \in DOMAIN items :
                  items[k].id = i /\ items[k].mtype = "gauge" /\ items[k].val # Nil}
  IN  IF given = {} THEN Blank ELSE items[Max(given)].val

\* Faulty variant: a row that becomes a gauge starts from EXCLUDED.ivalue.
UpsertResets(row, items, i) ==
  IF Touches(items, i, "counter")
  THEN [row EXCEPT !.mtype = "counter", !.ivalue = @ + Delta(items, i)]
  ELSE [mtype |-> "gauge", ivalue |-> 0, graw |-> RawValue(items, i)]

\* INSERT ... ON CONFLICT (id) DO UPDATE, of one metric or of a batch: the
\* column of the other type keeps what it has.
Upsert(row, items, i) ==
  IF Touches(items, i, "counter")
  THEN [row EXCEPT !.mtype = "counter", !.ivalue = @ + Delta(items, i)]
  ELSE [row EXCEPT !.mtype = "gauge", !.graw = RawValue(items, i)]

Touched(items) == {i \in Ids : Touches(items, i, "counter") \/ Touches(items, i, "gauge")}

Updated(items) ==
  [i \in Ids |-> IF i \in Touched(items) THEN Upsert(table[i], items, i) ELSE table[i]]

\* PostgreSQL refuses to update a row twice in one command and a sum that is
\* out of BIGINT's range.
Accepted(items) ==
  \A i \in Ids : /\ ~(Touches(items, i, "counter") /\ Touches(items, i, "gauge"))
                 /\ Updated(items)[i].ivalue \in Int64

-----------------------------------------------------------------------------
(* Requests and answers.                                                   *)

\* The deltas of a request, as the client means them.
MeantUpTo(items, i) ==
  LET sum[k \in 0..Len(items)] ==
        IF k = 0 THEN 0 ELSE sum[k - 1] + DeltaOf(items[k], i)
  IN  sum

Meant(items, i) == MeantUpTo(items, i)[Len(items)]

Add(sums, r) ==
  IF Writes(r) THEN [i \in Ids |-> sums[i] + Meant(r.items, i)] ELSE sums

FirstStep == [path |-> "lock", json |-> "lock", batch |-> "lock",
              value |-> "get", list |-> "gauges"]

Start(h, r) ==
  /\ pc[h] = "idle" /\ served < MaxRequests
  /\ served' = served + 1
  /\ req' = [req EXCEPT ![h] = r]
  /\ pc' = [pc EXCEPT ![h] = FirstStep[r.kind]]
  /\ todo' = [todo EXCEPT ![h] = r.items]
  /\ answer' = [answer EXCEPT ![h] = "none"]
  /\ mustList' = [mustList EXCEPT ![h] =
                    IF r.kind = "list" THEN {i \in Ids : table[i] # Absent} ELSE {}]
  /\ fate' = [fate EXCEPT ![h] = "none"]
  /\ overtaken' = [overtaken EXCEPT ![h] = FALSE]
  /\ asked' = Add(asked, r)
  /\ UNCHANGED <<table, mu, attempt, page, promised, lost, faults>>

Answer(h, status) ==
  /\ answer' = [answer EXCEPT ![h] = status]
  /\ pc' = [pc EXCEPT ![h] = "idle"]
  /\ req' = [req EXCEPT ![h] = NoRequest]
  /\ todo' = [todo EXCEPT ![h] = <<>>]

-----------------------------------------------------------------------------
(* UpdateGaugeRaw, UpdateCounter, UpdateMetricsBatch.                      *)

Unsupported(r) == \E k \in DOMAIN r.items : r.items[k].mtype = "other"

LockStorage(h) ==
  /\ pc[h] = "lock" /\ mu = NoOne
  /\ ~Unsupported(req[h])
  /\ mu' = h
  /\ pc' = [pc EXCEPT ![h] = "exec"]
  /\ UNCHANGED <<table, req, todo, attempt, page, answer, history, served, faults>>

\* A batch with an unknown type is rejected before anything is written.
RejectBatch(h) ==
  /\ pc[h] = "lock" /\ mu = NoOne
  /\ Unsupported(req[h])
  /\ Answer(h, "400")
  /\ UNCHANGED <<table, mu, attempt, page, history, served, faults>>

\* Faulty variant: the lock is only released after a success.
UnlockAfterSuccess(ok) == IF ok THEN NoOne ELSE mu

Unlock(ok) == NoOne

\* Faulty variant: gauges have their errors dropped too.
ReturnsBatchError(r) == r.kind = "batch"

\* UpdateCounter has no error to return: it prints it.
ReturnsError(r) == r.kind = "batch" \/ r.items[1].mtype = "gauge"

\* The storage method returns to the service.
Return(h, ok) ==
  /\ mu' = Unlock(ok)
  /\ attempt' = [attempt EXCEPT ![h] = 0]
  /\ promised' = IF ok THEN Add(promised, req[h]) ELSE promised
  /\ IF ~ok /\ ReturnsError(req[h]) THEN Answer(h, "400")
     ELSE IF req[h].kind = "path" THEN Answer(h, "200")
     ELSE pc' = [pc EXCEPT ![h] = "get"] /\ UNCHANGED <<req, todo, answer>>

\* Retried with mu still held.
ExecError(h, e) ==
  \/ /\ ShouldRetry(e, attempt[h])
     /\ attempt' = [attempt EXCEPT ![h] = @ + 1]
     /\ UNCHANGED <<mu, promised, pc, req, todo, answer>>
  \/ ~ShouldRetry(e, attempt[h]) /\ Return(h, FALSE)

\* The update of h takes effect.
Commit(h, known) ==
  /\ table' = Updated(req[h].items)
  /\ fate' = [fate EXCEPT ![h] = IF known THEN "done" ELSE "lost"]
  /\ mustList' = [g \in Handlers |->
                    {i \in mustList[g] : table'[i].mtype = table[i].mtype}]
  /\ overtaken' = [g \in Handlers |->
                     \/ overtaken[g]
                     \/ /\ g # h /\ fate[g] # "none"
                        /\ \E k \in DOMAIN req[g].items : req[g].items[k].id \in Touched(req[h].items)]

Exec(h) ==
  /\ pc[h] = "exec" /\ Accepted(req[h].items)
  /\ Commit(h, TRUE)
  /\ Return(h, TRUE)
  /\ UNCHANGED <<page, asked, lost, served, faults>>

ExecRejected(h) ==
  /\ pc[h] = "exec" /\ ~Accepted(req[h].items)
  /\ ExecError(h, OtherError)
  /\ UNCHANGED <<table, page, observed, asked, lost, served, faults>>

ExecFails(h, e) ==
  /\ pc[h] = "exec" /\ faults < MaxFaults
  /\ faults' = faults + 1
  /\ ExecError(h, e)
  /\ UNCHANGED <<table, page, observed, asked, lost, served>>

\* The connection breaks after the commit: the update is there, the answer not.
ExecAnswerLost(h) ==
  /\ pc[h] = "exec" /\ faults < MaxFaults /\ Accepted(req[h].items)
  /\ faults' = faults + 1 /\ lost' = Add(lost, req[h])
  /\ Commit(h, FALSE)
  /\ \E e \in {Reset, OtherError} : ExecError(h, e)
  /\ UNCHANGED <<page, asked, served>>

-----------------------------------------------------------------------------
(* Reads: each query is answered from one state of the table.              *)

\* The metric is there under its type, and a gauge parses.
Found(x) ==
  /\ table[x.id].mtype = x.mtype
  /\ x.mtype = "gauge" => table[x.id].graw # Blank

NotFound == [json |-> "500", value |-> "404"]

\* GetMetricValue after a single update, or for a request to read it; a query
\* that fails finds nothing.
GetOne(h) ==
  /\ pc[h] = "get" /\ mu = NoOne /\ req[h].kind \in {"json", "value"}
  /\ \/ Answer(h, IF Found(req[h].items[1]) THEN "200" ELSE NotFound[req[h].kind])
        /\ UNCHANGED <<overtaken, faults>>
     \/ /\ faults < MaxFaults /\ faults' = faults + 1
        /\ overtaken' = [overtaken EXCEPT ![h] = TRUE]
        /\ Answer(h, NotFound[req[h].kind])
  /\ UNCHANGED <<table, mu, attempt, page, mustList, fate, asked, promised, lost,
                 served>>

\* The answer to a batch: one metric after the other; one that is missing or
\* cannot be read is skipped.
GetNext(h) ==
  /\ pc[h] = "get" /\ mu = NoOne /\ req[h].kind = "batch"
  /\ IF Len(todo[h]) > 1
     THEN /\ todo' = [todo EXCEPT ![h] = Tail(@)]
          /\ UNCHANGED <<pc, req, answer>>
     ELSE Answer(h, "200")
  /\ UNCHANGED <<table, mu, attempt, page, history, served, faults>>

\* Faulty variant: a gauge that does not parse is left out.
NamedIfParsed(t) ==
  {i \in Ids : table[i].mtype = t /\ (t = "gauge" => table[i].graw # Blank)}

Named(t) == {i \in Ids : table[i].mtype = t}

\* GetAllGauges or GetAllCounters: the names of the type t, or those of them
\* that came before the query or the reading of its rows failed; nobody asks
\* for rows.Err().
List(h, t) ==
  \/ /\ page' = [page EXCEPT ![h] = @ \cup Named(t)]
     /\ UNCHANGED <<mustList, faults>>
  \/ /\ faults < MaxFaults /\ faults' = faults + 1
     /\ \E read \in SUBSET Named(t) :
          /\ page' = [page EXCEPT ![h] = @ \cup read]
          /\ mustList' = [mustList EXCEPT ![h] = @ \ (Named(t) \ read)]

GetAllGauges(h) ==
  /\ pc[h] = "gauges" /\ mu = NoOne
  /\ List(h, "gauge")
  /\ pc' = [pc EXCEPT ![h] = "counters"]
  /\ UNCHANGED <<table, mu, req, todo, attempt, answer, fate, overtaken, asked,
                 promised, lost, served>>

GetAllCounters(h) ==
  /\ pc[h] = "counters" /\ mu = NoOne
  /\ List(h, "counter")
  /\ pc' = [pc EXCEPT ![h] = "render"]
  /\ UNCHANGED <<table, mu, req, todo, attempt, answer, fate, overtaken, asked,
                 promised, lost, served>>

Render(h) ==
  /\ pc[h] = "render"
  /\ Answer(h, "200")
  /\ page' = [page EXCEPT ![h] = {}]
  /\ mustList' = [mustList EXCEPT ![h] = {}]
  /\ UNCHANGED <<table, mu, attempt, fate, overtaken, asked, promised, lost, served,
                 faults>>

-----------------------------------------------------------------------------
Writing(h) ==
  \/ LockStorage(h) \/ RejectBatch(h)
  \/ Exec(h) \/ ExecRejected(h) \/ ExecAnswerLost(h)
  \/ \E e \in {Refused, Class08} : ExecFails(h, e)

Reading(h) ==
  \/ GetOne(h) \/ GetNext(h)
  \/ GetAllGauges(h) \/ GetAllCounters(h) \/ Render(h)

Next ==
  \E h \in Handlers :
    \/ \E r \in Requests : Start(h, r)
    \/ Writing(h)
    \/ Reading(h)

Spec == Init /\ [][Next]_vars

\* A handler that can go on does: database calls return, and a lock that stays
\* free is taken.
FairSpec == Spec /\ \A h \in Handlers : WF_vars(Writing(h)) /\ WF_vars(Reading(h))

-----------------------------------------------------------------------------
(* Properties.                                                             *)

\* Every variable stays in its type.
TypeOK ==
  /\ table \in [Ids -> [mtype : {"absent", "counter", "gauge"}, ivalue : Int64,
                        graw : GaugeValues \cup {Blank}]]
  /\ mu \in Handlers \cup {NoOne}
  /\ pc \in [Handlers -> {"idle", "lock", "exec", "get", "gauges", "counters", "render"}]
  /\ req \in [Handlers -> Requests \cup {NoRequest}]
  /\ todo \in [Handlers -> Seq(Items)]
  /\ attempt \in [Handlers -> 0..Backoffs]
  /\ page \in [Handlers -> SUBSET Ids] /\ mustList \in [Handlers -> SUBSET Ids]
  /\ fate \in [Handlers -> {"none", "lost", "done"}]
  /\ overtaken \in [Handlers -> BOOLEAN]
  /\ answer \in [Handlers -> {"none", "200", "400", "404", "500"}]
  /\ DOMAIN asked = Ids /\ DOMAIN promised = Ids /\ DOMAIN lost = Ids
  /\ served \in Nat /\ faults \in Nat

\* The deltas of updates that succeeded are in the table, though the name was a
\* gauge in between and though another update ran into a retry.  (Deltas are
\* not negative in the runs.)
NothingLost == \A i \in Ids : promised[i] <= table[i].ivalue

\* A retry may count an update again whose answer got lost after it took effect
\* (postgres_storage.go:121, 246), once for each answer lost; nothing else lifts
\* a counter above what clients asked for.
NothingInvented == \A i \in Ids : table[i].ivalue <= asked[i] + lost[i]

\* Every request that waits for the storage gets its answer, whatever the
\* retries of others under the lock (postgres_storage.go:67-68, 111-112, 153-154).
EveryUpdateAnswered ==
  \A h \in Handlers : pc[h] = "lock" ~> answer[h] # "none"

\* The page is made of two queries with updates between them (service/metrics.go:
\* 121-142): it still shows every name that was there when the listing began,
\* unless the name changed its type since or a query failed on it.
ListedUnlessFlipped ==
  \A h \in Handlers : pc[h] = "render" => mustList[h] \subseteq page[h]

\* What an answer says of the update it answers, through lost answers, retries
\* and updates by others between the write and the read (postgres_storage.go:72,
\* 121, 246): 200 to a gauge or a batch means that it took effect, 400 that it
\* is not known to have, and 500 that it did not or that somebody changed the
\* metric since.
Honest(h, r, status) ==
  /\ status = "200" /\ (r.kind = "batch" \/ (Writes(r) /\ r.items[1].mtype = "gauge"))
       => fate'[h] # "none"
  /\ status = "400" => fate'[h] # "done"
  /\ status = "500" => fate'[h] = "none" \/ overtaken'[h]

AnswersHonest ==
  [][\A h \in Handlers : req[h] # NoRequest /\ req'[h] = NoRequest
                           => Honest(h, req[h], answer'[h])]_vars

\* "IsRetriablePGError checks whether a PostgreSQL error is of category 08"
\* (retry.go:38), so that DoWithRetry tries again after one while it has
\* attempts left.
Class08Retried ==
  [][\A h \in Handlers : ExecFails(h, Class08) /\ attempt[h] < Backoffs
                           => attempt'[h] = attempt[h] + 1]_vars

\* What is stored as a gauge was checked to be a number before
\* (service/metrics.go:79, "no error expected, as we checked before").
GaugesParse ==
  \A i \in Ids : table[i].mtype = "gauge" => table[i].graw \in GaugeValues
=============================================================================
