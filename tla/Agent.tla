------------------------------- MODULE Agent -------------------------------
(***************************************************************************)
(* The agent (internal/app/agent): two goroutines collect metrics, one puts*)
(* snapshots of them on the channel sendCh, RateLimit workers post them in *)
(* batches to the server and retry while the error counts as temporary.    *)
(*                                                                         *)
(* The server and the network are seen from here: a request that was sent  *)
(* is handled some time later, even after its connection has broken, and   *)
(* handling it adds PollCount to the server's counter.  What the server    *)
(* does inside is in FileStorage and Postgres; of its middleware only the  *)
(* check of the signature matters.                                         *)
(*                                                                         *)
(* A report is a snapshot, named by its number in the order they are made. *)
(***************************************************************************)
EXTENDS Integers, Sequences, FiniteSets, Retry

CONSTANTS
  RateLimit,
  AgentKey, ServerKey,          \* flag -k on either side
  NoKey, NoneKey,               \* the keys "" and "none"
  MaxPolls,        \* bound: collections of either kind
  MaxReports,      \* bound: reports
  MaxFaults        \* bound: failing calls

ASSUME AgentAssumption ==
  /\ RateLimit \in Nat
  /\ MaxPolls \in Nat /\ MaxReports \in Nat /\ MaxFaults \in Nat

VARIABLES
  data,       \* Metrics.Data: PollCount, which also stands for the runtime
              \* metrics of that poll, and how often system metrics were read
  reports,    \* the snapshots taken
  offering,   \* the reporter is at sendCh <- snapshot
  sendCh,
  worker,     \* what each worker does, and with which report
  attempt,    \* DoWithRetry
  net,        \* requests on their way or being handled
  answers,    \* answers on their way
  pollTotal,  \* the server's counter PollCount
  applied,    \* history: how often the server has applied each report
  unstored,   \* history: the reports whose batch the storage failed on
  done,       \* history: the reports that workers are finished with
  delivered,  \* history: those that they hold for delivered
  faults

vars == <<data, reports, offering, sendCh, worker, attempt, net, answers,
          pollTotal, applied, unstored, done, delivered, faults>>

\* Faulty variant: one worker too many.
WorkersOneMore == 0..RateLimit

Workers == 1..RateLimit

Idle == [at |-> "idle", report |-> 0]

\* What http.Client.Do returns; and the error made of a status of 500 or more.
Refused == [is |-> {"net.Error"}, timeout |-> FALSE, says |-> "connection refused"]
Reset == [is |-> {"net.Error"}, timeout |-> FALSE, says |-> "connection reset"]
OtherError == [is |-> {}, timeout |-> FALSE, says |-> "other"]

Init ==
  /\ data = [poll |-> 0, sys |-> 0]
  /\ reports = <<>> /\ offering = FALSE /\ sendCh = <<>>
  /\ worker = [w \in Workers |-> Idle]
  /\ attempt = [w \in Workers |-> 0]
  /\ net = {} /\ answers = {}
  /\ pollTotal = 0
  /\ applied = [r \in 1..MaxReports |-> 0]
  /\ unstored = {} /\ done = {} /\ delivered = {}
  /\ faults = 0

Fault == faults < MaxFaults /\ faults' = faults + 1

-----------------------------------------------------------------------------
(* Collector and reporter.                                                 *)

\* One poll: all runtime metrics and PollCount, under the lock.
Collect ==
  /\ data.poll < MaxPolls
  /\ data' = [data EXCEPT !.poll = @ + 1]
  /\ UNCHANGED <<reports, offering, sendCh, worker, attempt, net, answers,
                 pollTotal, applied, unstored, done, delivered, faults>>

CollectSystemMetrics ==
  /\ data.sys < MaxPolls
  /\ data' = [data EXCEPT !.sys = @ + 1]
  /\ UNCHANGED <<reports, offering, sendCh, worker, attempt, net, answers,
                 pollTotal, applied, unstored, done, delivered, faults>>

\* The report ticker fires: GetAll copies the metrics under the lock.
TakeSnapshot ==
  /\ ~offering /\ Len(reports) < MaxReports
  /\ reports' = Append(reports, data)
  /\ offering' = TRUE
  /\ UNCHANGED <<data, sendCh, worker, attempt, net, answers, pollTotal,
                 applied, unstored, done, delivered, faults>>

\* Faulty variant: a report that finds the channel full is dropped.
QueuedOrDropped ==
  sendCh' = IF Len(sendCh) < RateLimit THEN Append(sendCh, Len(reports)) ELSE sendCh

\* The reporter blocks while the channel is full.
Queued == Len(sendCh) < RateLimit /\ sendCh' = Append(sendCh, Len(reports))

Offer ==
  /\ offering /\ Queued
  /\ offering' = FALSE
  /\ UNCHANGED <<data, reports, worker, attempt, net, answers, pollTotal,
                 applied, unstored, done, delivered, faults>>

-----------------------------------------------------------------------------
(* A worker: SendBatch and sendRequestWithRetry.                           *)

EmptySnapshot(r) == reports[r].poll = 0 /\ reports[r].sys = 0

\* Without metrics SendBatch returns at once.
TakeReport(w) ==
  /\ worker[w].at = "idle" /\ sendCh # <<>>
  /\ sendCh' = Tail(sendCh)
  /\ IF EmptySnapshot(Head(sendCh))
     THEN UNCHANGED worker
     ELSE worker' = [worker EXCEPT ![w] = [at |-> "call", report |-> Head(sendCh)]]
  /\ UNCHANGED <<data, reports, offering, attempt, net, answers, pollTotal,
                 applied, unstored, done, delivered, faults>>

\* Faulty variant: the first attempt has read the body to its end.
BodyLeft(w) == attempt[w] = 0

\* Every attempt posts the whole body: it was read once and is put back.
BodyRestored(w) == TRUE

\* An attempt of a worker on a report names its request and its answer.
Request(w) == [report |-> worker[w].report, attempt |-> attempt[w],
               whole |-> BodyRestored(w)]

Post(w) ==
  /\ worker[w].at = "call"
  /\ net' = net \cup {Request(w)}
  /\ worker' = [worker EXCEPT ![w].at = "wait"]
  /\ UNCHANGED <<data, reports, offering, sendCh, attempt, answers, pollTotal,
                 applied, unstored, done, delivered, faults>>

\* Faulty variant: a worker ends with the first report it cannot deliver.
AfterReportOrExit(ok) == IF ok THEN Idle ELSE [at |-> "exited", report |-> 0]

AfterReport(ok) == Idle

\* SendBatch returns; it has only logged an error.
Finish(w, ok) ==
  /\ worker' = [worker EXCEPT ![w] = AfterReport(ok)]
  /\ attempt' = [attempt EXCEPT ![w] = 0]
  /\ done' = done \cup {worker[w].report}
  /\ delivered' = IF ok THEN delivered \cup {worker[w].report} ELSE delivered

CallError(w, e) ==
  \/ /\ ShouldRetry(e, attempt[w])
     /\ attempt' = [attempt EXCEPT ![w] = @ + 1]
     /\ worker' = [worker EXCEPT ![w].at = "call"]
     /\ UNCHANGED <<done, delivered>>
  \/ ~ShouldRetry(e, attempt[w]) /\ Finish(w, FALSE)

CallFails(w) ==
  /\ worker[w].at = "call" /\ Fault
  /\ \E e \in {Refused, OtherError} : CallError(w, e)
  /\ UNCHANGED <<data, reports, offering, sendCh, net, answers, pollTotal, applied,
                 unstored>>

\* The connection breaks; the server may have the request, and its answer is
\* lost.
ConnectionBreaks(w) ==
  /\ worker[w].at = "wait" /\ Fault
  /\ net' \in {net, net \ {Request(w)}}
  /\ answers' = {a \in answers : a.to # Request(w)}
  /\ \E e \in {Reset, OtherError} : CallError(w, e)
  /\ UNCHANGED <<data, reports, offering, sendCh, pollTotal, applied, unstored>>

\* Any status below 500 counts as a success.
Receive(w) ==
  /\ worker[w].at = "wait"
  /\ \E a \in answers :
       /\ a.to = Request(w)
       /\ answers' = answers \ {a}
       /\ IF a.status >= 500 THEN CallError(w, OtherError) ELSE Finish(w, TRUE)
  /\ UNCHANGED <<data, reports, offering, sendCh, net, pollTotal, applied, unstored,
                 faults>>

-----------------------------------------------------------------------------
(* The server.                                                             *)

NoHeader == [key |-> NoKey, over |-> "nothing", as |-> "nothing"]

\* Header HashSHA256: base64 of the HMAC of the JSON, before it is compressed.
SentHash ==
  IF AgentKey = NoKey THEN NoHeader
  ELSE [key |-> AgentKey, over |-> "json", as |-> "base64"]

\* Hex of the HMAC of the body as it came over the network, compressed.
ComputedHash == [key |-> ServerKey, over |-> "gzip", as |-> "hex"]

\* Without a key, and with the key "none", the server checks no signature.
HashAccepted == ServerKey \in {NoKey, NoneKey} \/ SentHash = NoHeader \/ SentHash = ComputedHash

\* The answer goes to whoever still waits for it.
Reply(m, status) ==
  answers' = IF \E w \in Workers : worker[w].at = "wait" /\ Request(w) = m
             THEN answers \cup {[to |-> m, status |-> status]}
             ELSE answers

\* A request takes effect; how often a storage that retries carries it out is
\* in Postgres.
Apply(m) ==
  /\ pollTotal' = pollTotal + reports[m.report].poll
  /\ applied' = [applied EXCEPT ![m.report] = @ + 1]

\* A body that is not whole does not parse.
Handle(m) ==
  /\ m \in net
  /\ net' = net \ {m}
  /\ IF HashAccepted /\ m.whole
     THEN Apply(m) /\ Reply(m, 200)
     ELSE Reply(m, 400) /\ UNCHANGED <<pollTotal, applied>>
  /\ UNCHANGED <<data, reports, offering, sendCh, worker, attempt, unstored, done,
                 delivered, faults>>

\* The storage fails for good: the database is away, or only its answer is lost
\* and the batch took effect.  updateBatchHandler answers any error with 400.
StorageFails(m) ==
  /\ m \in net /\ HashAccepted /\ m.whole /\ Fault
  /\ net' = net \ {m}
  /\ Apply(m) \/ UNCHANGED <<pollTotal, applied>>
  /\ unstored' = unstored \cup {m.report}
  /\ Reply(m, 400)
  /\ UNCHANGED <<data, reports, offering, sendCh, worker, attempt, done, delivered>>

\* The server, or something between, fails to handle the request.
HandleFails(m) ==
  /\ m \in net /\ Fault
  /\ net' = net \ {m}
  /\ Reply(m, 500)
  /\ UNCHANGED <<data, reports, offering, sendCh, worker, attempt, pollTotal,
                 applied, unstored, done, delivered>>

-----------------------------------------------------------------------------
Working(w) ==
  TakeReport(w) \/ Post(w) \/ CallFails(w) \/ ConnectionBreaks(w) \/ Receive(w)

Next ==
  \/ Collect \/ CollectSystemMetrics
  \/ TakeSnapshot \/ Offer
  \/ \E w \in Workers : Working(w)
  \/ \E m \in net : Handle(m) \/ StorageFails(m) \/ HandleFails(m)

Spec == Init /\ [][Next]_vars

\* Goroutines that can run do; the server handles what it gets, for the client
\* has no timeout.
FairSpec ==
  /\ Spec
  /\ WF_vars(Offer)
  /\ \A w \in Workers : WF_vars(Working(w))
  /\ WF_vars(\E m \in net : Handle(m) \/ StorageFails(m) \/ HandleFails(m))

-----------------------------------------------------------------------------
(* Properties.                                                             *)

Taken == 1..Len(reports)

\* Every variable stays in its type; no worker makes more than Backoffs + 1
\* attempts, and never more than RateLimit snapshots queue up.
TypeOK ==
  /\ data \in [poll : 0..MaxPolls, sys : 0..MaxPolls]
  /\ \A r \in Taken : reports[r] \in [poll : 0..MaxPolls, sys : 0..MaxPolls]
  /\ offering \in BOOLEAN
  /\ Len(sendCh) <= RateLimit /\ \A i \in DOMAIN sendCh : sendCh[i] \in Taken
  /\ worker \in [Workers -> [at : {"idle", "call", "wait"}, report : 0..MaxReports]]
  /\ attempt \in [Workers -> 0..Backoffs]
  /\ net \subseteq [report : Taken, attempt : 0..Backoffs, whole : BOOLEAN]
  /\ \A a \in answers : a.to.report \in Taken /\ a.status \in {200, 400, 500}
  /\ pollTotal \in Nat /\ applied \in [1..MaxReports -> Nat]
  /\ unstored \subseteq Taken
  /\ done \subseteq Taken /\ delivered \subseteq done /\ faults \in Nat

\* Retries may apply a report again, since the server cannot tell: but never
\* more often than calls have failed, nor than DoWithRetry tries (sender.go:73-86).
AppliedBounded ==
  \A r \in Taken : applied[r] <= 1 + faults /\ applied[r] <= 1 + Backoffs

\* While no call fails, fewer than RateLimit earlier reports are still to come
\* when one is applied: the workers take them in order, one each.  With
\* RateLimit 1 the server's gauges never go back.
OvertakingBounded ==
  faults = 0 =>
    \A r \in Taken : applied[r] > 0 =>
      Cardinality({q \in 1..(r - 1) : ~EmptySnapshot(q) /\ applied[q] = 0}) < RateLimit

\* "Sender is responsible for sending metrics to the server with gzip and HMAC
\* signature" (sender.go:26): a report that a worker holds for delivered, at the
\* first attempt or after failed ones, was applied by the server, unless the
\* storage failed on it: that is answered 400 (handlers.go:105-108), and the
\* sender takes every status below 500 for a success (sender.go:80).
ReportApplied == \A r \in delivered : applied[r] > 0 \/ r \in unstored

\* No report is dropped: each one that has metrics reaches a worker and comes
\* to an end, however many before it failed.
ReportsFinish ==
  \A r \in 1..MaxReports : r \in Taken /\ ~EmptySnapshot(r) ~> r \in done

\* "Collect ... updates the counter of polls" (collector.go:25-26): the total
\* that the server keeps of it never exceeds the number of polls.
PollsNotOvercounted == pollTotal <= data.poll
=============================================================================
