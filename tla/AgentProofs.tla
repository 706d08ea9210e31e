----------------------------- MODULE AgentProofs -----------------------------
(***************************************************************************)
(* What Agent guarantees for any number of workers, polls, reports, failing*)
(* calls and pauses: how often the server can apply a report, that one held*)
(* for delivered was applied, and how far reports can overtake each other. *)
(***************************************************************************)
EXTENDS Agent, FiniteSetTheorems, SequenceTheorems, TLAPS

-----------------------------------------------------------------------------
(* The invariant.                                                          *)

Sample == [poll : 0..MaxPolls, sys : 0..MaxPolls]

DataTyped == data \in Sample /\ reports \in Seq(Sample) /\ Len(reports) <= MaxReports

QueueTyped == offering \in BOOLEAN /\ sendCh \in Seq(Nat) /\ Len(sendCh) <= RateLimit

\* How many reports the reporter has put on the channel, and how many of them
\* workers have taken off it.
Offered == IF offering THEN Len(reports) - 1 ELSE Len(reports)
Started == Offered - Len(sendCh)

\* The channel holds the others, in their order.
QueueInv ==
  /\ Started >= 0 /\ (offering => Len(reports) >= 1)
  /\ \A i \in 1..Len(sendCh) : sendCh[i] = Started + i

WorkerTyped ==
  /\ worker \in [Workers -> [at : {"idle", "call", "wait"}, report : 0..MaxReports]]
  /\ attempt \in [Workers -> 0..Backoffs]

Messages == [report : 1..MaxReports, attempt : 0..Backoffs, whole : {TRUE}]

NetTyped ==
  /\ net \in SUBSET Messages /\ IsFiniteSet(net)
  /\ \A a \in answers : a.to \in Messages /\ a.status \in {200, 400, 500}

HistoryTyped == pollTotal \in Nat /\ applied \in [1..MaxReports -> Nat] /\ faults \in Nat

Typed == DataTyped /\ QueueTyped /\ QueueInv /\ WorkerTyped /\ NetTyped /\ HistoryTyped

Holds(w, r) == worker[w].at # "idle" /\ worker[w].report = r

\* No two workers hold the same report.
HoldInv ==
  /\ \A w \in Workers : worker[w].at # "idle" => worker[w].report \in 1..Started
  /\ \A v, w \in Workers, r \in 1..MaxReports : Holds(v, r) /\ Holds(w, r) => v = w

\* A report that was taken and has metrics is held or done, and since it was
\* taken one worker has held none that is older.
PlaceInv ==
  /\ done \subseteq 1..Started /\ delivered \subseteq done /\ unstored \subseteq 1..Started
  /\ \A r \in 1..Started :
       /\ EmptySnapshot(r) \/ r \in done \/ \E w \in Workers : Holds(w, r)
       /\ \E w \in Workers : \A q \in 1..(r - 1) : ~Holds(w, q)
  /\ \A m \in net : m.report <= Started
  /\ \A a \in answers : a.to.report <= Started

\* How often a report was applied or may still be.
Requests(r) == {m \in net : m.report = r}
CountOf(r) == applied[r] + Cardinality(Requests(r))

CountInv ==
  /\ \A w \in Workers : attempt[w] <= faults
  /\ \A w \in Workers, r \in 1..MaxReports :
       Holds(w, r) => CountOf(r) <= attempt[w] + (IF worker[w].at = "call" THEN 0 ELSE 1)
  /\ \A r \in 1..MaxReports : CountOf(r) <= 1 + Backoffs /\ CountOf(r) <= 1 + faults
  /\ \A r \in 1..MaxReports : r > Started => CountOf(r) = 0

\* What an answer says, and what is true of a report that is done.
AnswerInv ==
  /\ \A a \in answers : /\ a.status = 200 => applied[a.to.report] > 0
                        /\ a.status = 400 => ~HashAccepted \/ a.to.report \in unstored
                        /\ a.status = 500 => faults > 0
  /\ HashAccepted => \A r \in delivered : applied[r] > 0 \/ r \in unstored
  /\ HashAccepted /\ faults = 0 => \A r \in done : applied[r] > 0
  /\ faults = 0 => unstored = {}
  /\ ~HashAccepted => \A r \in 1..MaxReports : applied[r] = 0

-----------------------------------------------------------------------------
(* What the steps of a worker come to.                                     *)

\* It tries again after a call that failed.
Retries(w) ==
  /\ worker[w].at # "idle" /\ attempt[w] < Backoffs
  /\ attempt' = [attempt EXCEPT ![w] = @ + 1]
  /\ worker' = [worker EXCEPT ![w].at = "call"]
  /\ faults' = faults + 1
  /\ net' \subseteq net /\ answers' \subseteq answers
  /\ UNCHANGED <<data, reports, offering, sendCh, pollTotal, applied, unstored, done,
                 delivered>>

\* It is done with its report: answered, or given up.
Ends(w, ok) ==
  /\ worker[w].at # "idle" /\ Finish(w, ok)
  /\ net' \subseteq net /\ answers' \subseteq answers
  /\ IF ok THEN faults' = faults /\ \E a \in answers :
                  a.to.report = worker[w].report /\ a.status < 500
     ELSE \/ faults' = faults + 1
          \/ faults' = faults /\ \E a \in answers : a.status >= 500
  /\ UNCHANGED <<data, reports, offering, sendCh, pollTotal, applied, unstored>>

\* An error other than a refused or broken connection is never tried again.
LEMMA OtherIsFinal == \A n : ~ShouldRetry(OtherError, n)
BY DEF ShouldRetry, Retriable, IsRetriableNetError, IsRetriablePGError, IsRetriableFileError,
       OtherError

LEMMA ErrorLeadsOn ==
  ASSUME WorkerTyped, NEW w \in Workers, NEW e, worker[w].at # "idle", CallError(w, e)
  PROVE  \/ /\ attempt[w] < Backoffs
            /\ attempt' = [attempt EXCEPT ![w] = @ + 1]
            /\ worker' = [worker EXCEPT ![w].at = "call"]
            /\ UNCHANGED <<done, delivered>>
         \/ Finish(w, FALSE)
BY DEF CallError, ShouldRetry

LEMMA WorkerSteps ==
  ASSUME WorkerTyped, NetTyped, NEW w \in Workers, Working(w)
  PROVE  TakeReport(w) \/ Post(w) \/ Retries(w) \/ Ends(w, TRUE) \/ Ends(w, FALSE)
<1>1. CASE CallFails(w)
  <2>1. PICK e : CallError(w, e)
    BY <1>1 DEF CallFails
  <2>2. /\ worker[w].at # "idle" /\ faults' = faults + 1
        /\ UNCHANGED <<data, reports, offering, sendCh, net, answers, pollTotal, applied, unstored>>
    BY <1>1 DEF CallFails, Fault
  <2>3. \/ /\ attempt[w] < Backoffs
           /\ attempt' = [attempt EXCEPT ![w] = @ + 1]
           /\ worker' = [worker EXCEPT ![w].at = "call"]
           /\ UNCHANGED <<done, delivered>>
        \/ Finish(w, FALSE)
    BY <2>1, <2>2, ErrorLeadsOn
  <2>. QED
    BY <2>2, <2>3 DEF Retries, Ends
<1>2. CASE ConnectionBreaks(w)
  <2>1. PICK e : CallError(w, e)
    BY <1>2 DEF ConnectionBreaks
  <2>2. /\ worker[w].at # "idle" /\ faults' = faults + 1
        /\ net' \subseteq net /\ answers' \subseteq answers
        /\ UNCHANGED <<data, reports, offering, sendCh, pollTotal, applied, unstored>>
    BY <1>2 DEF ConnectionBreaks, Fault
  <2>3. \/ /\ attempt[w] < Backoffs
           /\ attempt' = [attempt EXCEPT ![w] = @ + 1]
           /\ worker' = [worker EXCEPT ![w].at = "call"]
           /\ UNCHANGED <<done, delivered>>
        \/ Finish(w, FALSE)
    BY <2>1, <2>2, ErrorLeadsOn
  <2>. QED
    BY <2>2, <2>3 DEF Retries, Ends
<1>3. CASE Receive(w)
  <2>1. PICK a \in answers :
          /\ a.to = Request(w) /\ answers' = answers \ {a}
          /\ IF a.status >= 500 THEN CallError(w, OtherError) ELSE Finish(w, TRUE)
    BY <1>3 DEF Receive
  <2>2. /\ worker[w].at # "idle" /\ faults' = faults /\ net' = net
        /\ UNCHANGED <<data, reports, offering, sendCh, pollTotal, applied, unstored>>
    BY <1>3 DEF Receive
  <2>3. CASE a.status >= 500
    <3>1. Finish(w, FALSE)
      BY <2>1, <2>3, OtherIsFinal DEF CallError
    <3>. QED
      BY <2>1, <2>2, <2>3, <3>1 DEF Ends
  <2>4. CASE ~(a.status >= 500)
    <3>1. a.to.report = worker[w].report
      BY <2>1 DEF Request
    <3>2. Finish(w, TRUE)
      BY <2>1, <2>4
    <3>3. a.status < 500
      <4>1. a.status \in {200, 400, 500}
        BY DEF NetTyped
      <4>. QED
        BY <2>4, <4>1
    <3>. QED
      BY <2>1, <2>2, <3>1, <3>2, <3>3 DEF Ends
  <2>. QED
    BY <2>3, <2>4
<1>. QED
  BY <1>1, <1>2, <1>3 DEF Working

-----------------------------------------------------------------------------
(* Reports, and the channel.                                               *)

\* The report that a worker takes is the oldest that none has taken.
LEMMA Taking ==
  ASSUME DataTyped, QueueTyped, QueueInv, NEW w \in Workers, TakeReport(w)
  PROVE  /\ Head(sendCh) = Started + 1 /\ Started + 1 \in 1..Len(reports)
         /\ Started' = Started + 1 /\ QueueTyped' /\ QueueInv'
<1>1. sendCh # <<>> /\ sendCh' = Tail(sendCh) /\ UNCHANGED <<reports, offering>>
  BY DEF TakeReport
<1>2. sendCh \in Seq(Nat) /\ Len(sendCh) \in Nat /\ Len(sendCh) >= 1
  BY <1>1, EmptySeq DEF QueueTyped
<1>3. Len(reports) \in Nat /\ Offered \in Int /\ Offered <= Len(reports) /\ Offered' = Offered
  BY <1>1 DEF DataTyped, QueueTyped, Offered
<1>4. Head(sendCh) = sendCh[1]
  BY <1>1, <1>2
<1>5. /\ Tail(sendCh) \in Seq(Nat) /\ Len(Tail(sendCh)) = Len(sendCh) - 1
      /\ \A i \in 1..Len(Tail(sendCh)) : Tail(sendCh)[i] = sendCh[i + 1]
  BY <1>1, <1>2
<1>6. Started' = Started + 1 /\ Started \in Int /\ Started >= 0
  BY <1>1, <1>2, <1>3, <1>5 DEF Started, QueueInv
<1>7. sendCh[1] = Started + 1
  BY <1>2 DEF QueueInv
<1>8. Started + 1 <= Len(reports)
  BY <1>2, <1>3, <1>6 DEF Started
<1>9. QueueTyped'
  BY <1>1, <1>2, <1>5, AgentAssumption DEF QueueTyped
<1>10. ASSUME NEW i \in 1..Len(sendCh')
       PROVE  sendCh'[i] = Started' + i
  <2>1. i \in 1..Len(Tail(sendCh)) /\ sendCh'[i] = sendCh[i + 1]
    BY <1>1, <1>5
  <2>2. i + 1 \in 1..Len(sendCh)
    BY <1>2, <1>5, <2>1
  <2>3. sendCh[i + 1] = Started + (i + 1)
    BY <2>2 DEF QueueInv
  <2>. QED
    BY <1>6, <2>1, <2>2, <2>3
<1>11. QueueInv'
  BY <1>1, <1>6, <1>10 DEF QueueInv
<1>. QED
  BY <1>3, <1>4, <1>6, <1>7, <1>8, <1>9, <1>11

\* Steps that neither take a snapshot nor put one on the channel or take it off.
LEMMA QueueStays ==
  ASSUME DataTyped, QueueTyped, QueueInv, UNCHANGED <<reports, offering, sendCh>>
  PROVE  QueueTyped' /\ QueueInv' /\ Started' = Started
<1>1. Started' = Started
  BY DEF Started, Offered
<1>. QED
  BY <1>1 DEF QueueTyped, QueueInv

\* Reports are only added, and the workers take them one by one.
LEMMA ReportsMove ==
  ASSUME Typed, [Next]_vars
  PROVE  /\ DataTyped' /\ QueueTyped' /\ QueueInv'
         /\ Len(reports') >= Len(reports)
         /\ \A r \in 1..Len(reports) : reports'[r] = reports[r]
         /\ Started' = Started \/ \E w \in Workers : TakeReport(w)
<1>1. data \in Sample /\ reports \in Seq(Sample) /\ Len(reports) <= MaxReports /\ Len(reports) \in Nat
  BY DEF Typed, DataTyped
<1>2. CASE Collect \/ CollectSystemMetrics
  <2>1. UNCHANGED <<reports, offering, sendCh>>
    BY <1>2 DEF Collect, CollectSystemMetrics
  <2>2. data' \in Sample
    <3>1. CASE Collect
      <4>1. data.poll + 1 \in 0..MaxPolls
        BY <1>1, <3>1, AgentAssumption DEF Collect, Sample
      <4>. QED
        BY <1>1, <3>1, <4>1 DEF Collect, Sample
    <3>2. CASE CollectSystemMetrics
      <4>1. data.sys + 1 \in 0..MaxPolls
        BY <1>1, <3>2, AgentAssumption DEF CollectSystemMetrics, Sample
      <4>. QED
        BY <1>1, <3>2, <4>1 DEF CollectSystemMetrics, Sample
    <3>. QED
      BY <1>2, <3>1, <3>2
  <2>. QED
    BY <1>1, <2>1, <2>2, QueueStays DEF DataTyped, Typed
<1>3. CASE TakeSnapshot
  <2>1. /\ ~offering /\ Len(reports) < MaxReports /\ reports' = Append(reports, data)
        /\ offering' = TRUE /\ UNCHANGED <<data, sendCh>>
    BY <1>3 DEF TakeSnapshot
  <2>2. /\ reports' \in Seq(Sample) /\ Len(reports') = Len(reports) + 1
        /\ \A r \in 1..Len(reports) : reports'[r] = reports[r]
    BY <1>1, <2>1
  <2>3. DataTyped'
    BY <1>1, <2>1, <2>2, AgentAssumption DEF DataTyped
  <2>4. Offered' = Offered
    BY <1>1, <2>1, <2>2 DEF Offered
  <2>5. Started' = Started
    BY <2>1, <2>4 DEF Started
  <2>6. QueueTyped'
    BY <2>1 DEF Typed, QueueTyped
  <2>7. QueueInv'
    BY <1>1, <2>1, <2>2, <2>5 DEF Typed, QueueInv
  <2>. QED
    BY <1>1, <2>2, <2>3, <2>5, <2>6, <2>7
<1>4. CASE Offer
  <2>1. /\ offering /\ Len(sendCh) < RateLimit /\ sendCh' = Append(sendCh, Len(reports))
        /\ offering' = FALSE /\ UNCHANGED <<data, reports>>
    BY <1>4 DEF Offer, Queued
  <2>2. sendCh \in Seq(Nat) /\ Len(sendCh) \in Nat
    BY DEF Typed, QueueTyped
  <2>3. /\ sendCh' \in Seq(Nat) /\ Len(sendCh') = Len(sendCh) + 1
        /\ sendCh'[Len(sendCh) + 1] = Len(reports)
        /\ \A i \in 1..Len(sendCh) : sendCh'[i] = sendCh[i]
    BY <1>1, <2>1, <2>2
  <2>4. Offered' = Offered + 1 /\ Offered = Len(reports) - 1
    BY <1>1, <2>1 DEF Offered
  <2>5. Started' = Started /\ Started = Len(reports) - 1 - Len(sendCh)
    BY <1>1, <2>2, <2>3, <2>4 DEF Started
  <2>6. ASSUME NEW i \in 1..Len(sendCh')
        PROVE  sendCh'[i] = Started' + i
    <3>1. CASE i = Len(sendCh) + 1
      BY <1>1, <2>2, <2>3, <2>5, <3>1
    <3>2. CASE i # Len(sendCh) + 1
      <4>1. i \in 1..Len(sendCh)
        BY <2>2, <2>3, <3>2
      <4>. QED
        BY <2>3, <2>5, <4>1 DEF Typed, QueueInv
    <3>. QED
      BY <3>1, <3>2
  <2>7. QueueInv'
    BY <2>1, <2>5, <2>6 DEF Typed, QueueInv
  <2>8. QueueTyped'
    <3>1. Len(sendCh') <= RateLimit
      BY <2>1, <2>2, <2>3, AgentAssumption
    <3>. QED
      BY <2>1, <2>3, <3>1 DEF QueueTyped
  <2>. QED
    BY <1>1, <2>1, <2>5, <2>7, <2>8 DEF DataTyped
<1>5. ASSUME NEW w \in Workers, Working(w)
      PROVE  /\ UNCHANGED <<data, reports>>
             /\ UNCHANGED <<offering, sendCh>> \/ TakeReport(w)
  <2>1. TakeReport(w) \/ Post(w) \/ Retries(w) \/ Ends(w, TRUE) \/ Ends(w, FALSE)
    BY <1>5, WorkerSteps DEF Typed
  <2>. QED
    BY <2>1 DEF TakeReport, Post, Retries, Ends
<1>6. ASSUME NEW m \in net, Handle(m) \/ StorageFails(m) \/ HandleFails(m)
      PROVE  UNCHANGED <<data, reports, offering, sendCh>>
  BY <1>6 DEF Handle, StorageFails, HandleFails
<1>7. CASE UNCHANGED <<data, reports, offering, sendCh>>
  BY <1>1, <1>7, QueueStays DEF Typed, DataTyped
<1>8. CASE \E w \in Workers : TakeReport(w)
  <2>1. PICK w \in Workers : TakeReport(w)
    BY <1>8
  <2>2. UNCHANGED <<data, reports>>
    BY <2>1 DEF TakeReport
  <2>. QED
    BY <1>1, <2>1, <2>2, Taking DEF Typed, DataTyped
<1>9. UNCHANGED vars => UNCHANGED <<data, reports, offering, sendCh>>
  BY DEF vars
<1>. QED
  BY <1>2, <1>3, <1>4, <1>5, <1>6, <1>7, <1>8, <1>9 DEF Next

LEMMA StartedType ==
  ASSUME DataTyped, QueueTyped, QueueInv
  PROVE  Started \in 0..Len(reports) /\ Len(reports) \in 0..MaxReports /\ Len(sendCh) \in Nat
<1>1. Len(reports) \in Nat /\ Len(sendCh) \in Nat /\ Len(reports) <= MaxReports
  BY DEF DataTyped, QueueTyped
<1>2. Started \in Int /\ Started <= Len(reports)
  BY <1>1 DEF Started, Offered
<1>. QED
  BY <1>1, <1>2, AgentAssumption DEF QueueInv

LEMMA StartedNext ==
  ASSUME DataTyped', QueueTyped', QueueInv'
  PROVE  Started' \in 0..Len(reports') /\ Len(reports') \in 0..MaxReports /\ Len(sendCh') \in Nat
<1>1. Len(reports') \in Nat /\ Len(sendCh') \in Nat /\ Len(reports') <= MaxReports
  BY DEF DataTyped, QueueTyped
<1>2. Started' \in Int /\ Started' <= Len(reports')
  BY <1>1 DEF Started, Offered
<1>. QED
  BY <1>1, <1>2, AgentAssumption DEF QueueInv

-----------------------------------------------------------------------------
(* Workers.                                                                *)

\* Only w changes what it does.
OnlyWorker(w) ==
  \A v \in Workers \ {w} : worker'[v] = worker[v] /\ attempt'[v] = attempt[v]

LEMMA TakeEffect ==
  ASSUME Typed, NEW w \in Workers, TakeReport(w)
  PROVE  /\ worker[w].at = "idle" /\ attempt' = attempt /\ OnlyWorker(w)
         /\ DOMAIN worker' = Workers
         /\ \/ worker' = worker /\ EmptySnapshot(Started')
            \/ /\ worker' = [worker EXCEPT ![w] = [at |-> "call", report |-> Started']]
               /\ worker'[w] = [at |-> "call", report |-> Started']
               /\ ~EmptySnapshot(Started')
         /\ UNCHANGED <<reports, net, answers, pollTotal, applied, unstored, done, delivered,
                        faults>>
<1>1. Head(sendCh) = Started'
  BY Taking DEF Typed
<1>. QED
  BY <1>1 DEF TakeReport, Typed, WorkerTyped, OnlyWorker

LEMMA PostEffect ==
  ASSUME Typed, NEW w \in Workers, Post(w)
  PROVE  /\ worker[w].at = "call" /\ attempt' = attempt /\ OnlyWorker(w)
         /\ DOMAIN worker' = Workers
         /\ worker'[w] = [at |-> "wait", report |-> worker[w].report]
         /\ net' = net \cup {Request(w)}
         /\ UNCHANGED <<data, reports, offering, sendCh, answers, pollTotal, applied,
                        unstored, done, delivered, faults>>
BY DEF Post, Typed, WorkerTyped, OnlyWorker

LEMMA RetryEffect ==
  ASSUME Typed, NEW w \in Workers, Retries(w)
  PROVE  /\ OnlyWorker(w) /\ DOMAIN worker' = Workers
         /\ worker'[w] = [at |-> "call", report |-> worker[w].report]
         /\ attempt' \in [Workers -> 0..Backoffs] /\ attempt'[w] = attempt[w] + 1
<1>1. /\ worker \in [Workers -> [at : {"idle", "call", "wait"}, report : 0..MaxReports]]
      /\ attempt \in [Workers -> 0..Backoffs] /\ attempt[w] \in 0..Backoffs
  BY DEF Typed, WorkerTyped
<1>2. /\ attempt[w] < Backoffs /\ attempt' = [attempt EXCEPT ![w] = @ + 1]
      /\ worker' = [worker EXCEPT ![w].at = "call"]
  BY DEF Retries
<1>3. attempt[w] + 1 \in 0..Backoffs
  BY <1>1, <1>2, BackoffsAssumption
<1>4. attempt' \in [Workers -> 0..Backoffs] /\ attempt'[w] = attempt[w] + 1
  BY <1>1, <1>2, <1>3
<1>5. /\ DOMAIN worker' = Workers
      /\ worker'[w] = [at |-> "call", report |-> worker[w].report]
      /\ \A v \in Workers \ {w} : worker'[v] = worker[v]
  BY <1>1, <1>2
<1>6. \A v \in Workers \ {w} : attempt'[v] = attempt[v]
  BY <1>1, <1>2
<1>. QED
  BY <1>4, <1>5, <1>6 DEF OnlyWorker

LEMMA EndEffect ==
  ASSUME Typed, NEW w \in Workers, NEW ok, Ends(w, ok)
  PROVE  /\ OnlyWorker(w) /\ DOMAIN worker' = Workers
         /\ worker'[w] = Idle /\ attempt' \in [Workers -> 0..Backoffs] /\ attempt'[w] = 0
         /\ done' = done \cup {worker[w].report}
         /\ delivered' = IF ok THEN delivered \cup {worker[w].report} ELSE delivered
<1>1. 0 \in 0..Backoffs
  BY BackoffsAssumption
<1>. QED
  BY <1>1 DEF Ends, Finish, AfterReport, Typed, WorkerTyped, OnlyWorker

\* Steps of no worker.
LEMMA OtherSteps ==
  ASSUME Typed, [Next]_vars, ~\E w \in Workers : Working(w)
  PROVE  UNCHANGED <<worker, attempt, done, delivered>>
BY DEF Next, Collect, CollectSystemMetrics, TakeSnapshot, Offer, Handle, StorageFails,
       HandleFails, vars

LEMMA WorkersTyped ==
  ASSUME Typed, HoldInv, [Next]_vars
  PROVE  WorkerTyped' /\ HoldInv'
<1>1. /\ worker \in [Workers -> [at : {"idle", "call", "wait"}, report : 0..MaxReports]]
      /\ attempt \in [Workers -> 0..Backoffs]
  BY DEF Typed, WorkerTyped
<1>2. /\ Started \in 0..MaxReports /\ Started' \in 0..MaxReports
      /\ Started' = Started \/ \E w \in Workers : TakeReport(w)
  <2>1. Started \in 0..Len(reports) /\ Len(reports) \in 0..MaxReports
    BY StartedType DEF Typed
  <2>2. Started' \in 0..Len(reports') /\ Len(reports') \in 0..MaxReports
    BY ReportsMove, StartedNext
  <2>. QED
    BY <2>1, <2>2, ReportsMove, AgentAssumption
<1>3. \A r : r \in 1..Started => r \in 1..MaxReports
  BY <1>2, AgentAssumption
<1>4. CASE \E w \in Workers : TakeReport(w)
  <2>1. PICK w \in Workers : TakeReport(w)
    BY <1>4
  <2>2. Started' = Started + 1
    BY <2>1, Taking DEF Typed
  <2>3. /\ Started' \in 1..Started' /\ Started' \notin 1..Started
        /\ \A r : r \in 1..Started => r \in 1..Started'
    BY <1>2, <2>2
  <2>4. /\ worker[w].at = "idle" /\ attempt' = attempt /\ OnlyWorker(w) /\ DOMAIN worker' = Workers
        /\ worker' = worker \/ worker'[w] = [at |-> "call", report |-> Started']
    BY <2>1, TakeEffect
  <2>5. CASE worker' = worker
    BY <1>1, <2>3, <2>4, <2>5 DEF WorkerTyped, HoldInv, Holds
  <2>6. CASE worker'[w] = [at |-> "call", report |-> Started']
    <3>1. WorkerTyped'
      <4>1. worker' = [worker EXCEPT ![w] = [at |-> "call", report |-> Started']]
        BY <1>1, <2>1, <2>4, <2>6, TakeEffect
      <4>2. [at |-> "call", report |-> Started'] \in [at : {"idle", "call", "wait"}, report : 0..MaxReports]
        BY <1>2
      <4>. QED
        BY <1>1, <2>4, <4>1, <4>2 DEF WorkerTyped
    <3>2. \A v \in Workers : worker'[v].at # "idle" =>
            IF v = w THEN worker'[v].report = Started'
            ELSE worker'[v] = worker[v] /\ worker[v].report \in 1..Started
      BY <2>4, <2>6 DEF OnlyWorker, HoldInv
    <3>. QED
      BY <2>3, <3>1, <3>2 DEF HoldInv, Holds
  <2>. QED
    BY <2>4, <2>5, <2>6
<1>5. CASE ~\E w \in Workers : TakeReport(w)
  <2>1. Started' = Started
    BY <1>2, <1>5
  <2>2. ASSUME NEW w \in Workers, Post(w) \/ Retries(w)
        PROVE  WorkerTyped' /\ HoldInv'
    <3>1. /\ worker[w].at # "idle" /\ OnlyWorker(w)
          /\ worker'[w].at # "idle" /\ worker'[w].report = worker[w].report
      <4>1. CASE Post(w)
        <5>1. /\ worker[w].at = "call" /\ OnlyWorker(w)
              /\ worker'[w] = [at |-> "wait", report |-> worker[w].report]
          BY <4>1, PostEffect
        <5>. QED
          BY <5>1
      <4>2. CASE Retries(w)
        BY <4>2, RetryEffect DEF Retries
      <4>. QED
        BY <2>2, <4>1, <4>2
    <3>2. worker' \in [Workers -> [at : {"idle", "call", "wait"}, report : 0..MaxReports]]
      BY <1>1, <2>2 DEF Post, Retries
    <3>3. attempt' \in [Workers -> 0..Backoffs]
      BY <1>1, <2>2, PostEffect, RetryEffect
    <3>4. \A v \in Workers : /\ worker'[v].at # "idle" <=> worker[v].at # "idle"
                             /\ worker'[v].report = worker[v].report
      BY <3>1 DEF OnlyWorker
    <3>. QED
      BY <2>1, <3>2, <3>3, <3>4 DEF WorkerTyped, HoldInv, Holds
  <2>3. ASSUME NEW w \in Workers, NEW ok \in BOOLEAN, Ends(w, ok)
        PROVE  WorkerTyped' /\ HoldInv'
    <3>1. OnlyWorker(w) /\ worker'[w].at = "idle" /\ attempt' \in [Workers -> 0..Backoffs]
      BY <2>3, EndEffect DEF Idle
    <3>2. worker' \in [Workers -> [at : {"idle", "call", "wait"}, report : 0..MaxReports]]
      <4>1. Idle \in [at : {"idle", "call", "wait"}, report : 0..MaxReports]
        BY AgentAssumption DEF Idle
      <4>. QED
        BY <1>1, <2>3, <4>1 DEF Ends, Finish, AfterReport
    <3>3. \A v \in Workers : worker'[v].at # "idle" => worker'[v] = worker[v] /\ v # w
      BY <3>1 DEF OnlyWorker
    <3>. QED
      BY <2>1, <3>1, <3>2, <3>3 DEF WorkerTyped, HoldInv, Holds
  <2>4. CASE UNCHANGED <<worker, attempt>>
    BY <1>1, <2>1, <2>4 DEF WorkerTyped, HoldInv, Holds
  <2>. QED
    BY <1>5, <2>2, <2>3, <2>4, WorkerSteps, OtherSteps DEF Typed
<1>. QED
  BY <1>4, <1>5

-----------------------------------------------------------------------------
(* Requests and answers.                                                   *)

\* What handling a request does.
Served(m) ==
  /\ net' = net \ {m} /\ UNCHANGED <<worker, attempt, done, delivered, reports>>
  /\ \/ /\ HashAccepted /\ Apply(m) /\ UNCHANGED <<unstored, faults>>
        /\ answers' \subseteq answers \cup {[to |-> m, status |-> 200]}
     \/ /\ HashAccepted /\ faults' = faults + 1 /\ unstored' = unstored \cup {m.report}
        /\ Apply(m) \/ UNCHANGED <<pollTotal, applied>>
        /\ answers' \subseteq answers \cup {[to |-> m, status |-> 400]}
     \/ /\ ~HashAccepted /\ UNCHANGED <<unstored, faults, pollTotal, applied>>
        /\ answers' \subseteq answers \cup {[to |-> m, status |-> 400]}
     \/ /\ faults' = faults + 1 /\ UNCHANGED <<unstored, pollTotal, applied>>
        /\ answers' \subseteq answers \cup {[to |-> m, status |-> 500]}

LEMMA ServerEffect ==
  ASSUME Typed, NEW m \in net, Handle(m) \/ StorageFails(m) \/ HandleFails(m)
  PROVE  Served(m)
<1>1. \A status : Reply(m, status) => answers' \subseteq answers \cup {[to |-> m, status |-> status]}
  BY DEF Reply
<1>2. m.whole
  BY DEF Typed, NetTyped, Messages
<1>3. CASE Handle(m)
  <2>1. /\ net' = net \ {m}
        /\ UNCHANGED <<worker, attempt, unstored, done, delivered, reports, faults>>
        /\ IF HashAccepted THEN Apply(m) /\ Reply(m, 200)
           ELSE Reply(m, 400) /\ UNCHANGED <<pollTotal, applied>>
    BY <1>2, <1>3 DEF Handle
  <2>. QED
    BY <1>1, <2>1 DEF Served
<1>4. CASE HandleFails(m)
  <2>1. /\ net' = net \ {m}
        /\ UNCHANGED <<worker, attempt, unstored, done, delivered, reports, pollTotal, applied>>
        /\ faults' = faults + 1 /\ Reply(m, 500)
    BY <1>4 DEF HandleFails, Fault
  <2>. QED
    BY <1>1, <2>1 DEF Served
<1>5. CASE StorageFails(m)
  <2>1. /\ net' = net \ {m} /\ UNCHANGED <<worker, attempt, done, delivered, reports>>
        /\ HashAccepted /\ faults' = faults + 1 /\ unstored' = unstored \cup {m.report}
        /\ Apply(m) \/ UNCHANGED <<pollTotal, applied>>
        /\ Reply(m, 400)
    BY <1>5 DEF StorageFails, Fault
  <2>. QED
    BY <1>1, <2>1 DEF Served
<1>. QED
  BY <1>3, <1>4, <1>5

\* A worker's request is a whole one, about the report it holds.
LEMMA RequestType ==
  ASSUME Typed, HoldInv, NEW w \in Workers, worker[w].at # "idle"
  PROVE  /\ Request(w) \in Messages /\ Request(w).report = worker[w].report
         /\ worker[w].report \in 1..Started /\ worker[w].report \in 1..MaxReports
<1>1. worker[w].report \in 1..Started
  BY DEF HoldInv
<1>2. worker[w].report \in 1..MaxReports
  <2>1. Started \in 0..Len(reports) /\ Len(reports) \in 0..MaxReports
    BY StartedType DEF Typed
  <2>. QED
    BY <1>1, <2>1, AgentAssumption
<1>3. attempt[w] \in 0..Backoffs
  BY DEF Typed, WorkerTyped
<1>. QED
  BY <1>1, <1>2, <1>3 DEF Request, BodyRestored, Messages

\* Every step, as far as requests, answers and what was applied are concerned.
NetSame == UNCHANGED <<net, answers, pollTotal, applied, unstored, faults>>

LEMMA NetSteps ==
  ASSUME Typed, [Next]_vars
  PROVE  \/ NetSame /\ UNCHANGED <<worker, attempt, done, delivered>>
         \/ \E w \in Workers : TakeReport(w) /\ NetSame
         \/ \E w \in Workers : Post(w) \/ Retries(w) \/ Ends(w, TRUE) \/ Ends(w, FALSE)
         \/ \E m \in net : Served(m)
<1>1. ASSUME NEW w \in Workers, Working(w)
      PROVE  (TakeReport(w) /\ NetSame) \/ Post(w) \/ Retries(w) \/ Ends(w, TRUE) \/ Ends(w, FALSE)
  BY <1>1, WorkerSteps DEF Typed, TakeReport, NetSame
<1>2. Collect \/ CollectSystemMetrics \/ TakeSnapshot \/ Offer \/ UNCHANGED vars
        => NetSame /\ UNCHANGED <<worker, attempt, done, delivered>>
  BY DEF Collect, CollectSystemMetrics, TakeSnapshot, Offer, vars, NetSame
<1>3. ASSUME NEW m \in net, Handle(m) \/ StorageFails(m) \/ HandleFails(m)
      PROVE  Served(m)
  BY <1>3, ServerEffect
<1>. QED
  BY <1>1, <1>2, <1>3 DEF Next

LEMMA NetsTyped ==
  ASSUME Typed, HoldInv, PlaceInv, [Next]_vars
  PROVE  NetTyped' /\ HistoryTyped'
<1>1. /\ net \in SUBSET Messages /\ IsFiniteSet(net)
      /\ \A a \in answers : a.to \in Messages /\ a.status \in {200, 400, 500}
      /\ pollTotal \in Nat /\ applied \in [1..MaxReports -> Nat] /\ faults \in Nat
  BY DEF Typed, NetTyped, HistoryTyped
<1>2. ASSUME net' \subseteq net, answers' \subseteq answers, UNCHANGED <<pollTotal, applied>>,
             faults' = faults \/ faults' = faults + 1
      PROVE  NetTyped' /\ HistoryTyped'
  <2>1. IsFiniteSet(net')
    BY <1>1, <1>2, FS_Subset
  <2>2. faults' \in Nat
    BY <1>1, <1>2
  <2>. QED
    BY <1>1, <1>2, <2>1, <2>2 DEF NetTyped, HistoryTyped
<1>3. ASSUME NEW w \in Workers, Post(w)
      PROVE  NetTyped' /\ HistoryTyped'
  <2>1. /\ worker[w].at # "idle" /\ net' = net \cup {Request(w)}
        /\ UNCHANGED <<answers, pollTotal, applied, faults>>
    BY <1>3 DEF Post
  <2>2. IsFiniteSet(net') /\ Request(w) \in Messages
    BY <1>1, <2>1, FS_AddElement, RequestType
  <2>. QED
    BY <1>1, <2>1, <2>2 DEF NetTyped, HistoryTyped
<1>4. ASSUME NEW m \in net, Served(m)
      PROVE  NetTyped' /\ HistoryTyped'
  <2>1. m \in Messages /\ m.report \in 1..MaxReports
    BY <1>1, ZenonT(30) DEF Messages
  <2>2. net' \in SUBSET Messages /\ IsFiniteSet(net')
    BY <1>1, <1>4, FS_RemoveElement DEF Served
  <2>3. \A a \in answers' : a.to \in Messages /\ a.status \in {200, 400, 500}
    <3>1. PICK s \in {200, 400, 500} : answers' \subseteq answers \cup {[to |-> m, status |-> s]}
      BY <1>4 DEF Served
    <3>. QED
      BY <1>1, <2>1, <3>1
  <2>4. faults' \in Nat
    BY <1>1, <1>4 DEF Served
  <2>5. applied' \in [1..MaxReports -> Nat]
    <3>1. applied' = applied \/ applied' = [applied EXCEPT ![m.report] = @ + 1]
      BY <1>4 DEF Served, Apply
    <3>2. applied[m.report] + 1 \in Nat
      BY <1>1, <2>1
    <3>. QED
      BY <1>1, <2>1, <3>1, <3>2
  <2>6. pollTotal' \in Nat
    <3>1. m.report \in 1..Len(reports)
      <4>1. Started \in 0..Len(reports) /\ m.report <= Started
        BY StartedType DEF Typed, PlaceInv
      <4>. QED
        BY <2>1, <4>1, AgentAssumption
    <3>2. reports[m.report] \in Sample
      BY <3>1 DEF Typed, DataTyped
    <3>3. reports[m.report].poll \in Nat
      <4>1. reports[m.report].poll \in 0..MaxPolls
        BY <3>2 DEF Sample
      <4>. QED
        BY <4>1, AgentAssumption
    <3>4. pollTotal' = pollTotal \/ pollTotal' = pollTotal + reports[m.report].poll
      BY <1>4 DEF Served, Apply
    <3>. QED
      BY <1>1, <3>3, <3>4
  <2>. QED
    BY <2>2, <2>3, <2>4, <2>5, <2>6 DEF NetTyped, HistoryTyped
<1>5. ASSUME NEW w \in Workers, NEW ok \in BOOLEAN, Retries(w) \/ Ends(w, ok)
      PROVE  NetTyped' /\ HistoryTyped'
  BY <1>2, <1>5 DEF Retries, Ends
<1>6. NetSame => NetTyped' /\ HistoryTyped'
  BY <1>2 DEF NetSame
<1>. QED
  BY <1>3, <1>4, <1>5, <1>6, NetSteps

-----------------------------------------------------------------------------
(* Where each report is.                                                   *)

\* A step that loses no report, and starts at most one more.
LEMMA PlaceStep ==
  ASSUME Typed, PlaceInv, NEW n \in Nat, Started' = n, n >= Started,
         \A r \in 1..n : r \in 1..Started \/ r = n,
         done' \subseteq 1..n, delivered' \subseteq done', unstored' \subseteq 1..n,
         \A r \in 1..Started : /\ EmptySnapshot(r)' <=> EmptySnapshot(r)
                               /\ r \in done => r \in done'
                               /\ \A v \in Workers : /\ Holds(v, r) => Holds(v, r)' \/ r \in done'
                                                     /\ Holds(v, r)' => Holds(v, r),
         n \notin 1..Started /\ n > 0 =>
           \E w \in Workers : /\ EmptySnapshot(n)' \/ Holds(w, n)'
                             /\ \A q \in 1..(n - 1) : ~Holds(w, q)',
         \A m \in net' : m.report <= n, \A a \in answers' : a.to.report <= n
  PROVE  PlaceInv'
<1>1. Started \in Nat
  BY StartedType DEF Typed
<1>2. ASSUME NEW r \in 1..n
      PROVE  /\ EmptySnapshot(r)' \/ r \in done' \/ \E w \in Workers : Holds(w, r)'
             /\ \E w \in Workers : \A q \in 1..(r - 1) : ~Holds(w, q)'
  <2>1. CASE r \in 1..Started
    <3>1. EmptySnapshot(r) \/ r \in done \/ \E w \in Workers : Holds(w, r)
      BY <1>2, <2>1 DEF PlaceInv
    <3>2. PICK w \in Workers : \A q \in 1..(r - 1) : ~Holds(w, q)
      BY <1>2, <2>1 DEF PlaceInv
    <3>3. \A q \in 1..(r - 1) : q \in 1..Started
      BY <1>1, <2>1
    <3>. QED
      BY <2>1, <3>1, <3>2, <3>3
  <2>2. CASE r \notin 1..Started
    <3>1. r = n /\ n > 0
      BY <2>2
    <3>2. PICK w \in Workers : /\ EmptySnapshot(n)' \/ Holds(w, n)'
                              /\ \A q \in 1..(n - 1) : ~Holds(w, q)'
      BY <1>2, <2>2, <3>1
    <3>. QED
      BY <3>1, <3>2
  <2>. QED
    BY <2>1, <2>2
<1>3. \A r \in 1..Started' :
        /\ EmptySnapshot(r)' \/ r \in done' \/ \E w \in Workers : Holds(w, r)'
        /\ \E w \in Workers : \A q \in 1..(r - 1) : ~Holds(w, q)'
  BY <1>2
<1>. QED
  BY <1>3 DEF PlaceInv

LEMMA PlacesMove ==
  ASSUME Typed, HoldInv, PlaceInv, [Next]_vars
  PROVE  PlaceInv'
<1>1. /\ Started \in 0..Len(reports) /\ Started \in Nat /\ Len(reports) \in Nat
  BY StartedType DEF Typed
<1>2. PICK n \in Nat : Started' = n
  BY ReportsMove, StartedNext
<1>3. \A r \in 1..Started : EmptySnapshot(r)' <=> EmptySnapshot(r)
  <2>1. \A r \in 1..Started : reports'[r] = reports[r]
    BY <1>1, ReportsMove
  <2>. QED
    BY <2>1 DEF EmptySnapshot
<1>4. /\ done \subseteq 1..Started /\ delivered \subseteq done /\ unstored \subseteq 1..Started
      /\ \A m \in net : m.report <= Started
      /\ \A a \in answers : a.to.report <= Started
  BY DEF PlaceInv
<1>5. /\ \A m \in net : m.report \in Nat
      /\ \A a \in answers : a.to.report \in Nat
  <2>1. /\ \A m \in net : m.report \in 1..MaxReports
        /\ \A a \in answers : a.to.report \in 1..MaxReports
    BY DEF Typed, NetTyped, Messages
  <2>2. \A k \in 1..MaxReports : k \in Nat
    BY AgentAssumption
  <2>. QED
    BY <2>1, <2>2
<1>6. ASSUME NEW w \in Workers, TakeReport(w)
      PROVE  PlaceInv'
  <2>1. n = Started + 1
    BY <1>2, <1>6, Taking DEF Typed
  <2>2. /\ worker[w].at = "idle" /\ OnlyWorker(w)
        /\ UNCHANGED <<net, answers, unstored, done, delivered>>
        /\ \/ worker' = worker /\ EmptySnapshot(n)
           \/ /\ worker'[w] = [at |-> "call", report |-> n]
              /\ ~EmptySnapshot(n)
        /\ reports' = reports
    BY <1>2, <1>6, TakeEffect
  <2>3. \A r \in 1..Started, v \in Workers : Holds(v, r)' <=> Holds(v, r)
    <3>1. \A r \in 1..Started : r # n
      BY <1>1, <2>1
    <3>2. \A v \in Workers \ {w} : worker'[v] = worker[v]
      BY <2>2 DEF OnlyWorker
    <3>3. worker' = worker \/ worker'[w] = [at |-> "call", report |-> n]
      BY <2>2
    <3>4. \A r \in 1..Started : (~Holds(w, r)' /\ ~Holds(w, r)) \/ worker' = worker
      BY <2>2, <3>1, <3>3 DEF Holds
    <3>. QED
      BY <3>2, <3>4 DEF Holds
  <2>4. EmptySnapshot(n)' <=> EmptySnapshot(n)
    BY <2>2 DEF EmptySnapshot
  <2>5. \E v \in Workers : /\ EmptySnapshot(n)' \/ Holds(v, n)'
                           /\ \A q \in 1..(n - 1) : ~Holds(v, q)'
    <3>1. CASE worker' = worker /\ EmptySnapshot(n)
      BY <2>2, <2>4, <3>1 DEF Holds
    <3>2. CASE worker'[w] = [at |-> "call", report |-> n]
      <4>1. \A q \in 1..(n - 1) : q # n
        OBVIOUS
      <4>. QED
        BY <3>2, <4>1 DEF Holds
    <3>. QED
      BY <2>2, <3>1, <3>2
  <2>6. /\ \A r \in 1..n : r \in 1..Started \/ r = n
        /\ \A r \in 1..Started : r \in 1..n
        /\ n >= Started
        /\ \A k \in Nat : k <= Started => k <= n
    BY <1>1, <2>1
  <2>7. /\ done' \subseteq 1..n /\ delivered' \subseteq done' /\ unstored' \subseteq 1..n
        /\ \A m \in net' : m.report <= n
        /\ \A a \in answers' : a.to.report <= n
    BY <1>4, <1>5, <2>2, <2>6
  <2>. QED
    BY <1>2, <1>3, <2>2, <2>3, <2>5, <2>6, <2>7, PlaceStep
<1>7. ASSUME ~\E w \in Workers : TakeReport(w)
      PROVE  /\ Started = n /\ n >= Started
             /\ \A r \in 1..n : r \in 1..Started \/ r = n
             /\ n > 0 => n \in 1..Started
  BY <1>1, <1>2, <1>7, ReportsMove
<1>8. ASSUME ~\E w \in Workers : TakeReport(w), NEW w \in Workers,
             Post(w) \/ Retries(w)
      PROVE  PlaceInv'
  <2>1. \A r \in 1..Started, v \in Workers : Holds(v, r)' <=> Holds(v, r)
    <3>1. /\ worker[w].at # "idle" /\ OnlyWorker(w)
          /\ worker'[w].at # "idle" /\ worker'[w].report = worker[w].report
      <4>1. CASE Post(w)
        <5>1. /\ worker[w].at = "call" /\ OnlyWorker(w)
              /\ worker'[w] = [at |-> "wait", report |-> worker[w].report]
          BY <4>1, PostEffect
        <5>. QED
          BY <5>1
      <4>2. CASE Retries(w)
        BY <4>2, RetryEffect DEF Retries
      <4>. QED
        BY <1>8, <4>1, <4>2
    <3>. QED
      BY <3>1 DEF OnlyWorker, Holds
  <2>2. UNCHANGED <<unstored, done, delivered>>
    BY <1>8 DEF Post, Retries
  <2>3. (\A m \in net' : m.report <= n) /\ \A a \in answers' : a.to.report <= n
    <3>1. Started = n
      BY <1>7, <1>8
    <3>2. CASE Post(w)
      <4>1. Request(w).report \in 1..Started
        BY <3>2, RequestType DEF Post
      <4>2. Request(w).report <= n
        BY <1>1, <3>1, <4>1
      <4>. QED
        BY <1>4, <3>1, <3>2, <4>2 DEF Post
    <3>3. CASE Retries(w)
      BY <1>4, <3>1, <3>3 DEF Retries
    <3>. QED
      BY <1>8, <3>2, <3>3
  <2>4. done' \subseteq 1..n /\ delivered' \subseteq done' /\ unstored' \subseteq 1..n
    BY <1>4, <1>7, <1>8, <2>2
  <2>. QED
    BY <1>2, <1>3, <1>7, <1>8, <2>1, <2>2, <2>3, <2>4, PlaceStep
<1>9. ASSUME ~\E w \in Workers : TakeReport(w), NEW w \in Workers,
             Ends(w, TRUE) \/ Ends(w, FALSE)
      PROVE  PlaceInv'
  <2>1. /\ worker[w].at # "idle" /\ net' \subseteq net /\ answers' \subseteq answers
        /\ unstored' = unstored
    BY <1>9 DEF Ends
  <2>2. /\ OnlyWorker(w) /\ worker'[w].at = "idle"
        /\ done' = done \cup {worker[w].report}
        /\ delivered' \subseteq delivered \cup {worker[w].report}
    <3>1. PICK ok \in BOOLEAN : Ends(w, ok)
      BY <1>9
    <3>2. /\ OnlyWorker(w) /\ worker'[w] = Idle
          /\ done' = done \cup {worker[w].report}
          /\ delivered' = delivered \cup {worker[w].report} \/ delivered' = delivered
      BY <3>1, EndEffect
    <3>3. Idle.at = "idle"
      BY DEF Idle
    <3>. QED
      BY <3>2, <3>3
  <2>3. worker[w].report \in 1..Started
    BY <2>1, RequestType
  <2>4. \A r \in 1..Started, v \in Workers : /\ Holds(v, r) => Holds(v, r)' \/ r \in done'
                                             /\ Holds(v, r)' => Holds(v, r)
    BY <2>2 DEF OnlyWorker, Holds
  <2>5. done' \subseteq 1..n /\ delivered' \subseteq done' /\ unstored' \subseteq 1..n
    BY <1>4, <1>7, <1>9, <2>1, <2>2, <2>3
  <2>6. (\A m \in net' : m.report <= n) /\ \A a \in answers' : a.to.report <= n
    BY <1>4, <1>7, <1>9, <2>1
  <2>7. \A r \in 1..Started : r \in done => r \in done'
    BY <2>2
  <2>8. \A r \in 1..Started :
          /\ EmptySnapshot(r)' <=> EmptySnapshot(r)
          /\ r \in done => r \in done'
          /\ \A v \in Workers : /\ Holds(v, r) => Holds(v, r)' \/ r \in done'
                                /\ Holds(v, r)' => Holds(v, r)
    BY <1>3, <2>4, <2>7
  <2>9. n >= Started /\ (\A r \in 1..n : r \in 1..Started \/ r = n) /\ (n > 0 => n \in 1..Started)
    BY <1>7, <1>9
  <2>. QED
    BY <1>2, <2>5, <2>6, <2>8, <2>9, PlaceStep
<1>10. ASSUME ~\E w \in Workers : TakeReport(w), UNCHANGED <<worker, done, delivered>>,
              unstored' \subseteq 1..Started,
              \A m \in net' : m.report <= Started, \A a \in answers' : a.to.report <= Started
       PROVE  PlaceInv'
  <2>1. \A r \in 1..Started, v \in Workers : Holds(v, r)' <=> Holds(v, r)
    BY <1>10 DEF Holds
  <2>2. /\ done' \subseteq 1..n /\ delivered' \subseteq done' /\ unstored' \subseteq 1..n
        /\ (\A m \in net' : m.report <= n) /\ \A a \in answers' : a.to.report <= n
    BY <1>4, <1>7, <1>10
  <2>. QED
    BY <1>2, <1>3, <1>7, <1>10, <2>1, <2>2, PlaceStep
<1>11. ASSUME NEW m \in net, Served(m), ~\E w \in Workers : TakeReport(w)
       PROVE  PlaceInv'
  <2>1. PICK s : answers' \subseteq answers \cup {[to |-> m, status |-> s]}
    BY <1>11 DEF Served
  <2>2. \A a \in answers' : a.to.report <= Started
    BY <1>4, <2>1
  <2>3. unstored' \subseteq 1..Started
    <3>1. m.report \in 1..Started
      <4>1. m.report \in 1..MaxReports /\ m.report <= Started
        BY <1>4 DEF Typed, NetTyped, Messages
      <4>. QED
        BY <1>1, <4>1, AgentAssumption
    <3>2. unstored' = unstored \/ unstored' = unstored \cup {m.report}
      BY <1>11 DEF Served
    <3>. QED
      BY <1>4, <3>1, <3>2
  <2>. QED
    BY <1>4, <1>10, <1>11, <2>2, <2>3 DEF Served
<1>12. NetSame => /\ unstored' \subseteq 1..Started
                  /\ \A m \in net' : m.report <= Started
                  /\ \A a \in answers' : a.to.report <= Started
  BY <1>4 DEF NetSame
<1>. QED
  BY <1>6, <1>8, <1>9, <1>10, <1>11, <1>12, NetSteps

-----------------------------------------------------------------------------
(* How often each report can be applied.                                   *)

LEMMA CountType ==
  ASSUME Typed, NEW r \in 1..MaxReports
  PROVE  /\ IsFiniteSet(Requests(r)) /\ Cardinality(Requests(r)) \in Nat
         /\ applied[r] \in Nat /\ CountOf(r) \in Nat
<1>1. Requests(r) \in SUBSET net /\ IsFiniteSet(net)
  BY DEF Requests, Typed, NetTyped
<1>2. IsFiniteSet(Requests(r)) /\ Cardinality(Requests(r)) \in Nat
  BY <1>1, FS_Subset, FS_CardinalityType
<1>3. applied[r] \in Nat
  BY DEF Typed, HistoryTyped
<1>. QED
  BY <1>2, <1>3 DEF CountOf

\* Requests that get lost can no longer be applied.
LEMMA CountFalls ==
  ASSUME Typed, net' \subseteq net, applied' = applied, NEW r \in 1..MaxReports
  PROVE  CountOf(r)' \in Nat /\ CountOf(r)' <= CountOf(r)
<1>1. IsFiniteSet(Requests(r)) /\ Cardinality(Requests(r)) \in Nat /\ applied[r] \in Nat
  BY CountType
<1>2. Requests(r)' \in SUBSET Requests(r)
  BY DEF Requests
<1>3. /\ Cardinality(Requests(r)') \in Nat
      /\ Cardinality(Requests(r)') <= Cardinality(Requests(r))
  BY <1>1, <1>2, FS_Subset, FS_CardinalityType
<1>. QED
  BY <1>1, <1>3 DEF CountOf

\* A request can be applied once.
LEMMA CountRises ==
  ASSUME Typed, NEW m, net' = net \cup {m}, applied' = applied, NEW r \in 1..MaxReports
  PROVE  /\ CountOf(r)' \in Nat
         /\ IF m.report = r THEN CountOf(r)' <= CountOf(r) + 1 ELSE CountOf(r)' = CountOf(r)
<1>1. IsFiniteSet(Requests(r)) /\ Cardinality(Requests(r)) \in Nat /\ applied[r] \in Nat
  BY CountType
<1>2. CASE m.report = r
  <2>1. Requests(r)' = Requests(r) \cup {m}
    BY <1>2 DEF Requests
  <2>2. /\ Cardinality(Requests(r)') \in Nat
        /\ Cardinality(Requests(r)') <= Cardinality(Requests(r)) + 1
    <3>1. /\ IsFiniteSet(Requests(r) \cup {m})
          /\ Cardinality(Requests(r) \cup {m}) =
               IF m \in Requests(r) THEN Cardinality(Requests(r)) ELSE Cardinality(Requests(r)) + 1
      BY <1>1, FS_AddElement
    <3>. QED
      BY <1>1, <2>1, <3>1
  <2>. QED
    BY <1>1, <1>2, <2>2 DEF CountOf
<1>3. CASE m.report # r
  <2>1. Requests(r)' = Requests(r)
    BY <1>3 DEF Requests
  <2>. QED
    BY <1>1, <1>3, <2>1 DEF CountOf
<1>. QED
  BY <1>2, <1>3

\* Handling a request moves it from net to applied, if it does not fail.
LEMMA CountServed ==
  ASSUME Typed, NEW m \in net, Served(m), NEW r \in 1..MaxReports
  PROVE  CountOf(r)' \in Nat /\ CountOf(r)' <= CountOf(r)
<1>1. IsFiniteSet(Requests(r)) /\ Cardinality(Requests(r)) \in Nat /\ applied[r] \in Nat
  BY CountType
<1>2. net' = net \ {m} /\ applied \in [1..MaxReports -> Nat]
  BY DEF Served, Typed, HistoryTyped
<1>3. CASE applied' = applied
  BY <1>2, <1>3, CountFalls
<1>4. CASE applied' = [applied EXCEPT ![m.report] = @ + 1] /\ m.report = r
  <2>1. Requests(r)' = Requests(r) \ {m} /\ m \in Requests(r)
    BY <1>2, <1>4 DEF Requests
  <2>2. /\ Cardinality(Requests(r)') \in Nat
        /\ Cardinality(Requests(r)') = Cardinality(Requests(r)) - 1
    BY <1>1, <2>1, FS_RemoveElement, FS_CardinalityType
  <2>3. applied'[r] = applied[r] + 1
    BY <1>2, <1>4
  <2>. QED
    BY <1>1, <2>2, <2>3 DEF CountOf
<1>5. CASE applied' = [applied EXCEPT ![m.report] = @ + 1] /\ m.report # r
  <2>1. Requests(r)' = Requests(r)
    BY <1>2, <1>5 DEF Requests
  <2>2. applied'[r] = applied[r]
    BY <1>2, <1>5
  <2>. QED
    BY <1>1, <2>1, <2>2 DEF CountOf
<1>. QED
  BY <1>3, <1>4, <1>5 DEF Served, Apply

\* The steps other than Post: counts do not rise, what a worker may still send
\* does, with a call that failed.
LEMMA CountStep ==
  ASSUME Typed, CountInv, NEW n \in Nat, Started' = n, n >= Started,
         NEW f \in Nat, faults' = f, f >= faults,
         \A r \in 1..MaxReports : CountOf(r)' \in Nat /\ CountOf(r)' <= CountOf(r),
         \A w \in Workers :
           /\ attempt'[w] \in Nat /\ attempt'[w] <= f
           /\ \A r \in 1..MaxReports : Holds(w, r)' =>
                \/ CountOf(r) = 0
                \/ /\ Holds(w, r)
                   /\ \/ attempt'[w] = attempt[w] /\ worker'[w].at = worker[w].at
                      \/ attempt'[w] = attempt[w] + 1
  PROVE  CountInv'
<1>1. Started \in Nat
  BY StartedType DEF Typed
<1>2. \A r \in 1..MaxReports : CountOf(r) \in Nat
  BY CountType
<1>3. ASSUME NEW w \in Workers, NEW r \in 1..MaxReports, Holds(w, r)'
      PROVE  CountOf(r)' <= attempt'[w] + (IF worker'[w].at = "call" THEN 0 ELSE 1)
  <2>1. CountOf(r)' \in Nat /\ CountOf(r)' <= CountOf(r) /\ CountOf(r) \in Nat /\ attempt'[w] \in Nat
    BY <1>2
  <2>2. CASE CountOf(r) = 0
    BY <2>1, <2>2
  <2>3. CASE Holds(w, r) /\ attempt'[w] = attempt[w] /\ worker'[w].at = worker[w].at
    <3>1. CountOf(r) <= attempt[w] + (IF worker[w].at = "call" THEN 0 ELSE 1)
      BY <2>3 DEF CountInv
    <3>. QED
      BY <2>1, <2>3, <3>1
  <2>4. CASE Holds(w, r) /\ attempt'[w] = attempt[w] + 1
    <3>1. CountOf(r) <= attempt[w] + (IF worker[w].at = "call" THEN 0 ELSE 1)
      BY <2>4 DEF CountInv
    <3>2. attempt[w] \in Nat
      BY BackoffsAssumption DEF Typed, WorkerTyped
    <3>. QED
      BY <2>1, <2>4, <3>1, <3>2
  <2>. QED
    BY <1>3, <2>2, <2>3, <2>4
<1>4. ASSUME NEW r \in 1..MaxReports
      PROVE  /\ CountOf(r)' <= 1 + Backoffs /\ CountOf(r)' <= 1 + f
             /\ r > n => CountOf(r)' = 0
  <2>1. /\ CountOf(r) <= 1 + Backoffs /\ CountOf(r) <= 1 + faults
        /\ r > Started => CountOf(r) = 0
    BY DEF CountInv
  <2>2. r \in Nat /\ faults \in Nat
    BY AgentAssumption DEF Typed, HistoryTyped
  <2>. QED
    BY <1>1, <1>2, <2>1, <2>2, BackoffsAssumption
<1>5. CountInv' = 
        /\ \A w \in Workers : attempt'[w] <= faults'
        /\ \A w \in Workers, r \in 1..MaxReports :
             Holds(w, r)' => CountOf(r)' <= attempt'[w] + (IF worker'[w].at = "call" THEN 0 ELSE 1)
        /\ \A r \in 1..MaxReports : CountOf(r)' <= 1 + Backoffs /\ CountOf(r)' <= 1 + faults'
        /\ \A r \in 1..MaxReports : r > Started' => CountOf(r)' = 0
  BY Zenon DEF CountInv
<1>. QED
  BY <1>3, <1>4, <1>5

LEMMA CountsMove ==
  ASSUME Typed, HoldInv, PlaceInv, CountInv, [Next]_vars
  PROVE  CountInv'
<1>1. /\ Started \in 0..Len(reports) /\ Started \in Nat /\ Started <= MaxReports
  <2>1. Started \in 0..Len(reports) /\ Len(reports) \in 0..MaxReports
    BY StartedType DEF Typed
  <2>. QED
    BY <2>1, AgentAssumption
<1>2. PICK n \in Nat : Started' = n
  BY ReportsMove, StartedNext
<1>3. faults \in Nat /\ \A w \in Workers : attempt[w] \in 0..Backoffs /\ attempt[w] \in Nat
  BY BackoffsAssumption DEF Typed, HistoryTyped, WorkerTyped
<1>4. n >= Started
  BY <1>1, <1>2, ReportsMove, Taking DEF Typed
<1>5. \A w \in Workers : attempt[w] <= faults
  BY DEF CountInv
<1>6. ASSUME UNCHANGED <<worker, attempt>>, faults' \in Nat, faults' >= faults,
             \A r \in 1..MaxReports : CountOf(r)' \in Nat /\ CountOf(r)' <= CountOf(r)
      PROVE  CountInv'
  <2>1. \A w \in Workers, r \in 1..MaxReports : Holds(w, r)' <=> Holds(w, r)
    BY <1>6 DEF Holds
  <2>2. \A w \in Workers : attempt'[w] \in Nat /\ attempt'[w] <= faults'
    BY <1>3, <1>5, <1>6
  <2>3. PICK f \in Nat : faults' = f
    BY <1>6
  <2>. QED
    BY <1>2, <1>4, <1>6, <2>1, <2>2, <2>3, CountStep
<1>7. ASSUME NetSame, UNCHANGED <<worker, attempt>>
      PROVE  CountInv'
  BY <1>3, <1>6, <1>7, CountFalls DEF NetSame
<1>8. ASSUME NEW m \in net, Served(m)
      PROVE  CountInv'
  <2>1. UNCHANGED <<worker, attempt>>
    BY <1>8 DEF Served
  <2>2. faults' \in Nat /\ faults' >= faults
    BY <1>3, <1>8 DEF Served
  <2>. QED
    BY <1>6, <1>8, <2>1, <2>2, CountServed
<1>9. ASSUME NEW w \in Workers, TakeReport(w), NetSame
      PROVE  CountInv'
  <2>1. n = Started + 1
    BY <1>2, <1>9, Taking DEF Typed
  <2>2. /\ attempt' = attempt /\ OnlyWorker(w)
        /\ worker' = worker \/ worker'[w] = [at |-> "call", report |-> n]
    BY <1>2, <1>9, TakeEffect
  <2>3. \A r \in 1..MaxReports : r = n => CountOf(r) = 0
    BY <1>1, <2>1 DEF CountInv
  <2>4. \A v \in Workers, r \in 1..MaxReports : Holds(v, r)' =>
          \/ CountOf(r) = 0
          \/ Holds(v, r) /\ worker'[v].at = worker[v].at
    BY <2>2, <2>3 DEF OnlyWorker, Holds
  <2>5. \A v \in Workers : attempt'[v] \in Nat /\ attempt'[v] <= faults
    BY <1>3, <1>5, <2>2
  <2>6. \A r \in 1..MaxReports : CountOf(r)' \in Nat /\ CountOf(r)' <= CountOf(r)
    BY <1>9, CountFalls DEF NetSame
  <2>7. \A v \in Workers, r \in 1..MaxReports : Holds(v, r)' =>
          \/ CountOf(r) = 0
          \/ /\ Holds(v, r)
             /\ \/ attempt'[v] = attempt[v] /\ worker'[v].at = worker[v].at
                \/ attempt'[v] = attempt[v] + 1
    BY <2>2, <2>4
  <2>8. faults' = faults
    BY <1>9 DEF NetSame
  <2>. QED
    BY <1>2, <1>3, <1>4, <2>5, <2>6, <2>7, <2>8, CountStep
<1>10. ASSUME NEW w \in Workers, Retries(w)
       PROVE  CountInv'
  <2>1. /\ worker[w].at # "idle" /\ net' \subseteq net /\ applied' = applied
        /\ faults' = faults + 1
    BY <1>10 DEF Retries
  <2>2. /\ OnlyWorker(w) /\ worker'[w] = [at |-> "call", report |-> worker[w].report]
        /\ attempt'[w] = attempt[w] + 1
    BY <1>10, RetryEffect
  <2>3. \A v \in Workers, r \in 1..MaxReports : Holds(v, r)' =>
          /\ Holds(v, r)
          /\ \/ v # w /\ attempt'[v] = attempt[v] /\ worker'[v].at = worker[v].at
             \/ v = w
    BY <2>1, <2>2 DEF OnlyWorker, Holds
  <2>4. \A v \in Workers : attempt'[v] = attempt[v] \/ attempt'[v] = attempt[v] + 1
    BY <2>2 DEF OnlyWorker
  <2>5. \A v \in Workers : attempt'[v] \in Nat /\ attempt'[v] <= faults + 1
    BY <1>3, <1>5, <2>4
  <2>6. \A v \in Workers, r \in 1..MaxReports : Holds(v, r)' =>
          \/ CountOf(r) = 0
          \/ /\ Holds(v, r)
             /\ \/ attempt'[v] = attempt[v] /\ worker'[v].at = worker[v].at
                \/ attempt'[v] = attempt[v] + 1
    BY <2>2, <2>3
  <2>7. \A r \in 1..MaxReports : CountOf(r)' \in Nat /\ CountOf(r)' <= CountOf(r)
    BY <2>1, CountFalls
  <2>8. faults + 1 \in Nat /\ faults + 1 >= faults
    BY <1>3
  <2>. QED
    BY <1>2, <1>4, <2>1, <2>5, <2>6, <2>7, <2>8, CountStep
<1>11. ASSUME NEW w \in Workers, NEW ok \in BOOLEAN, Ends(w, ok)
       PROVE  CountInv'
  <2>1. /\ net' \subseteq net /\ applied' = applied
        /\ faults' = faults + 1 \/ faults' = faults
    BY <1>11 DEF Ends
  <2>2. OnlyWorker(w) /\ worker'[w].at = "idle" /\ attempt'[w] = 0
    BY <1>11, EndEffect DEF Idle
  <2>3. \A v \in Workers, r \in 1..MaxReports : Holds(v, r)' =>
          \/ CountOf(r) = 0
          \/ /\ Holds(v, r)
             /\ \/ attempt'[v] = attempt[v] /\ worker'[v].at = worker[v].at
                \/ attempt'[v] = attempt[v] + 1
    BY <2>2 DEF OnlyWorker, Holds
  <2>4. \A v \in Workers : attempt'[v] = attempt[v] \/ attempt'[v] = 0
    BY <2>2 DEF OnlyWorker
  <2>5. PICK f \in Nat : faults' = f /\ f >= faults
    BY <1>3, <2>1
  <2>6. \A v \in Workers : attempt'[v] \in Nat /\ attempt'[v] <= f
    BY <1>3, <1>5, <2>4, <2>5
  <2>7. \A r \in 1..MaxReports : CountOf(r)' \in Nat /\ CountOf(r)' <= CountOf(r)
    BY <2>1, CountFalls
  <2>. QED
    BY <1>2, <1>4, <2>3, <2>5, <2>6, <2>7, CountStep
<1>12. ASSUME NEW w \in Workers, Post(w)
       PROVE  CountInv'
  <2>1. /\ worker[w].at = "call" /\ attempt' = attempt /\ OnlyWorker(w)
        /\ worker'[w] = [at |-> "wait", report |-> worker[w].report]
        /\ net' = net \cup {Request(w)} /\ applied' = applied /\ faults' = faults
        /\ UNCHANGED <<reports, offering, sendCh>>
    BY <1>12, PostEffect
  <2>2. PICK h \in 1..MaxReports : /\ h = worker[w].report /\ Request(w).report = h
                                   /\ h \in 1..Started /\ Holds(w, h)
    <3>1. worker[w].at # "idle"
      BY <2>1
    <3>. QED
      BY <3>1, RequestType DEF Holds
  <2>3. \A r \in 1..MaxReports :
          CountOf(r)' \in Nat /\ IF h = r THEN CountOf(r)' <= CountOf(r) + 1
                                          ELSE CountOf(r)' = CountOf(r)
    BY <2>1, <2>2, CountRises
  <2>4. CountOf(h) <= attempt[w] /\ CountOf(h) \in Nat
    <3>1. CountOf(h) <= attempt[w] + (IF worker[w].at = "call" THEN 0 ELSE 1)
      BY <2>2 DEF CountInv
    <3>. QED
      BY <1>3, <2>1, <3>1, CountType
  <2>5. Started' = Started
    BY <2>1, QueueStays DEF Typed
  <2>6. ASSUME NEW v \in Workers, NEW r \in 1..MaxReports, Holds(v, r)'
        PROVE  CountOf(r)' <= attempt'[v] + (IF worker'[v].at = "call" THEN 0 ELSE 1)
    <3>1. CASE v = w
      <4>1. r = h
        BY <2>1, <2>2, <2>6, <3>1 DEF Holds
      <4>2. worker'[v].at = "wait" /\ attempt'[v] = attempt[w]
        BY <2>1, <3>1
      <4>3. CountOf(r)' <= attempt[w] + 1
        BY <1>3, <2>3, <2>4, <4>1
      <4>. QED
        BY <4>2, <4>3
    <3>2. CASE v # w
      <4>1. worker'[v] = worker[v] /\ attempt'[v] = attempt[v]
        BY <2>1, <3>2 DEF OnlyWorker
      <4>2. Holds(v, r)
        BY <2>6, <4>1 DEF Holds
      <4>3. r # h
        BY <2>2, <3>2, <4>2 DEF HoldInv
      <4>4. CountOf(r)' = CountOf(r)
        BY <2>3, <4>3
      <4>. QED
        BY <4>1, <4>2, <4>4 DEF CountInv
    <3>. QED
      BY <3>1, <3>2
  <2>7. ASSUME NEW r \in 1..MaxReports
        PROVE  /\ CountOf(r)' <= 1 + Backoffs /\ CountOf(r)' <= 1 + faults
               /\ r > Started => CountOf(r)' = 0
    <3>1. /\ CountOf(r) <= 1 + Backoffs /\ CountOf(r) <= 1 + faults
          /\ r > Started => CountOf(r) = 0
      BY DEF CountInv
    <3>2. CASE r = h
      <4>1. CountOf(r)' <= attempt[w] + 1 /\ ~(r > Started)
        BY <1>1, <1>3, <2>2, <2>3, <2>4, <3>2
      <4>. QED
        BY <1>3, <1>5, <2>3, <4>1, BackoffsAssumption
    <3>3. CASE r # h
      BY <2>3, <3>1, <3>3
    <3>. QED
      BY <3>2, <3>3
  <2>8. CountInv' = 
          /\ \A v \in Workers : attempt'[v] <= faults'
          /\ \A v \in Workers, r \in 1..MaxReports :
               Holds(v, r)' => CountOf(r)' <= attempt'[v] + (IF worker'[v].at = "call" THEN 0 ELSE 1)
          /\ \A r \in 1..MaxReports : CountOf(r)' <= 1 + Backoffs /\ CountOf(r)' <= 1 + faults'
          /\ \A r \in 1..MaxReports : r > Started' => CountOf(r)' = 0
    BY Zenon DEF CountInv
  <2>. QED
    BY <1>5, <2>1, <2>5, <2>6, <2>7, <2>8
<1>. QED
  BY <1>7, <1>8, <1>9, <1>10, <1>11, <1>12, NetSteps

-----------------------------------------------------------------------------
(* What answers say.                                                       *)

\* A step that adds only answers and ends of reports that are right.
LEMMA AnswerStep ==
  ASSUME Typed, HoldInv, PlaceInv, AnswerInv, NEW f \in Nat, faults' = f, f >= faults,
         \A r \in 1..MaxReports : applied[r] > 0 => applied'[r] > 0,
         ~HashAccepted => applied' = applied,
         unstored \subseteq unstored', f = 0 => unstored' = {},
         \A a \in answers' : \/ a \in answers
                             \/ /\ a.status = 200 => applied'[a.to.report] > 0
                                /\ a.status = 400 => ~HashAccepted \/ a.to.report \in unstored'
                                /\ a.status = 500 => f > 0,
         \A r \in delivered' : \/ r \in delivered
                               \/ HashAccepted => applied'[r] > 0 \/ r \in unstored',
         \A r \in done' : r \in done \/ (HashAccepted /\ f = 0 => applied'[r] > 0)
  PROVE  AnswerInv'
<1>1. HashAccepted' <=> HashAccepted
  BY DEF HashAccepted, SentHash, ComputedHash, NoHeader
<1>2. faults \in Nat /\ \A a \in answers : a.to.report \in 1..MaxReports
  <2>1. \A a \in answers : a.to \in Messages
    BY DEF Typed, NetTyped
  <2>2. \A a \in answers : a.to.report \in 1..MaxReports
    BY <2>1 DEF Messages
  <2>. QED
    BY <2>2 DEF Typed, HistoryTyped
<1>3. done \subseteq 1..MaxReports /\ delivered \subseteq 1..MaxReports
  <2>1. Started \in 0..Len(reports) /\ Len(reports) \in 0..MaxReports
    BY StartedType DEF Typed
  <2>2. \A r : r \in 1..Started => r \in 1..MaxReports
    BY <2>1, AgentAssumption
  <2>. QED
    BY <2>2 DEF PlaceInv
<1>4. faults > 0 => f > 0
  BY <1>2
<1>5. f = 0 => faults = 0
  BY <1>2
<1>6. \A a \in answers' : /\ a.status = 200 => applied'[a.to.report] > 0
                          /\ a.status = 400 => ~HashAccepted \/ a.to.report \in unstored'
                          /\ a.status = 500 => f > 0
  BY <1>2, <1>4 DEF AnswerInv
<1>7. HashAccepted => \A r \in delivered' : applied'[r] > 0 \/ r \in unstored'
  <2>1. ASSUME HashAccepted, NEW r \in delivered'
        PROVE  applied'[r] > 0 \/ r \in unstored'
    <3>1. CASE r \in delivered
      <4>1. applied[r] > 0 \/ r \in unstored
        BY <2>1, <3>1 DEF AnswerInv
      <4>. QED
        BY <1>3, <3>1, <4>1
    <3>2. CASE r \notin delivered
      BY <2>1, <3>2
    <3>. QED
      BY <3>1, <3>2
  <2>. QED
    BY <2>1
<1>8. HashAccepted /\ f = 0 => \A r \in done' : applied'[r] > 0
  BY <1>3, <1>5, ZenonT(30) DEF AnswerInv
<1>9. ~HashAccepted => \A r \in 1..MaxReports : applied'[r] = 0
  BY DEF AnswerInv
<1>. QED
  BY <1>1, <1>6, <1>7, <1>8, <1>9 DEF AnswerInv

LEMMA AnswersMove ==
  ASSUME Typed, HoldInv, PlaceInv, AnswerInv, [Next]_vars
  PROVE  AnswerInv'
<1>0. faults = 0 => unstored = {}
  BY DEF AnswerInv
<1>1. faults \in Nat /\ applied \in [1..MaxReports -> Nat]
  BY DEF Typed, HistoryTyped
<1>2. \A a \in answers : a.to \in Messages /\ a.status \in {200, 400, 500}
  BY DEF Typed, NetTyped
<1>3. CASE NetSame /\ UNCHANGED <<done, delivered>>
  BY <1>1, <1>3, <1>0, AnswerStep DEF NetSame
<1>4. ASSUME NEW w \in Workers, TakeReport(w), NetSame
      PROVE  AnswerInv'
  BY <1>3, <1>4 DEF TakeReport
<1>5. ASSUME NEW w \in Workers, Post(w)
      PROVE  AnswerInv'
  BY <1>1, <1>5, <1>0, AnswerStep DEF Post
<1>6. ASSUME NEW w \in Workers, Retries(w)
      PROVE  AnswerInv'
  <2>1. faults + 1 \in Nat /\ faults + 1 >= faults /\ faults + 1 # 0
    BY <1>1
  <2>. QED
    BY <1>6, <2>1, AnswerStep DEF Retries
<1>7. ASSUME NEW w \in Workers, Ends(w, TRUE)
      PROVE  AnswerInv'
  <2>1. /\ answers' \subseteq answers /\ UNCHANGED <<faults, applied, unstored>>
        /\ done' = done \cup {worker[w].report} /\ delivered' = delivered \cup {worker[w].report}
    BY <1>7, EndEffect DEF Ends
  <2>2. PICK a \in answers : a.to.report = worker[w].report /\ a.status < 500
    BY <1>7 DEF Ends
  <2>3. HashAccepted => applied[worker[w].report] > 0 \/ worker[w].report \in unstored
    <3>1. a.status = 200 \/ a.status = 400
      BY <1>2, <2>2
    <3>. QED
      BY <2>2, <3>1 DEF AnswerInv
  <2>4. \A r \in delivered' : \/ r \in delivered
                              \/ HashAccepted => applied'[r] > 0 \/ r \in unstored'
    BY <2>1, <2>3
  <2>5. \A r \in done' : r \in done \/ (HashAccepted /\ faults = 0 => applied'[r] > 0)
    BY <1>0, <2>1, <2>3
  <2>. QED
    BY <1>1, <1>0, <2>1, <2>4, <2>5, AnswerStep
<1>8. ASSUME NEW w \in Workers, Ends(w, FALSE)
      PROVE  AnswerInv'
  <2>1. /\ answers' \subseteq answers /\ UNCHANGED <<applied, unstored>>
        /\ delivered' = delivered
    BY <1>8, EndEffect DEF Ends
  <2>2. PICK f \in Nat : faults' = f /\ f >= faults /\ f > 0
    <3>1. CASE faults' = faults + 1
      BY <1>1, <3>1
    <3>2. CASE faults' = faults /\ \E a \in answers : a.status >= 500
      <4>1. PICK a \in answers : a.status >= 500
        BY <3>2
      <4>2. a.status = 500
        BY <1>2, <4>1
      <4>3. faults > 0
        BY <4>2 DEF AnswerInv
      <4>. QED
        BY <1>1, <3>2, <4>3
    <3>. QED
      BY <1>8, <3>1, <3>2 DEF Ends
  <2>3. f # 0
    BY <2>2
  <2>. QED
    BY <2>1, <2>2, <2>3, AnswerStep
<1>9. ASSUME NEW m \in net, Served(m)
      PROVE  AnswerInv'
  <2>1. m.report \in 1..MaxReports
    BY DEF Typed, NetTyped, Messages
  <2>2. UNCHANGED <<done, delivered>>
    BY <1>9 DEF Served
  <2>3. CASE /\ HashAccepted /\ UNCHANGED <<unstored, faults>>
             /\ applied' = [applied EXCEPT ![m.report] = @ + 1]
             /\ answers' \subseteq answers \cup {[to |-> m, status |-> 200]}
    <3>1. applied'[m.report] > 0 /\ \A r \in 1..MaxReports : applied[r] > 0 => applied'[r] > 0
      BY <1>1, <2>1, <2>3
    <3>2. \A a \in answers' : \/ a \in answers
                              \/ a.status = 200 /\ applied'[a.to.report] > 0
      BY <2>3, <3>1
    <3>3. \A a \in answers' : \/ a \in answers
                              \/ /\ a.status = 200 => applied'[a.to.report] > 0
                                 /\ a.status = 400 => ~HashAccepted \/ a.to.report \in unstored'
                                 /\ a.status = 500 => faults > 0
      BY <3>2
    <3>. QED
      BY <1>1, <1>0, <2>2, <2>3, <3>1, <3>3, AnswerStep
  <2>4. CASE /\ ~HashAccepted /\ UNCHANGED <<unstored, faults, applied>>
             /\ answers' \subseteq answers \cup {[to |-> m, status |-> 400]}
    <3>1. \A a \in answers' : a \in answers \/ a.status = 400
      BY <2>4
    <3>2. \A a \in answers' : \/ a \in answers
                              \/ /\ a.status = 200 => applied'[a.to.report] > 0
                                 /\ a.status = 400 => ~HashAccepted \/ a.to.report \in unstored'
                                 /\ a.status = 500 => faults > 0
      BY <2>4, <3>1
    <3>. QED
      BY <1>1, <1>0, <2>2, <2>4, <3>2, AnswerStep
  <2>5. CASE /\ faults' = faults + 1 /\ UNCHANGED <<unstored, applied>>
             /\ answers' \subseteq answers \cup {[to |-> m, status |-> 500]}
    <3>1. PICK f \in Nat : faults' = f /\ f >= faults /\ f > 0
      BY <1>1, <2>5
    <3>2. \A a \in answers' : a \in answers \/ a.status = 500
      BY <2>5
    <3>3. \A a \in answers' : \/ a \in answers
                              \/ /\ a.status = 200 => applied'[a.to.report] > 0
                                 /\ a.status = 400 => ~HashAccepted \/ a.to.report \in unstored'
                                 /\ a.status = 500 => f > 0
      BY <3>1, <3>2
    <3>. QED
      BY <2>2, <2>5, <3>1, <3>3, AnswerStep
  <2>6. CASE /\ HashAccepted /\ faults' = faults + 1 /\ unstored' = unstored \cup {m.report}
             /\ applied' = applied \/ applied' = [applied EXCEPT ![m.report] = @ + 1]
             /\ answers' \subseteq answers \cup {[to |-> m, status |-> 400]}
    <3>1. PICK f \in Nat : faults' = f /\ f >= faults /\ f > 0
      BY <1>1, <2>6
    <3>2. \A r \in 1..MaxReports : applied[r] > 0 => applied'[r] > 0
      <4>1. CASE applied' = applied
        BY <4>1
      <4>2. CASE applied' = [applied EXCEPT ![m.report] = @ + 1]
        BY <1>1, <2>1, <4>2
      <4>. QED
        BY <2>6, <4>1, <4>2
    <3>3. \A a \in answers' : a \in answers \/ (a.status = 400 /\ a.to.report \in unstored')
      BY <2>6
    <3>4. \A a \in answers' : \/ a \in answers
                              \/ /\ a.status = 200 => applied'[a.to.report] > 0
                                 /\ a.status = 400 => ~HashAccepted \/ a.to.report \in unstored'
                                 /\ a.status = 500 => f > 0
      BY <3>3
    <3>5. f # 0 /\ unstored \subseteq unstored'
      BY <2>6, <3>1
    <3>. QED
      BY <2>2, <2>6, <3>1, <3>2, <3>4, <3>5, AnswerStep
  <2>. QED
    BY <1>9, <2>3, <2>4, <2>5, <2>6 DEF Served, Apply
<1>. QED
  BY <1>3, <1>4, <1>5, <1>6, <1>7, <1>8, <1>9, NetSteps

-----------------------------------------------------------------------------
(* The invariant holds.                                                    *)

AgentInv == Typed /\ HoldInv /\ PlaceInv /\ CountInv /\ AnswerInv

LEMMA AgentInit ==
  ASSUME Init
  PROVE  AgentInv
<1>1. /\ data = [poll |-> 0, sys |-> 0] /\ reports = <<>> /\ offering = FALSE /\ sendCh = <<>>
      /\ worker = [w \in Workers |-> Idle] /\ attempt = [w \in Workers |-> 0]
      /\ net = {} /\ answers = {} /\ pollTotal = 0 /\ applied = [r \in 1..MaxReports |-> 0]
      /\ unstored = {} /\ done = {} /\ delivered = {} /\ faults = 0
  BY DEF Init
<1>2. Len(reports) = 0 /\ Len(sendCh) = 0 /\ Started = 0
  BY <1>1 DEF Started, Offered
<1>3. DataTyped /\ QueueTyped /\ QueueInv
  <2>1. 0 \in 0..MaxPolls /\ 0 <= MaxReports /\ 0 <= RateLimit
    BY AgentAssumption
  <2>2. data \in Sample
    BY <1>1, <2>1 DEF Sample
  <2>3. reports \in Seq(Sample) /\ sendCh \in Seq(Nat)
    BY <1>1
  <2>4. 1..Len(sendCh) = {}
    BY <1>2
  <2>5. QueueInv
    BY <1>1, <1>2, <2>4 DEF QueueInv
  <2>6. QueueTyped
    BY <1>1, <1>2, <2>1, <2>3 DEF QueueTyped
  <2>. QED
    BY <1>2, <2>1, <2>2, <2>3, <2>5, <2>6 DEF DataTyped
<1>4. WorkerTyped
  <2>1. 0 \in 0..MaxReports /\ 0 \in 0..Backoffs
    BY AgentAssumption, BackoffsAssumption
  <2>. QED
    BY <1>1, <2>1 DEF WorkerTyped, Idle
<1>5. NetTyped /\ HistoryTyped
  BY <1>1, FS_EmptySet DEF NetTyped, HistoryTyped
<1>6. \A w \in Workers : worker[w].at = "idle"
  BY <1>1 DEF Idle
<1>7. HoldInv
  BY <1>6 DEF HoldInv, Holds
<1>8. PlaceInv
  <2>1. 1..Started = {}
    BY <1>2
  <2>. QED
    BY <1>1, <2>1 DEF PlaceInv
<1>9. CountInv
  <2>1. \A r \in 1..MaxReports : Cardinality(Requests(r)) = 0
    BY <1>1, FS_EmptySet DEF Requests
  <2>2. \A r \in 1..MaxReports : CountOf(r) = 0
    BY <1>1, <2>1 DEF CountOf
  <2>3. \A w \in Workers : \A r : ~Holds(w, r)
    BY <1>6 DEF Holds
  <2>. QED
    BY <1>1, <2>2, <2>3, BackoffsAssumption DEF CountInv
<1>10. AnswerInv
  BY <1>1 DEF AnswerInv
<1>. QED
  BY <1>3, <1>4, <1>5, <1>7, <1>8, <1>9, <1>10 DEF AgentInv, Typed

\* The invariant is inductive.
LEMMA AgentInvariant == Spec => []AgentInv
<1>1. ASSUME AgentInv, [Next]_vars
      PROVE  AgentInv'
  <2>. USE <1>1 DEF AgentInv
  <2>1. DataTyped' /\ QueueTyped' /\ QueueInv'
    BY ReportsMove
  <2>2. WorkerTyped' /\ HoldInv'
    BY WorkersTyped
  <2>3. NetTyped' /\ HistoryTyped'
    BY NetsTyped
  <2>4. PlaceInv' /\ CountInv' /\ AnswerInv'
    BY PlacesMove, CountsMove, AnswersMove
  <2>. QED
    BY <2>1, <2>2, <2>3, <2>4 DEF Typed
<1>. QED
  BY AgentInit, <1>1, PTL DEF Spec

-----------------------------------------------------------------------------
(* What follows from it.                                                   *)

\* Every variable of the agent stays in its type: the channel holds at most
\* RateLimit snapshots, DoWithRetry makes at most Backoffs + 1 attempts, and
\* requests, answers and ends are about reports that were taken.
THEOREM AgentTypes == Spec => []TypeOK
<1>1. ASSUME AgentInv
      PROVE  TypeOK
  <2>. USE <1>1 DEF AgentInv, Typed
  <2>1. Started \in 0..Len(reports) /\ Len(reports) \in 0..MaxReports /\ Len(sendCh) \in Nat
    BY StartedType
  <2>2. \A r \in Nat : r <= Started => r <= Len(reports)
    BY <2>1, AgentAssumption
  <2>3. data \in Sample /\ \A r \in Taken : reports[r] \in Sample
    BY DEF DataTyped, Taken
  <2>4. \A i \in DOMAIN sendCh : sendCh[i] \in Taken
    <3>1. ASSUME NEW i \in 1..Len(sendCh)
          PROVE  Started + i \in 1..Len(reports)
      <4>1. Started + Len(sendCh) <= Len(reports)
        BY <2>1 DEF Started, Offered
      <4>. QED
        BY <2>1, <4>1
    <3>2. DOMAIN sendCh = 1..Len(sendCh)
      BY DEF QueueTyped
    <3>. QED
      BY <3>1, <3>2 DEF QueueInv, Taken
  <2>5. net \subseteq [report : Taken, attempt : 0..Backoffs, whole : BOOLEAN]
    <3>1. ASSUME NEW m \in net
          PROVE  m \in Messages /\ m.report \in Taken
      <4>1. m \in Messages /\ m.report \in 1..MaxReports /\ m.report <= Started
        BY ZenonT(30) DEF NetTyped, Messages, PlaceInv
      <4>. QED
        BY <2>1, <4>1, AgentAssumption DEF Taken
    <3>. QED
      BY <3>1 DEF Messages
  <2>6. \A a \in answers : a.to.report \in Taken /\ a.status \in {200, 400, 500}
    <3>1. ASSUME NEW a \in answers
          PROVE  a.to.report \in Taken
      <4>1. a.to.report \in 1..MaxReports /\ a.to.report <= Started
        BY DEF NetTyped, Messages, PlaceInv
      <4>. QED
        BY <2>1, <4>1, AgentAssumption DEF Taken
    <3>. QED
      BY <3>1 DEF NetTyped
  <2>7. done \subseteq Taken /\ delivered \subseteq done /\ unstored \subseteq Taken
    <3>1. \A r \in 1..Started : r \in Taken
      BY <2>1 DEF Taken
    <3>. QED
      BY <3>1 DEF PlaceInv
  <2>. QED
    BY <2>3, <2>4, <2>5, <2>6, <2>7
       DEF TypeOK, Sample, QueueTyped, WorkerTyped, HistoryTyped
<1>. QED
  BY <1>1, AgentInvariant, PTL

\* A report is applied at most once more than calls have failed and at most
\* Backoffs + 1 times, whatever gets lost or is handled late.
THEOREM RetriesAreBounded == Spec => []AppliedBounded
<1>1. ASSUME AgentInv
      PROVE  AppliedBounded
  <2>1. \A r \in Taken : r \in 1..MaxReports
    <3>1. Len(reports) \in 0..MaxReports
      BY <1>1, StartedType DEF AgentInv, Typed
    <3>. QED
      BY <3>1, AgentAssumption DEF Taken
  <2>2. ASSUME NEW r \in 1..MaxReports
        PROVE  applied[r] <= 1 + faults /\ applied[r] <= 1 + Backoffs
    <3>1. Cardinality(Requests(r)) \in Nat /\ applied[r] \in Nat
      BY <1>1, CountType DEF AgentInv
    <3>2. CountOf(r) <= 1 + Backoffs /\ CountOf(r) <= 1 + faults
      BY <1>1 DEF AgentInv, CountInv
    <3>3. faults \in Nat
      BY <1>1 DEF AgentInv, Typed, HistoryTyped
    <3>. QED
      BY <3>1, <3>2, <3>3, BackoffsAssumption DEF CountOf
  <2>. QED
    BY <2>1, <2>2 DEF AppliedBounded
<1>. QED
  BY <1>1, AgentInvariant, PTL

\* When the server accepts the signatures the agent sends (the agent has no key,
\* or the server none or "none"), what a worker holds for delivered was applied
\* or is a report that the storage failed on and that was answered 400.  With a
\* key on both sides it need be neither: agent_signed.cfg.
THEOREM DeliveredIsApplied ==
  ASSUME HashAccepted
  PROVE  Spec => []ReportApplied
<1>1. ASSUME AgentInv, HashAccepted
      PROVE  ReportApplied
  BY <1>1 DEF AgentInv, AnswerInv, ReportApplied
<1>. QED
  BY <1>1, AgentInvariant, PTL

\* A report that was applied has gone to a worker.
LEMMA AppliedWasTaken ==
  ASSUME AgentInv, NEW r \in 1..MaxReports, applied[r] > 0
  PROVE  r \in 1..Started /\ HashAccepted
<1>1. Cardinality(Requests(r)) \in Nat /\ applied[r] \in Nat
  BY CountType DEF AgentInv
<1>2. CountOf(r) # 0
  BY <1>1 DEF CountOf
<1>3. Started \in 0..Len(reports)
  BY StartedType DEF AgentInv, Typed
<1>4. ~(r > Started)
  BY <1>2 DEF AgentInv, CountInv
<1>5. r \in 1..Started
  BY <1>3, <1>4, AgentAssumption
<1>6. HashAccepted
  BY <1>1 DEF AgentInv, AnswerInv
<1>. QED
  BY <1>5, <1>6

\* While no call fails, what is still to come before a report is with workers,
\* and with all but one at most.
LEMMA OvertakenAreHeld ==
  ASSUME AgentInv, faults = 0, NEW r \in 1..MaxReports, applied[r] > 0
  PROVE  Cardinality({q \in 1..(r - 1) : ~EmptySnapshot(q) /\ applied[q] = 0}) < RateLimit
<1>. DEFINE W == {q \in 1..(r - 1) : ~EmptySnapshot(q) /\ applied[q] = 0}
<1>1. r \in 1..Started /\ HashAccepted
  BY AppliedWasTaken
<1>2. PICK w \in Workers : \A q \in 1..(r - 1) : ~Holds(w, q)
  BY <1>1 DEF AgentInv, PlaceInv
<1>3. ASSUME NEW q \in W
      PROVE  \E v \in Workers \ {w} : Holds(v, q)
  <2>1. q \in 1..Started
    <3>1. Started \in 0..Len(reports) /\ Len(reports) \in Nat
      BY StartedType DEF AgentInv, Typed
    <3>. QED
      BY <1>1, <3>1
  <2>2. q \notin done
    BY <1>1 DEF AgentInv, AnswerInv
  <2>3. \E v \in Workers : Holds(v, q)
    BY <2>1, <2>2 DEF AgentInv, PlaceInv
  <2>. QED
    BY <1>2, <2>3
<1>. DEFINE V == {v \in Workers \ {w} : \E q \in W : Holds(v, q)}
            f == [v \in V |-> worker[v].report]
<1>4. f \in Surjection(V, W)
  <2>1. \A v \in V : f[v] \in W
    BY DEF Holds
  <2>2. \A q \in W : \E v \in V : f[v] = q
    BY <1>3 DEF Holds
  <2>. QED
    BY <2>1, <2>2 DEF Surjection
<1>5. IsFiniteSet(Workers \ {w}) /\ Cardinality(Workers \ {w}) = RateLimit - 1
  <2>1. IsFiniteSet(Workers) /\ Cardinality(Workers) = RateLimit
    BY <1>2, AgentAssumption, FS_Interval, SMTT(30) DEF Workers
  <2>. QED
    BY <1>2, <2>1, FS_RemoveElement
<1>6. IsFiniteSet(V) /\ Cardinality(V) <= RateLimit - 1 /\ Cardinality(V) \in Nat
  <2>1. V \in SUBSET (Workers \ {w})
    OBVIOUS
  <2>. QED
    BY <1>5, <2>1, FS_Subset, FS_CardinalityType
<1>7. IsFiniteSet(W) /\ Cardinality(W) <= Cardinality(V) /\ Cardinality(W) \in Nat
  BY <1>4, <1>6, FS_Surjection, FS_CardinalityType
<1>. QED
  BY <1>6, <1>7, AgentAssumption

\* While no call fails, fewer than RateLimit earlier reports are still to come
\* when one is applied: workers take them in order from one channel, and hold
\* one each.
THEOREM OvertakingIsBounded == Spec => []OvertakingBounded
<1>1. ASSUME AgentInv
      PROVE  OvertakingBounded
  <2>1. \A r \in Taken : r \in 1..MaxReports
    <3>1. Len(reports) \in 0..MaxReports
      BY <1>1, StartedType DEF AgentInv, Typed
    <3>. QED
      BY <3>1, AgentAssumption DEF Taken
  <2>. QED
    BY <1>1, <2>1, OvertakenAreHeld DEF OvertakingBounded
<1>. QED
  BY <1>1, AgentInvariant, PTL

\* With a key on both sides, and one other than "none" on the server's
\* (hash.go:28), the server applies no report at all: it compares
\* the hex of the HMAC of the compressed body with the base64 of the HMAC of
\* the JSON (hash.go:53, sender.go:47, 175).
THEOREM SignedIsNeverApplied ==
  ASSUME AgentKey # NoKey, ServerKey \notin {NoKey, NoneKey}
  PROVE  Spec => [](\A r \in 1..MaxReports : applied[r] = 0)
<1>1. ~HashAccepted
  BY DEF HashAccepted, SentHash, NoHeader, ComputedHash
<1>2. ASSUME AgentInv, ~HashAccepted
      PROVE  \A r \in 1..MaxReports : applied[r] = 0
  BY <1>2 DEF AgentInv, AnswerInv
<1>. QED
  BY <1>1, <1>2, AgentInvariant, PTL
=============================================================================
