--------------------------- MODULE ServiceProofs ---------------------------
(***************************************************************************)
(* What Service guarantees for any handlers, names, requests and values,   *)
(* whatever calls it: the counters hold the sum of all that was asked for, *)
(* and answers are current and complete.  The steps of a router around it  *)
(* are given by what they do to Service's variables (ServiceMoves).        *)
(***************************************************************************)
EXTENDS Service, Sums, SequenceTheorems, WellFoundedInduction

\* A sequence with one element is not empty.
LEMMA OneElement ==
  ASSUME NEW S, NEW s \in Seq(S), Len(s) = 1
  PROVE  s # <<>>
<1>1. Len(<<>>) = 0
  OBVIOUS
<1>. QED
  BY <1>1

-----------------------------------------------------------------------------
(* int64 arithmetic.                                                       *)

\* Wrap gives the place of an integer in Int64.
LEMMA WrapIsWrapped ==
  /\ MaxInt \in Nat /\ Int64 = Places(MaxInt)
  /\ \A a : Wrap(a) = Wrapped(MaxInt, a)
BY ServiceAssumption DEF Int64, Places, Wrap, Wrapped, Modulus

LEMMA WrapPlace ==
  ASSUME NEW a \in Int
  PROVE  Wrap(a) \in Int64
BY WrapIsWrapped, WrappedPlace

LEMMA WrapSame ==
  ASSUME NEW v \in Int64
  PROVE  Wrap(v) = v
BY WrapIsWrapped, WrappedSame

LEMMA WrapSum ==
  ASSUME NEW a \in Int, NEW d \in Int
  PROVE  Wrap(Wrap(a) + d) = Wrap(a + d)
BY WrapIsWrapped, WrappedSum

\* Sums with the same place keep it when the same is added.
LEMMA WrapCongruent ==
  ASSUME NEW a \in Int, NEW b \in Int, NEW d \in Int, Wrap(a) = Wrap(b)
  PROVE  Wrap(a + d) = Wrap(b + d)
BY WrapSum

\* The deltas of the first items of a sequence, summed up one by one.
LEMMA DeltasSum ==
  ASSUME NEW items \in Seq(Items), NEW n \in Names
  PROVE  /\ \A k \in 1..Len(items) : DeltaOf(items[k], n) \in Int
         /\ \A k \in 0..Len(items) : DeltasUpTo(items, n)[k] \in Int
         /\ DeltasUpTo(items, n)[0] = 0
         /\ \A k \in 1..Len(items) :
              DeltasUpTo(items, n)[k] = DeltasUpTo(items, n)[k - 1] + DeltaOf(items[k], n)
<1>. DEFINE L == Len(items)
            d == [k \in 1..L |-> DeltaOf(items[k], n)]
            Rec(f) == [k \in 0..L |-> IF k = 0 THEN 0 ELSE f[k - 1] + DeltaOf(items[k], n)]
            sum == DeltasUpTo(items, n)
<1>1. L \in Nat
  OBVIOUS
<1>2. \A k \in 1..L : DeltaOf(items[k], n) \in Int
  BY ServiceAssumption DEF DeltaOf, Int64
<1>3. sum = CHOOSE f : f = Rec(f)
  BY DEF DeltasUpTo
<1>4. PICK f : UpTo(f, d, L)
  <2>1. \A k \in 1..L : d[k] \in Int
    BY <1>2
  <2>. HIDE DEF d, L
  <2>. QED
    BY <1>1, <2>1, UpToExists
<1>5. f = Rec(f)
  <2>1. f \in [0..L -> Int] /\ f[0] = 0 /\ \A k \in 1..L : f[k] = f[k - 1] + d[k]
    BY <1>4 DEF UpTo
  <2>2. \A k \in 0..L : f[k] = Rec(f)[k]
    <3>. TAKE k \in 0..L
    <3>1. CASE k = 0
      BY <2>1, <3>1
    <3>2. CASE k # 0
      <4>1. k \in 1..L
        BY <1>1, <3>2
      <4>. QED
        BY <2>1, <3>2, <4>1
    <3>. QED
      BY <3>1, <3>2
  <2>. QED
    BY <2>1, <2>2
<1>6. sum = Rec(sum)
  <2>. HIDE DEF sum
  <2>. QED
    BY <1>3, <1>5
<1>7. ASSUME NEW k \in 1..L
      PROVE  sum[k] = sum[k - 1] + DeltaOf(items[k], n)
  <2>1. k \in 0..L /\ k # 0
    BY <1>1
  <2>. HIDE DEF sum
  <2>. QED
    BY <1>6, <2>1
<1>8. sum[0] = 0
  <2>1. 0 \in 0..L
    BY <1>1
  <2>. HIDE DEF sum
  <2>. QED
    BY <1>6, <2>1
<1>9. \A k \in 0..L : sum[k] \in Int
  <2>. DEFINE Bad == {k \in 0..L : sum[k] \notin Int}
  <2>1. SUFFICES ASSUME Bad # {}
                 PROVE  FALSE
    BY <2>1
  <2>2. PICK k \in Bad : \A u \in Bad : k <= u
    <3>1. Bad \in SUBSET Nat
      BY <1>1
    <3>. HIDE DEF Bad
    <3>. QED
      BY <2>1, <3>1, Least
  <2>3. k \in 0..L /\ sum[k] \notin Int
    OBVIOUS
  <2>4. k # 0
    BY <1>8, <2>3
  <2>5. k \in 1..L /\ k - 1 \in 0..L /\ ~(k <= k - 1)
    BY <1>1, <2>3, <2>4
  <2>6. sum[k - 1] \in Int
    <3>1. k - 1 \notin Bad
      <4>. HIDE DEF Bad
      <4>. QED
        BY <2>2, <2>5
    <3>. HIDE DEF sum
    <3>. QED
      BY <2>5, <3>1
  <2>. HIDE DEF sum
  <2>. QED
    BY <1>2, <1>7, <2>3, <2>5, <2>6
<1>. QED
  BY <1>2, <1>7, <1>8, <1>9

-----------------------------------------------------------------------------
(* Types, and where each handler can be with which request.                *)

Stages == {"idle", "refused", "update", "read", "list", "answer", "returned"}

Shown == [mtype : {"gauge", "counter"}, id : Names, val : GaugeValues \cup Int64]

StorageTyped ==
  /\ gauges \in [Names -> GaugeValues \cup {Absent}]
  /\ counters \in [Names -> Int64 \cup {Absent}]

RequestTyped ==
  /\ at \in [Handlers -> Stages]
  /\ req \in [Handlers -> Requests \cup {NoRequest}]
  /\ todo \in [Handlers -> Seq(Items)]
  /\ result \in [Handlers -> SUBSET Shown]
  /\ seen \in [Handlers -> SUBSET Shown]
  /\ existed \in [Handlers -> SUBSET ({"gauge", "counter"} \X Names)]

AnswerTyped ==
  /\ status \in [Handlers -> {0, 200, 400, 404, 500}]
  /\ blank \in [Handlers -> BOOLEAN]

CountTyped == asked \in [Names -> Int] /\ served \in 0..MaxRequests

ServiceTyped == StorageTyped /\ RequestTyped /\ AnswerTyped /\ CountTyped

\* What h still has to do is the end of what it was asked to do.
Remains(h) ==
  LET n == Len(req[h].items)
  IN  /\ Len(todo[h]) \in 1..n
      /\ \A i \in 1..Len(todo[h]) : todo[h][i] = req[h].items[n - Len(todo[h]) + i]

StageOf(h) ==
  /\ at[h] # "idle" => req[h] \in Requests
  /\ at[h] = "update" => req[h].kind \in {"path", "json", "batch"} /\ result[h] = {}
  /\ at[h] = "read" => req[h].kind \in {"json", "batch", "value", "get"}
  /\ at[h] = "list" => req[h].kind = "list"
  /\ at[h] \in {"update", "read"} => Remains(h)

StageInv == \A h \in Handlers : StageOf(h)

\* What is known of a request and of its items.
LEMMA RequestFacts ==
  ASSUME NEW r \in Requests
  PROVE  /\ r.kind \in Kinds /\ r.items \in Seq(Items) /\ Len(r.items) \in Nat
         /\ r.kind # "list" => Len(r.items) >= 1
         /\ r.kind \notin {"list", "batch"} => Len(r.items) = 1
         /\ \A k \in 1..Len(r.items) :
              /\ r.items[k] \in Items
              /\ r.items[k].val \in Int64 => r.items[k].mtype = "counter"
              /\ r.items[k].val \in GaugeValues => r.items[k].mtype = "gauge"
              /\ r.items[k].val = Invalid => r.kind = "path"
<1>1. ServiceRequestOK(r)
  BY ServiceAssumption
<1>2. r.kind \in Kinds /\ r.items \in Seq(Items) /\ Len(r.items) \in Nat
  BY <1>1 DEF ServiceRequestOK
<1>3. r.kind # "list" => Len(r.items) >= 1
  <2>1. r.kind # "list" => r.items # <<>>
    BY <1>1 DEF ServiceRequestOK
  <2>. QED
    BY <1>2, <2>1, EmptySeq
<1>4. r.kind \notin {"list", "batch"} => Len(r.items) = 1
  <2>. SUFFICES ASSUME r.kind # "list", r.kind # "batch"
                PROVE  Len(r.items) = 1
    OBVIOUS
  <2>1. Len(r.items) <= 1 /\ Len(r.items) >= 1
    BY <1>1, <1>3 DEF ServiceRequestOK
  <2>2. \A n \in Nat : n <= 1 /\ n >= 1 => n = 1
    OBVIOUS
  <2>. QED
    BY <1>2, <2>1, <2>2
<1>5. DOMAIN r.items = 1..Len(r.items)
  BY <1>2
<1>6. ASSUME NEW k \in 1..Len(r.items)
      PROVE  /\ r.items[k] \in Items
             /\ r.items[k].val \in Int64 => r.items[k].mtype = "counter"
             /\ r.items[k].val \in GaugeValues => r.items[k].mtype = "gauge"
             /\ r.items[k].val = Invalid => r.kind = "path"
  <2>1. r.items[k] \in Items
    BY <1>2
  <2>. QED
    BY <1>1, <1>5, <2>1 DEF ServiceRequestOK
<1>. QED
  BY <1>2, <1>3, <1>4, <1>6

\* An item that the handlers may apply: its value fits its type.
Fits(x) ==
  /\ x \in Items /\ x.val # Invalid
  /\ x.val \in Int64 => x.mtype = "counter"
  /\ x.val \in GaugeValues => x.mtype = "gauge"

\* What a counter holds as a number is an int64.
LEMMA NumberType ==
  ASSUME StorageTyped, NEW n \in Names
  PROVE  Number(counters[n]) \in Int64 /\ Number(counters[n]) \in Int
<1>1. 0 \in Int64 /\ \A v \in Int64 : v \in Int
  BY ServiceAssumption DEF Int64
<1>2. counters[n] \in Int64 \cup {Absent}
  BY DEF StorageTyped
<1>. QED
  BY <1>1, <1>2 DEF Number

\* What an update does to the two maps.
LEMMA ApplyEffect ==
  ASSUME StorageTyped, NEW x, Fits(x), Apply(x)
  PROVE  /\ StorageTyped'
         /\ \A n \in Names : /\ counters[n] # Absent => counters'[n] # Absent
                             /\ gauges[n] # Absent => gauges'[n] # Absent
         /\ Accepted(x) =>
              (IF x.mtype = "counter" THEN counters'[x.id] ELSE gauges'[x.id]) # Absent
         /\ \A n \in Names : Number(counters'[n]) = Wrap(Number(counters[n]) + DeltaOf(x, n))
<1>a. Absent \notin GaugeValues /\ Absent \notin Int64 /\ Nil \notin Int64 /\ Nil \notin GaugeValues
  BY ServiceAssumption
<1>x. /\ x.mtype \in {"gauge", "counter", "other"} /\ x.id \in Names
      /\ x.val \in Int64 \cup GaugeValues \cup {Nil}
      /\ x.mtype = "counter" => x.val \in Int64 \cup {Nil}
      /\ x.mtype = "gauge" => x.val \in GaugeValues \cup {Nil}
      /\ x.val \in Int64 <=> x.mtype = "counter" /\ x.val # Nil
  BY <1>a DEF Fits, Items
<1>s. \A n \in Names : Number(counters[n]) \in Int64 /\ Number(counters[n]) \in Int
  BY NumberType
<1>w. \A n \in Names : Number(counters[n]) = Wrap(Number(counters[n]))
  BY <1>s, WrapSame
<1>g. /\ gauges' \in [Names -> GaugeValues \cup {Absent}]
      /\ \A n \in Names : gauges[n] # Absent => gauges'[n] # Absent
      /\ x.mtype = "gauge" /\ x.val # Nil => gauges'[x.id] # Absent
  BY <1>a, <1>x DEF Apply, StorageTyped
<1>1. CASE x.mtype = "counter" /\ x.val # Nil
  <2>1. x.val \in Int64 /\ x.val \in Int
    BY <1>x, <1>1, ServiceAssumption DEF Int64
  <2>2. counters' = [counters EXCEPT ![x.id] = Wrap(Number(counters[x.id]) + x.val)]
    BY <1>1 DEF Apply, Sum
  <2>3. Wrap(Number(counters[x.id]) + x.val) \in Int64
    BY <1>s, <1>x, <2>1, WrapPlace
  <2>4. /\ counters' \in [Names -> Int64 \cup {Absent}]
        /\ counters'[x.id] = Wrap(Number(counters[x.id]) + x.val)
        /\ \A n \in Names \ {x.id} : counters'[n] = counters[n]
    BY <1>x, <2>2, <2>3 DEF StorageTyped
  <2>5. counters'[x.id] # Absent /\ Number(counters'[x.id]) = counters'[x.id]
    BY <1>a, <2>3, <2>4 DEF Number
  <2>6. ASSUME NEW n \in Names
        PROVE  Number(counters'[n]) = Wrap(Number(counters[n]) + DeltaOf(x, n))
    <3>1. CASE n = x.id
      <4>1. DeltaOf(x, n) = x.val
        BY <2>1, <3>1 DEF DeltaOf
      <4>. QED
        BY <2>4, <2>5, <3>1, <4>1
    <3>2. CASE n # x.id
      <4>1. DeltaOf(x, n) = 0 /\ counters'[n] = counters[n]
        BY <2>4, <3>2 DEF DeltaOf
      <4>2. Number(counters[n]) + 0 = Number(counters[n])
        BY <1>s
      <4>. QED
        BY <1>w, <4>1, <4>2
    <3>. QED
      BY <3>1, <3>2
  <2>. QED
    BY <1>1, <1>g, <2>4, <2>5, <2>6 DEF StorageTyped, Stored, Accepted
<1>2. CASE ~(x.mtype = "counter" /\ x.val # Nil)
  <2>1. counters' = counters
    BY <1>2 DEF Apply
  <2>2. ASSUME NEW n \in Names
        PROVE  Number(counters'[n]) = Wrap(Number(counters[n]) + DeltaOf(x, n))
    <3>1. DeltaOf(x, n) = 0 /\ Number(counters[n]) + 0 = Number(counters[n])
      BY <1>2, <1>x, <1>s DEF DeltaOf
    <3>. QED
      BY <1>w, <2>1, <3>1
  <2>3. Accepted(x) => x.mtype = "gauge" /\ x.val # Nil
    BY <1>2, <1>x DEF Accepted
  <2>. QED
    BY <1>g, <2>1, <2>2, <2>3 DEF StorageTyped, Stored
<1>. QED
  BY <1>1, <1>2

\* What is in memory can be shown.
LEMMA HeldType ==
  ASSUME StorageTyped
  PROVE  /\ Held \in SUBSET Shown
         /\ {<<m.mtype, m.id>> : m \in Held} \in SUBSET ({"gauge", "counter"} \X Names)
<1>1. Held \in SUBSET Shown
  BY DEF StorageTyped, Held, Shown, Metric
<1>. QED
  BY <1>1 DEF Shown

-----------------------------------------------------------------------------
(* The steps of a router around Service, by what they do to its variables. *)

\* It answers a request without calling a handler.
Refused(h, r) ==
  /\ at[h] = "idle" /\ served < MaxRequests
  /\ served' = served + 1
  /\ req' = [req EXCEPT ![h] = r]
  /\ at' = [at EXCEPT ![h] = "refused"]
  /\ UNCHANGED <<storage, todo, result, status, blank, seen, existed, asked>>

Returns(h) ==
  /\ at[h] = "answer"
  /\ at' = [at EXCEPT ![h] = "returned"]
  /\ UNCHANGED <<storage, req, todo, result, status, blank, seen, existed, asked, served>>

ServiceMoves ==
  \/ \E h \in Handlers, r \in Requests :
       Refused(h, r) \/ (at[h] = "idle" /\ \E parses \in BOOLEAN : Begin(h, r, parses))
  \/ \E h \in Handlers :
       \/ ServiceStep(h)
       \/ Returns(h)
       \/ at[h] \in {"refused", "returned"} /\ Done(h)
  \/ UNCHANGED service

\* The items that h has still to do, seen from the request.
LEMMA NextItem ==
  ASSUME ServiceTyped, StageInv, NEW h \in Handlers, at[h] \in {"update", "read"}
  PROVE  /\ req[h] \in Requests /\ todo[h] \in Seq(Items) /\ todo[h] # <<>>
         /\ Len(req[h].items) \in Nat /\ Len(todo[h]) \in 1..Len(req[h].items)
         /\ Head(todo[h]) = req[h].items[Len(req[h].items) - Len(todo[h]) + 1]
         /\ Head(todo[h]) \in Items
         /\ Tail(todo[h]) \in Seq(Items) /\ Len(Tail(todo[h])) = Len(todo[h]) - 1
         /\ \A i \in 1..Len(Tail(todo[h])) :
              Tail(todo[h])[i] = req[h].items[Len(req[h].items) - Len(Tail(todo[h])) + i]
<1>1. req[h] \in Requests /\ todo[h] \in Seq(Items) /\ Remains(h)
  BY DEF ServiceTyped, RequestTyped, StageInv, StageOf
<1>2. Len(req[h].items) \in Nat /\ req[h].items \in Seq(Items)
  BY <1>1, RequestFacts
<1>. DEFINE n == Len(req[h].items)
            m == Len(todo[h])
<1>3. m \in 1..n /\ \A i \in 1..m : todo[h][i] = req[h].items[n - m + i]
  BY <1>1 DEF Remains
<1>4. todo[h] # <<>>
  BY <1>1, <1>3, EmptySeq
<1>5. /\ Head(todo[h]) = todo[h][1] /\ Head(todo[h]) \in Items
      /\ Tail(todo[h]) \in Seq(Items) /\ Len(Tail(todo[h])) = m - 1
      /\ \A i \in 1..Len(Tail(todo[h])) : Tail(todo[h])[i] = todo[h][i + 1]
  BY <1>1, <1>4, HeadTailProperties
<1>6. \A i \in 1..Len(Tail(todo[h])) :
        Tail(todo[h])[i] = req[h].items[n - Len(Tail(todo[h])) + i]
  <2>. TAKE i \in 1..Len(Tail(todo[h]))
  <2>1. /\ i + 1 \in 1..m /\ n - m + (i + 1) = n - Len(Tail(todo[h])) + i
        /\ Tail(todo[h])[i] = todo[h][i + 1]
    <3>1. n \in Nat /\ m \in 1..n /\ Len(Tail(todo[h])) = m - 1 /\ i \in 1..(m - 1)
      BY <1>2, <1>3, <1>5
    <3>2. i + 1 \in 1..m /\ n - m + (i + 1) = n - (m - 1) + i
      <4>. HIDE DEF n, m
      <4>. QED
        BY <3>1
    <3>. QED
      BY <1>5, <3>1, <3>2
  <2>2. todo[h][i + 1] = req[h].items[n - m + (i + 1)]
    BY <1>3, <2>1
  <2>. QED
    BY <2>1, <2>2
<1>7. 1 \in 1..m
  BY <1>2, <1>3
<1>. QED
  BY <1>1, <1>2, <1>3, <1>4, <1>5, <1>6, <1>7

\* The item that is to be applied next fits.
LEMMA ItemFits ==
  ASSUME ServiceTyped, StageInv, NEW h \in Handlers, at[h] = "update"
  PROVE  /\ req[h].kind = "batch" => Fits(Head(todo[h]))
         /\ req[h].kind # "batch" =>
              /\ Len(req[h].items) = 1 /\ Head(req[h].items) = req[h].items[1]
              /\ req[h].items[1] \in Items
              /\ Accepted(req[h].items[1]) => Fits(req[h].items[1])
<1>1. req[h] \in Requests /\ req[h].kind \in {"path", "json", "batch"}
  BY DEF StageInv, StageOf
<1>. DEFINE n == Len(req[h].items)
            k == n - Len(todo[h]) + 1
<1>2. n \in Nat /\ Len(todo[h]) \in 1..n /\ Head(todo[h]) = req[h].items[k]
  BY NextItem
<1>3. k \in 1..n
  <2>1. n \in Nat /\ Len(todo[h]) \in 1..n
    BY <1>2
  <2>. HIDE DEF n
  <2>. QED
    BY <2>1
<1>4. ASSUME req[h].kind = "batch"
      PROVE  Fits(Head(todo[h]))
  <2>. HIDE DEF n, k
  <2>1. \A i \in 1..Len(req[h].items) :
          /\ req[h].items[i] \in Items
          /\ req[h].items[i].val \in Int64 => req[h].items[i].mtype = "counter"
          /\ req[h].items[i].val \in GaugeValues => req[h].items[i].mtype = "gauge"
          /\ req[h].items[i].val # Invalid
    BY <1>1, <1>4, RequestFacts
  <2>. QED
    BY <1>2, <1>3, <2>1 DEF Fits, n
<1>5. ASSUME req[h].kind # "batch"
      PROVE  /\ n = 1 /\ Head(req[h].items) = req[h].items[1]
             /\ req[h].items[1] \in Items
             /\ Accepted(req[h].items[1]) => Fits(req[h].items[1])
  <2>1. n = 1 /\ req[h].items \in Seq(Items)
    BY <1>1, <1>5, RequestFacts
  <2>2. 1 \in 1..n
    BY <2>1
  <2>3. req[h].items # <<>>
    BY <2>1, OneElement DEF n
  <2>. QED
    BY <1>1, <2>1, <2>2, <2>3, RequestFacts, HeadTailProperties DEF Fits, Accepted
<1>. QED
  BY <1>4, <1>5

\* A whole request remains when its items are begun.
LEMMA AllRemain ==
  ASSUME NEW h \in Handlers, req'[h] \in Requests, todo'[h] = req'[h].items,
         req'[h].kind # "list"
  PROVE  Remains(h)'
<1>. DEFINE n == Len(req'[h].items)
<1>1. n \in Nat /\ n >= 1
  BY RequestFacts
<1>2. Len(todo'[h]) = n
  OBVIOUS
<1>3. \A i \in 1..n : n - n + i = i
  BY <1>1
<1>. QED
  BY <1>1, <1>2, <1>3 DEF Remains

\* Where each kind of request begins, and how it is answered when there is no
\* such metric.
LEMMA StepTables ==
  /\ \A k \in Kinds :
       /\ FirstStep[k] = "update" <=> k \in {"path", "json", "batch"}
       /\ FirstStep[k] = "read" <=> k \in {"value", "get"}
       /\ FirstStep[k] = "list" <=> k = "list"
       /\ FirstStep[k] \in {"update", "read", "list"}
  /\ \A k \in {"json", "value", "get"} : NotFound[k] \in {404, 500}
BY DEF Kinds, FirstStep, NotFound

\* Only h's own stage changes.
LEMMA StageKept ==
  ASSUME StageInv, NEW h \in Handlers, StageOf(h)',
         \A g \in Handlers \ {h} :
           at'[g] = at[g] /\ req'[g] = req[g] /\ todo'[g] = todo[g] /\ result'[g] = result[g]
  PROVE  StageInv'
<1>1. ASSUME NEW g \in Handlers \ {h}
      PROVE  StageOf(g)'
  <2>1. StageOf(g)
    BY DEF StageInv
  <2>2. Remains(g) => Remains(g)'
    BY DEF Remains
  <2>. QED
    BY <2>1, <2>2 DEF StageOf
<1>. QED
  BY <1>1 DEF StageInv

\* What is written while h reads stays showable.
LEMMA SeesTyped ==
  ASSUME ServiceTyped, StorageTyped', NEW h \in Handlers, NEW begins \in BOOLEAN, Sees(h, begins)
  PROVE  seen' \in [Handlers -> SUBSET Shown]
<1>1. Held' \in SUBSET Shown
  BY DEF StorageTyped, Held, Shown, Metric
<1>. QED
  BY <1>1 DEF Sees, ServiceTyped, RequestTyped

\* An answer has a status and a body or none.
LEMMA AnswerKept ==
  ASSUME AnswerTyped, NEW h \in Handlers,
         NEW code \in {0, 200, 400, 404, 500}, NEW noBody \in BOOLEAN,
         status' = [status EXCEPT ![h] = code], blank' = [blank EXCEPT ![h] = noBody]
  PROVE  AnswerTyped'
<1>1. status' \in [Handlers -> {0, 200, 400, 404, 500}]
  <2>1. status \in [Handlers -> {0, 200, 400, 404, 500}]
    BY DEF AnswerTyped
  <2>. QED
    BY <2>1
<1>2. blank' \in [Handlers -> BOOLEAN]
  <2>1. blank \in [Handlers -> BOOLEAN]
    BY DEF AnswerTyped
  <2>. QED
    BY <2>1
<1>. QED
  BY <1>1, <1>2 DEF AnswerTyped

\* A request that is begun.
LEMMA BeginTyped ==
  ASSUME ServiceTyped, StageInv, NEW h \in Handlers, NEW r \in Requests,
         NEW parses \in BOOLEAN, Begin(h, r, parses)
  PROVE  ServiceTyped' /\ StageInv'
<1>1. r.kind \in Kinds /\ r.items \in Seq(Items)
  BY RequestFacts
<1>2. \A n \in Names : Deltas(r, n) \in Int
  <2>1. Len(r.items) \in 0..Len(r.items)
    BY <1>1
  <2>. QED
    BY <1>1, <2>1, DeltasSum DEF Deltas
<1>3. /\ Held \in SUBSET Shown
      /\ {<<m.mtype, m.id>> : m \in Held} \in SUBSET ({"gauge", "counter"} \X Names)
  BY HeldType DEF ServiceTyped
<1>4. /\ at'[h] \in {FirstStep[r.kind], "answer"} /\ at' \in [Handlers -> Stages]
      /\ \A g \in Handlers \ {h} : at'[g] = at[g]
  <2>1. at' = [at EXCEPT ![h] = FirstStep[r.kind]] \/ at' = [at EXCEPT ![h] = "answer"]
    BY DEF Begin, Answer
  <2>2. FirstStep[r.kind] \in Stages /\ "answer" \in Stages
    BY <1>1, StepTables DEF Stages
  <2>. QED
    BY <2>1, <2>2 DEF ServiceTyped, RequestTyped
<1>5. AnswerTyped'
  <2>1. CASE parses
    <3>1. status' = [status EXCEPT ![h] = 200] /\ blank' = [blank EXCEPT ![h] = FALSE]
      BY <2>1 DEF Begin
    <3>. QED
      BY <3>1, AnswerKept, ZenonT(30) DEF ServiceTyped
  <2>2. CASE ~parses
    <3>1. Answer(h, 400, FALSE)
      BY <2>2 DEF Begin
    <3>2. status' = [status EXCEPT ![h] = 400] /\ blank' = [blank EXCEPT ![h] = FALSE]
      BY <3>1 DEF Answer
    <3>. QED
      BY <3>2, AnswerKept, ZenonT(30) DEF ServiceTyped
  <2>. QED
    BY <2>1, <2>2
<1>6. CountTyped'
  <2>1. asked' \in [Names -> Int]
    <3>1. asked' = asked \/ asked' = [n \in Names |-> asked[n] + Deltas(r, n)]
      BY DEF Begin
    <3>2. \A n \in Names : asked[n] \in Int /\ asked[n] + Deltas(r, n) \in Int
      BY <1>2 DEF ServiceTyped, CountTyped
    <3>. QED
      BY <3>1, <3>2 DEF ServiceTyped, CountTyped
  <2>2. served' \in 0..MaxRequests
    BY ServiceAssumption DEF Begin, ServiceTyped, CountTyped
  <2>. QED
    BY <2>1, <2>2 DEF CountTyped
<1>7. /\ req' = [req EXCEPT ![h] = r] /\ todo' = [todo EXCEPT ![h] = r.items]
      /\ result' = [result EXCEPT ![h] = {}] /\ seen' = [seen EXCEPT ![h] = Held]
      /\ existed' = [existed EXCEPT ![h] = {<<m.mtype, m.id>> : m \in Held}]
      /\ UNCHANGED storage
  BY DEF Begin
<1>8. ServiceTyped'
  <2>1. StorageTyped'
    BY <1>7 DEF ServiceTyped, StorageTyped, storage
  <2>2. RequestTyped'
    BY <1>1, <1>3, <1>4, <1>7 DEF ServiceTyped, RequestTyped
  <2>. QED
    BY <1>5, <1>6, <2>1, <2>2 DEF ServiceTyped
<1>9. /\ req'[h] = r /\ todo'[h] = r.items /\ result'[h] = {}
      /\ \A g \in Handlers \ {h} :
           req'[g] = req[g] /\ todo'[g] = todo[g] /\ result'[g] = result[g]
  BY <1>7 DEF ServiceTyped, RequestTyped
<1>10. r.kind # "list" => Remains(h)'
  BY <1>9, AllRemain
<1>11. StageOf(h)'
  BY <1>1, <1>4, <1>9, <1>10, StepTables DEF StageOf
<1>. QED
  BY <1>4, <1>8, <1>9, <1>11, StageKept

\* A single update.
LEMMA UpdateTyped ==
  ASSUME ServiceTyped, StageInv, NEW h \in Handlers, UpdateMetric(h)
  PROVE  ServiceTyped' /\ StageInv'
<1>1. /\ at[h] = "update" /\ req[h].kind \in {"path", "json"}
      /\ UNCHANGED <<req, todo, result, existed, asked, served>>
  BY DEF UpdateMetric
<1>2. Head(req[h].items) = req[h].items[1] /\ (Accepted(req[h].items[1]) => Fits(req[h].items[1]))
  BY <1>1, ItemFits
<1>3. StorageTyped' /\ seen' \in [Handlers -> SUBSET Shown]
  <2>1. CASE UNCHANGED <<storage, seen>>
    BY <2>1 DEF ServiceTyped, RequestTyped, StorageTyped, storage
  <2>2. CASE Accepted(req[h].items[1]) /\ Apply(req[h].items[1]) /\ Sees(h, TRUE)
    BY <1>2, <2>2, ApplyEffect, SeesTyped DEF ServiceTyped
  <2>. QED
    BY <1>2, <2>1, <2>2 DEF UpdateMetric
<1>4. /\ at' \in [Handlers -> Stages] /\ \A g \in Handlers \ {h} : at'[g] = at[g]
      /\ at'[h] = "answer" \/ (at'[h] = "read" /\ req[h].kind = "json")
  <2>1. \/ at' = [at EXCEPT ![h] = "answer"]
        \/ at' = [at EXCEPT ![h] = "read"] /\ req[h].kind = "json"
    BY <1>1 DEF UpdateMetric, Answer
  <2>. QED
    BY <2>1 DEF ServiceTyped, RequestTyped, Stages
<1>5. AnswerTyped'
  <2>1. CASE UNCHANGED <<status, blank>>
    BY <2>1 DEF ServiceTyped, AnswerTyped
  <2>2. CASE Answer(h, 400, FALSE)
    <3>1. status' = [status EXCEPT ![h] = 400] /\ blank' = [blank EXCEPT ![h] = FALSE]
      BY <2>2 DEF Answer
    <3>. QED
      BY <3>1, AnswerKept, ZenonT(30) DEF ServiceTyped
  <2>3. CASE Answer(h, 200, TRUE)
    <3>1. status' = [status EXCEPT ![h] = 200] /\ blank' = [blank EXCEPT ![h] = TRUE]
      BY <2>3 DEF Answer
    <3>. QED
      BY <3>1, AnswerKept, ZenonT(30) DEF ServiceTyped
  <2>. QED
    BY <2>1, <2>2, <2>3 DEF UpdateMetric
<1>6. ServiceTyped'
  <2>1. RequestTyped'
    BY <1>1, <1>3, <1>4 DEF ServiceTyped, RequestTyped
  <2>2. CountTyped'
    BY <1>1 DEF ServiceTyped, CountTyped
  <2>. QED
    BY <1>3, <1>5, <2>1, <2>2 DEF ServiceTyped
<1>7. StageOf(h)'
  <2>1. StageOf(h)
    BY DEF StageInv
  <2>. QED
    BY <1>1, <1>4, <2>1 DEF StageOf, Remains
<1>. QED
  BY <1>1, <1>4, <1>6, <1>7, StageKept

\* h goes on with the items that are left after the first.
LEMMA TailRemains ==
  ASSUME ServiceTyped, StageInv, NEW h \in Handlers, at[h] \in {"update", "read"},
         Len(todo[h]) # 1, req'[h] = req[h], todo'[h] = Tail(todo[h])
  PROVE  Remains(h)'
<1>1. /\ Len(req[h].items) \in Nat /\ Len(todo[h]) \in 1..Len(req[h].items)
      /\ Len(Tail(todo[h])) = Len(todo[h]) - 1
  BY NextItem
<1>2. Len(Tail(todo[h])) \in 1..Len(req[h].items)
  <2>1. \A n \in Nat : \A m \in 1..n : m # 1 => m - 1 \in 1..n
    OBVIOUS
  <2>. QED
    BY <1>1, <2>1
<1>3. \A i \in 1..Len(Tail(todo[h])) :
        Tail(todo[h])[i] = req[h].items[Len(req[h].items) - Len(Tail(todo[h])) + i]
  BY NextItem
<1>. QED
  BY <1>2, <1>3 DEF Remains

\* The next update of a batch.
LEMMA ApplyNextTyped ==
  ASSUME ServiceTyped, StageInv, NEW h \in Handlers, ApplyNext(h)
  PROVE  ServiceTyped' /\ StageInv'
<1>. DEFINE last == Len(todo[h]) = 1
<1>1. /\ at[h] = "update" /\ req[h].kind = "batch" /\ Apply(Head(todo[h]))
      /\ UNCHANGED <<req, result, status, blank, existed, asked, served>>
  BY DEF ApplyNext
<1>2. req[h] \in Requests /\ req[h].items \in Seq(Items) /\ Tail(todo[h]) \in Seq(Items)
  BY <1>1, NextItem, RequestFacts
<1>3. \/ /\ last
         /\ todo' = [todo EXCEPT ![h] = req[h].items]
         /\ at' = [at EXCEPT ![h] = "read"] /\ Sees(h, TRUE)
      \/ /\ ~last
         /\ todo' = [todo EXCEPT ![h] = Tail(@)]
         /\ at' = at /\ Sees(h, FALSE)
  BY DEF ApplyNext
<1>t. ~last => (req'[h] = req[h] /\ todo'[h] = Tail(todo[h]) => Remains(h)')
  BY <1>1, TailRemains
<1>. HIDE DEF last
<1>4. StorageTyped'
  BY <1>1, ItemFits, ApplyEffect DEF ServiceTyped
<1>5. seen' \in [Handlers -> SUBSET Shown]
  BY <1>3, <1>4, SeesTyped
<1>6. todo' \in [Handlers -> Seq(Items)] /\ at' \in [Handlers -> Stages]
  BY <1>2, <1>3 DEF ServiceTyped, RequestTyped, Stages
<1>7. ServiceTyped'
  <2>1. RequestTyped' /\ AnswerTyped' /\ CountTyped'
    BY <1>1, <1>5, <1>6 DEF ServiceTyped, RequestTyped, AnswerTyped, CountTyped
  <2>. QED
    BY <1>4, <2>1 DEF ServiceTyped
<1>8. /\ StageOf(h) /\ req' = req /\ result' = result
      /\ \A g \in Handlers \ {h} : at'[g] = at[g] /\ todo'[g] = todo[g]
      /\ \/ at'[h] = "read" /\ todo'[h] = req[h].items
         \/ ~last /\ at'[h] = at[h] /\ todo'[h] = Tail(todo[h])
  BY <1>1, <1>3 DEF StageInv, ServiceTyped, RequestTyped
<1>9. Remains(h)'
  BY <1>1, <1>2, <1>8, <1>t, AllRemain
<1>10. StageOf(h)'
  BY <1>1, <1>8, <1>9 DEF StageOf
<1>. QED
  BY <1>7, <1>8, <1>10, StageKept

\* What is found can be shown, and is in memory.
LEMMA FoundShown ==
  ASSUME StorageTyped, NEW x \in Items, Found(x)
  PROVE  /\ Metric(x.mtype, x.id, Stored(x)) \in Shown
         /\ Metric(x.mtype, x.id, Stored(x)) \in Held
<1>1. x.id \in Names /\ x.mtype \in {"gauge", "counter"}
  BY DEF Items, Found
<1>2. CASE x.mtype = "counter"
  <2>1. counters[x.id] # Absent /\ Stored(x) = counters[x.id]
    BY <1>2 DEF Found, Stored
  <2>2. counters[x.id] \in Int64
    BY <1>1, <2>1 DEF StorageTyped
  <2>. QED
    BY <1>1, <1>2, <2>1, <2>2 DEF Metric, Shown, Held
<1>3. CASE x.mtype = "gauge"
  <2>1. gauges[x.id] # Absent /\ Stored(x) = gauges[x.id]
    BY <1>3 DEF Found, Stored
  <2>2. gauges[x.id] \in GaugeValues
    BY <1>1, <2>1 DEF StorageTyped
  <2>. QED
    BY <1>1, <1>3, <2>1, <2>2 DEF Metric, Shown, Held
<1>. QED
  BY <1>1, <1>2, <1>3

\* The next metric of an answer.
LEMMA ReadNextTyped ==
  ASSUME ServiceTyped, StageInv, NEW h \in Handlers, ReadNext(h)
  PROVE  ServiceTyped' /\ StageInv'
<1>. DEFINE x == Head(todo[h])
            got == result[h] \cup (IF Found(x) THEN {Metric(x.mtype, x.id, Stored(x))} ELSE {})
<1>1. /\ at[h] = "read" /\ result' = [result EXCEPT ![h] = got]
      /\ todo' = [todo EXCEPT ![h] = Tail(@)]
      /\ UNCHANGED <<storage, req, seen, existed, asked, served>>
  BY DEF ReadNext
<1>2. \/ Len(todo[h]) # 1 /\ UNCHANGED <<at, status, blank>>
      \/ req[h].kind # "batch" /\ Answer(h, NotFound[req[h].kind], req[h].kind = "get")
      \/ Answer(h, 200, Unwritable(h, got))
  <2>1. Len(todo[h]) > 1 => Len(todo[h]) # 1
    <3>1. \A n \in Nat : n > 1 => n # 1
      OBVIOUS
    <3>2. Len(todo[h]) \in Nat
      BY DEF ServiceTyped, RequestTyped
    <3>. QED
      BY <3>1, <3>2
  <2>. QED
    BY <2>1 DEF ReadNext
<1>3. x \in Items /\ Tail(todo[h]) \in Seq(Items)
  BY <1>1, NextItem
<1>4. got \in SUBSET Shown
  BY <1>3, FoundShown DEF ServiceTyped, RequestTyped
<1>5. req[h].kind \in {"json", "batch", "value", "get"}
  BY <1>1 DEF StageInv, StageOf
<1>6. AnswerTyped'
  <2>. HIDE DEF got, x
  <2>1. CASE UNCHANGED <<at, status, blank>>
    BY <2>1 DEF ServiceTyped, AnswerTyped
  <2>2. CASE req[h].kind # "batch" /\ Answer(h, NotFound[req[h].kind], req[h].kind = "get")
    <3>1. req[h].kind \in {"json", "value", "get"}
      BY <1>5, <2>2
    <3>2. NotFound[req[h].kind] \in {404, 500}
      BY <3>1, StepTables
    <3>3. status' = [status EXCEPT ![h] = 404] \/ status' = [status EXCEPT ![h] = 500]
      BY <2>2, <3>2 DEF Answer
    <3>4. blank' = [blank EXCEPT ![h] = TRUE] \/ blank' = [blank EXCEPT ![h] = FALSE]
      BY <2>2 DEF Answer
    <3>5. status' \in [Handlers -> {0, 200, 400, 404, 500}]
      BY <3>3 DEF ServiceTyped, AnswerTyped
    <3>6. blank' \in [Handlers -> BOOLEAN]
      <4>1. blank \in [Handlers -> BOOLEAN]
        BY DEF ServiceTyped, AnswerTyped
      <4>2. CASE blank' = [blank EXCEPT ![h] = TRUE]
        BY <4>1, <4>2
      <4>3. CASE blank' = [blank EXCEPT ![h] = FALSE]
        BY <4>1, <4>3
      <4>. QED
        BY <3>4, <4>2, <4>3
    <3>. QED
      BY <3>5, <3>6 DEF AnswerTyped
  <2>3. CASE Answer(h, 200, Unwritable(h, got))
    <3>1. Unwritable(h, got) \in BOOLEAN
      BY DEF Unwritable
    <3>2. /\ status' = [status EXCEPT ![h] = 200]
          /\ blank' = [blank EXCEPT ![h] = Unwritable(h, got)]
      BY <2>3 DEF Answer
    <3>. QED
      BY <3>1, <3>2, AnswerKept, ZenonT(30) DEF ServiceTyped
  <2>. QED
    BY <1>2, <2>1, <2>2, <2>3
<1>7. \/ Len(todo[h]) # 1 /\ at' = at
      \/ at' = [at EXCEPT ![h] = "answer"]
  BY <1>2 DEF Answer
<1>8. ServiceTyped'
  <2>. HIDE DEF got, x
  <2>1. RequestTyped'
    BY <1>1, <1>3, <1>4, <1>7 DEF ServiceTyped, RequestTyped, Stages
  <2>2. StorageTyped' /\ CountTyped'
    BY <1>1 DEF ServiceTyped, StorageTyped, CountTyped, storage
  <2>. QED
    BY <1>6, <2>1, <2>2 DEF ServiceTyped
<1>. HIDE DEF got, x
<1>9. /\ req' = req /\ todo'[h] = Tail(todo[h])
      /\ \A g \in Handlers \ {h} :
           at'[g] = at[g] /\ todo'[g] = todo[g] /\ result'[g] = result[g]
      /\ at'[h] = "answer" \/ (at'[h] = "read" /\ Len(todo[h]) # 1)
  BY <1>1, <1>7 DEF ServiceTyped, RequestTyped
<1>10. Len(todo[h]) # 1 => Remains(h)'
  BY <1>1, <1>9, TailRemains
<1>11. StageOf(h)'
  <2>1. StageOf(h)
    BY DEF StageInv
  <2>. QED
    BY <1>1, <1>9, <1>10, <2>1 DEF StageOf
<1>. QED
  BY <1>8, <1>9, <1>11, StageKept

\* The page: a gauge, and then the counters.
LEMMA ListTyped ==
  ASSUME ServiceTyped, StageInv, NEW h \in Handlers,
         GetAllCounters(h) \/ \E n \in Names : VisitGauge(h, n)
  PROVE  ServiceTyped' /\ StageInv'
<1>1. /\ at[h] = "list"
      /\ UNCHANGED <<storage, req, todo, seen, existed, asked, served>>
  BY DEF GetAllCounters, VisitGauge
<1>2. Held \in SUBSET Shown
  BY HeldType DEF ServiceTyped
<1>3. \E s \in SUBSET Shown : result' = [result EXCEPT ![h] = s]
  <2>1. CASE GetAllCounters(h)
    <3>. DEFINE s == {m \in result[h] : counters[m.id] = Absent}
                     \cup {m \in Held : m.mtype = "counter"}
    <3>1. s \in SUBSET Shown /\ result' = [result EXCEPT ![h] = s]
      BY <1>2, <2>1 DEF GetAllCounters, ServiceTyped, RequestTyped
    <3>. QED
      BY <3>1
  <2>2. ASSUME NEW n \in Names, VisitGauge(h, n)
        PROVE  \E s \in SUBSET Shown : result' = [result EXCEPT ![h] = s]
    <3>1. Metric("gauge", n, gauges[n]) \in Shown
      BY <2>2 DEF VisitGauge, ServiceTyped, StorageTyped, Metric, Shown
    <3>. DEFINE s == result[h] \cup {Metric("gauge", n, gauges[n])}
    <3>2. s \in SUBSET Shown /\ result' = [result EXCEPT ![h] = s]
      BY <2>2, <3>1 DEF VisitGauge, ServiceTyped, RequestTyped
    <3>. QED
      BY <3>2
  <2>. QED
    BY <2>1, <2>2
<1>4. UNCHANGED <<at, status, blank>> \/ Answer(h, 200, FALSE)
  BY DEF GetAllCounters, VisitGauge
<1>5. at' = at \/ at' = [at EXCEPT ![h] = "answer"]
  BY <1>4 DEF Answer
<1>6. AnswerTyped'
  <2>1. CASE UNCHANGED <<at, status, blank>>
    BY <2>1 DEF ServiceTyped, AnswerTyped
  <2>2. CASE Answer(h, 200, FALSE)
    <3>1. status' = [status EXCEPT ![h] = 200] /\ blank' = [blank EXCEPT ![h] = FALSE]
      BY <2>2 DEF Answer
    <3>. QED
      BY <3>1, AnswerKept, ZenonT(30) DEF ServiceTyped
  <2>. QED
    BY <1>4, <2>1, <2>2
<1>7. ServiceTyped'
  <2>1. RequestTyped'
    BY <1>1, <1>3, <1>5 DEF ServiceTyped, RequestTyped, Stages
  <2>2. StorageTyped' /\ CountTyped'
    BY <1>1 DEF ServiceTyped, StorageTyped, CountTyped, storage
  <2>. QED
    BY <1>6, <2>1, <2>2 DEF ServiceTyped
<1>8. /\ req' = req /\ todo' = todo
      /\ \A g \in Handlers \ {h} : at'[g] = at[g] /\ result'[g] = result[g]
      /\ at'[h] \in {"list", "answer"}
  BY <1>1, <1>3, <1>5 DEF ServiceTyped, RequestTyped
<1>9. StageOf(h)'
  <2>1. StageOf(h)
    BY DEF StageInv
  <2>. QED
    BY <1>1, <1>8, <2>1 DEF StageOf
<1>. QED
  BY <1>7, <1>8, <1>9, StageKept

\* The router's own steps.
LEMMA RouterTyped ==
  ASSUME ServiceTyped, StageInv, NEW h \in Handlers,
         (\E r \in Requests : Refused(h, r)) \/ Returns(h) \/ Done(h)
  PROVE  ServiceTyped' /\ StageInv'
<1>1. /\ UNCHANGED <<storage, todo, status, blank, asked>>
      /\ served' \in {served, served + 1} /\ (served' # served => served < MaxRequests)
      /\ \E r \in Requests \cup {NoRequest} : req' = req \/ req' = [req EXCEPT ![h] = r]
      /\ result' = result \/ result' = [result EXCEPT ![h] = {}]
      /\ seen' = seen \/ seen' = [seen EXCEPT ![h] = {}]
      /\ existed' = existed \/ existed' = [existed EXCEPT ![h] = {}]
  BY DEF Refused, Returns, Done
<1>2. \E a \in {"refused", "returned", "idle"} : at' = [at EXCEPT ![h] = a]
  BY DEF Refused, Returns, Done
<1>3. ServiceTyped'
  <2>r. RequestTyped
    BY DEF ServiceTyped
  <2>a. at' \in [Handlers -> Stages] /\ todo' \in [Handlers -> Seq(Items)]
    BY <1>1, <1>2, <2>r DEF RequestTyped, Stages
  <2>b. req' \in [Handlers -> Requests \cup {NoRequest}]
    BY <1>1, <2>r DEF RequestTyped
  <2>c. /\ result' \in [Handlers -> SUBSET Shown] /\ seen' \in [Handlers -> SUBSET Shown]
        /\ existed' \in [Handlers -> SUBSET ({"gauge", "counter"} \X Names)]
    BY <1>1, <2>r DEF RequestTyped
  <2>1. RequestTyped'
    BY <2>a, <2>b, <2>c DEF RequestTyped
  <2>2. StorageTyped' /\ AnswerTyped'
    BY <1>1 DEF ServiceTyped, StorageTyped, AnswerTyped, storage
  <2>3. served' \in 0..MaxRequests
    BY <1>1, ServiceAssumption DEF ServiceTyped, CountTyped
  <2>4. asked' \in [Names -> Int]
    BY <1>1 DEF ServiceTyped, CountTyped
  <2>. QED
    BY <2>1, <2>2, <2>3, <2>4 DEF ServiceTyped, CountTyped
<1>4. /\ todo' = todo
      /\ \A g \in Handlers \ {h} :
           at'[g] = at[g] /\ req'[g] = req[g] /\ result'[g] = result[g]
      /\ at'[h] \in {"refused", "returned", "idle"}
  BY <1>1, <1>2 DEF ServiceTyped, RequestTyped
<1>5. at'[h] # "idle" => req'[h] \in Requests
  <2>1. CASE \E r \in Requests : Refused(h, r)
    BY <2>1 DEF Refused, ServiceTyped, RequestTyped
  <2>2. CASE Returns(h)
    BY <2>2 DEF Returns, StageInv, StageOf
  <2>3. CASE Done(h)
    BY <2>3 DEF Done, ServiceTyped, RequestTyped
  <2>. QED
    BY <2>1, <2>2, <2>3
<1>6. StageOf(h)'
  BY <1>4, <1>5 DEF StageOf
<1>. QED
  BY <1>3, <1>4, <1>6, StageKept

\* However the steps of a router follow each other, types and stages are right.
LEMMA MovesTyped ==
  ASSUME ServiceTyped, StageInv, ServiceMoves
  PROVE  ServiceTyped' /\ StageInv'
<1>1. CASE UNCHANGED service
  BY <1>1 DEF service, storage, request, ServiceTyped, StorageTyped, RequestTyped, AnswerTyped,
              CountTyped, StageInv, StageOf, Remains
<1>2. CASE \E h \in Handlers, r \in Requests :
             Refused(h, r) \/ (at[h] = "idle" /\ \E parses \in BOOLEAN : Begin(h, r, parses))
  BY <1>2, RouterTyped, BeginTyped
<1>3. CASE \E h \in Handlers :
             \/ ServiceStep(h)
             \/ Returns(h)
             \/ at[h] \in {"refused", "returned"} /\ Done(h)
  <2>. SUFFICES ASSUME NEW h \in Handlers,
                       ServiceStep(h) \/ Returns(h) \/ Done(h)
                PROVE  ServiceTyped' /\ StageInv'
    BY <1>3
  <2>1. CASE UpdateMetric(h)
    BY <2>1, UpdateTyped
  <2>2. CASE ApplyNext(h)
    BY <2>2, ApplyNextTyped
  <2>3. CASE ReadNext(h)
    BY <2>3, ReadNextTyped
  <2>4. CASE GetAllCounters(h) \/ \E n \in Names : VisitGauge(h, n)
    BY <2>4, ListTyped
  <2>5. CASE Returns(h) \/ Done(h)
    BY <2>5, RouterTyped
  <2>. QED
    BY <2>1, <2>2, <2>3, <2>4, <2>5 DEF ServiceStep
<1>. QED
  BY <1>1, <1>2, <1>3 DEF ServiceMoves

LEMMA InitTyped ==
  ASSUME ServiceInit
  PROVE  ServiceTyped /\ StageInv
<1>1. StorageTyped /\ RequestTyped /\ AnswerTyped
  BY DEF ServiceInit, StorageTyped, RequestTyped, AnswerTyped, Stages
<1>2. CountTyped
  BY ServiceAssumption DEF ServiceInit, CountTyped
<1>. QED
  BY <1>1, <1>2 DEF ServiceInit, ServiceTyped, StageInv, StageOf

-----------------------------------------------------------------------------
(* Counters.                                                               *)

\* What h has been asked to add to the counter n and has not added yet.
Left(h, n) ==
  IF at[h] = "update"
  THEN DeltasUpTo(req[h].items, n)[Len(req[h].items)]
       - DeltasUpTo(req[h].items, n)[Len(req[h].items) - Len(todo[h])]
  ELSE 0

LeftOf(n) == [h \in Handlers |-> Left(h, n)]

\* A counter and what is still to be added to it make up what was asked for.
CountsUp ==
  \A n \in Names : \E s \in Int :
    /\ IsSum(s, LeftOf(n), Handlers)
    /\ Wrap(Number(counters[n]) + s) = Wrap(asked[n])

\* The next item, and what is left after it.
LEMMA LeftNext ==
  ASSUME ServiceTyped, StageInv, NEW h \in Handlers, NEW n \in Names, at[h] = "update"
  PROVE  /\ DeltaOf(Head(todo[h]), n) \in Int
         /\ Left(h, n) = DeltaOf(Head(todo[h]), n)
                         + DeltasUpTo(req[h].items, n)[Len(req[h].items)]
                         - DeltasUpTo(req[h].items, n)[Len(req[h].items) - (Len(todo[h]) - 1)]
         /\ \A i \in 0..Len(req[h].items) : DeltasUpTo(req[h].items, n)[i] \in Int
<1>. DEFINE L == Len(req[h].items)
            m == Len(todo[h])
            sum == DeltasUpTo(req[h].items, n)
            k == L - m + 1
<1>1. /\ L \in Nat /\ m \in 1..L /\ req[h].items \in Seq(Items)
      /\ Head(todo[h]) = req[h].items[k]
  BY NextItem, RequestFacts
<1>2. k \in 1..L /\ k - 1 = L - m /\ k = L - (m - 1) /\ L - m \in 0..L /\ k \in 0..L /\ L \in 0..L
  <2>1. L \in Nat /\ m \in 1..L
    BY <1>1
  <2>. HIDE DEF L, m
  <2>. QED
    BY <2>1
<1>3. /\ \A i \in 1..L : DeltaOf(req[h].items[i], n) \in Int
      /\ \A i \in 0..L : sum[i] \in Int
      /\ \A i \in 1..L : sum[i] = sum[i - 1] + DeltaOf(req[h].items[i], n)
  BY <1>1, DeltasSum
<1>4. Left(h, n) = sum[L] - sum[L - m]
  BY DEF Left
<1>5. sum[k] = sum[L - m] + DeltaOf(Head(todo[h]), n)
  BY <1>1, <1>2, <1>3
<1>6. /\ DeltaOf(Head(todo[h]), n) \in Int
      /\ sum[k] \in Int /\ sum[L - m] \in Int /\ sum[L] \in Int
  BY <1>1, <1>2, <1>3
<1>7. sum[L] - sum[L - m] = DeltaOf(Head(todo[h]), n) + sum[L] - sum[L - (m - 1)]
  <2>. HIDE DEF sum, L, m, k
  <2>. QED
    BY <1>2, <1>5, <1>6
<1>. QED
  BY <1>3, <1>4, <1>6, <1>7

\* What is left is an integer.
LEMMA LeftType ==
  ASSUME ServiceTyped, StageInv, NEW h \in Handlers, NEW n \in Names
  PROVE  Left(h, n) \in Int
<1>1. CASE at[h] = "update"
  <2>. DEFINE L == Len(req[h].items)
              m == Len(todo[h])
  <2>1. L \in Nat /\ m \in 1..L
    BY <1>1, NextItem
  <2>2. L \in 0..L /\ L - m \in 0..L
    <3>. HIDE DEF L, m
    <3>. QED
      BY <2>1
  <2>3. \A i \in 0..L : DeltasUpTo(req[h].items, n)[i] \in Int
    BY <1>1, LeftNext
  <2>4. Left(h, n) = DeltasUpTo(req[h].items, n)[L] - DeltasUpTo(req[h].items, n)[L - m]
    BY <1>1 DEF Left
  <2>5. DeltasUpTo(req[h].items, n)[L] \in Int /\ DeltasUpTo(req[h].items, n)[L - m] \in Int
    BY <2>2, <2>3
  <2>6. \A i \in Int, j \in Int : i - j \in Int
    OBVIOUS
  <2>. HIDE DEF L, m
  <2>. QED
    BY <2>4, <2>5, <2>6
<1>2. CASE at[h] # "update"
  BY <1>2 DEF Left
<1>. QED
  BY <1>1, <1>2

\* One handler adds d to a counter, and a to what is asked for.
LEMMA CountStep ==
  ASSUME ServiceTyped, StageInv, ServiceTyped', StageInv', CountsUp, NEW h \in Handlers,
         \A g \in Handlers \ {h} : at'[g] = at[g] /\ req'[g] = req[g] /\ todo'[g] = todo[g],
         \A n \in Names : \E a \in Int, d \in Int :
           /\ Left(h, n)' = Left(h, n) + a - d
           /\ asked'[n] = asked[n] + a
           /\ Number(counters'[n]) = Wrap(Number(counters[n]) + d)
  PROVE  CountsUp'
<1>. SUFFICES ASSUME NEW n \in Names
              PROVE  \E s \in Int : /\ IsSum(s, LeftOf(n)', Handlers)
                                    /\ Wrap(Number(counters'[n]) + s) = Wrap(asked'[n])
  BY DEF CountsUp
<1>1. PICK a \in Int, d \in Int :
        /\ Left(h, n)' = Left(h, n) + a - d
        /\ asked'[n] = asked[n] + a
        /\ Number(counters'[n]) = Wrap(Number(counters[n]) + d)
  OBVIOUS
<1>2. PICK s \in Int : /\ IsSum(s, LeftOf(n), Handlers)
                       /\ Wrap(Number(counters[n]) + s) = Wrap(asked[n])
  BY DEF CountsUp
<1>3. /\ \A g \in Handlers : LeftOf(n)[g] = Left(g, n) /\ LeftOf(n)[g] \in Int
      /\ LeftOf(n)'[h] = Left(h, n)'
      /\ \A g \in Handlers \ {h} : LeftOf(n)'[g] = LeftOf(n)[g]
  <2>1. \A g \in Handlers : LeftOf(n)[g] = Left(g, n) /\ LeftOf(n)'[g] = Left(g, n)'
    BY DEF LeftOf
  <2>2. \A g \in Handlers \ {h} : Left(g, n)' = Left(g, n)
    BY DEF Left
  <2>. QED
    BY <2>1, <2>2, LeftType
<1>4. /\ Left(h, n) \in Int /\ asked[n] \in Int /\ Number(counters[n]) \in Int
      /\ Left(h, n)' \in Int
  <2>1. Left(h, n) \in Int /\ Number(counters[n]) \in Int
    BY LeftType, NumberType DEF ServiceTyped
  <2>2. Left(h, n) + a - d \in Int
    BY <2>1
  <2>. QED
    BY <1>1, <2>1, <2>2 DEF ServiceTyped, CountTyped
<1>5. IsSum(s + LeftOf(n)'[h] - LeftOf(n)[h], LeftOf(n)', Handlers)
  BY <1>2, <1>3, <1>4, SumStep
<1>. DEFINE c == Number(counters[n])
            t == s + a - d
<1>6. c \in Int /\ t \in Int
  BY <1>4
<1>7. IsSum(t, LeftOf(n)', Handlers)
  <2>1. s + (Left(h, n) + a - d) - Left(h, n) = t
    BY <1>4
  <2>. QED
    BY <1>1, <1>3, <1>5, <2>1
<1>8. Wrap(Wrap(c + d) + t) = Wrap(asked[n] + a)
  <2>1. c + d \in Int /\ c + s \in Int /\ (c + d) + t = (c + s) + a
    <3>. HIDE DEF c
    <3>. QED
      BY <1>6
  <2>2. Wrap(Wrap(c + d) + t) = Wrap((c + d) + t)
    <3>. HIDE DEF c, t
    <3>. QED
      BY <1>6, <2>1, WrapSum
  <2>3. Wrap((c + s) + a) = Wrap(asked[n] + a)
    <3>. DEFINE p == c + s
                q == asked[n]
    <3>1. Wrap(p) = Wrap(q) /\ p \in Int /\ q \in Int
      BY <1>2, <1>4, <2>1
    <3>2. Wrap(p + a) = Wrap(q + a)
      <4>. HIDE DEF p, q
      <4>. QED
        BY <3>1, WrapCongruent
    <3>. QED
      BY <3>2
  <2>. QED
    BY <2>1, <2>2, <2>3
<1>9. Wrap(Number(counters'[n]) + t) = Wrap(asked'[n])
  BY <1>1, <1>8
<1>. QED
  BY <1>6, <1>7, <1>9

\* Nothing is added when no handler begins or goes on with an update.
LEMMA CountIdle ==
  ASSUME ServiceTyped, StageInv, ServiceTyped', StageInv', CountsUp, NEW h \in Handlers,
         \A g \in Handlers \ {h} : at'[g] = at[g] /\ req'[g] = req[g] /\ todo'[g] = todo[g],
         at[h] # "update", at'[h] # "update", counters' = counters, asked' = asked
  PROVE  CountsUp'
<1>1. ASSUME NEW n \in Names
      PROVE  /\ Left(h, n)' = Left(h, n) + 0 - 0
             /\ asked'[n] = asked[n] + 0
             /\ Number(counters'[n]) = Wrap(Number(counters[n]) + 0)
  <2>1. Left(h, n) = 0 /\ Left(h, n)' = 0
    BY DEF Left
  <2>2. asked[n] \in Int
    BY DEF ServiceTyped, CountTyped
  <2>3. Number(counters[n]) \in Int64 /\ Number(counters[n]) \in Int
    BY NumberType DEF ServiceTyped
  <2>4. Number(counters[n]) + 0 = Number(counters[n]) /\ asked[n] + 0 = asked[n]
    BY <2>2, <2>3
  <2>. QED
    BY <2>1, <2>3, <2>4, WrapSame
<1>. QED
  BY <1>1, CountStep

\* A request that begins asks for what is left to do.
LEMMA BeginCounts ==
  ASSUME ServiceTyped, StageInv, CountsUp, NEW h \in Handlers, NEW r \in Requests,
         NEW parses \in BOOLEAN, at[h] = "idle", Begin(h, r, parses)
  PROVE  CountsUp'
<1>1. ServiceTyped' /\ StageInv'
  BY BeginTyped
<1>2. /\ req' = [req EXCEPT ![h] = r] /\ todo' = [todo EXCEPT ![h] = r.items]
      /\ counters' = counters
  BY DEF Begin, storage
<1>3. /\ req'[h] = r /\ todo'[h] = r.items
      /\ \A g \in Handlers \ {h} : req'[g] = req[g] /\ todo'[g] = todo[g]
  BY <1>2 DEF ServiceTyped, RequestTyped
<1>4. \A g \in Handlers \ {h} : at'[g] = at[g]
  BY DEF Begin, Answer, ServiceTyped, RequestTyped
<1>5. r.kind \in Kinds /\ r.items \in Seq(Items) /\ Len(r.items) \in Nat
  BY RequestFacts
<1>6. CASE parses /\ FirstStep[r.kind] = "update"
  <2>1. at'[h] = "update" /\ asked' = [n \in Names |-> asked[n] + Deltas(r, n)]
    BY <1>6 DEF Begin, ServiceTyped, RequestTyped
  <2>2. ASSUME NEW n \in Names
        PROVE  /\ Deltas(r, n) \in Int
               /\ Left(h, n)' = Left(h, n) + Deltas(r, n) - 0
               /\ asked'[n] = asked[n] + Deltas(r, n)
               /\ Number(counters'[n]) = Wrap(Number(counters[n]) + 0)
    <3>1. Number(counters[n]) \in Int64 /\ Number(counters[n]) \in Int
      BY NumberType DEF ServiceTyped
    <3>2. Number(counters[n]) + 0 = Number(counters[n])
      BY <3>1
    <3>3. Left(h, n) = 0
      BY DEF Left
    <3>4. /\ Deltas(r, n) = DeltasUpTo(r.items, n)[Len(r.items)]
          /\ DeltasUpTo(r.items, n)[0] = 0 /\ Deltas(r, n) \in Int
      <4>1. Len(r.items) \in 0..Len(r.items)
        BY <1>5
      <4>. QED
        BY <1>5, <4>1, DeltasSum DEF Deltas
    <3>5. Left(h, n)' = DeltasUpTo(r.items, n)[Len(r.items)]
                        - DeltasUpTo(r.items, n)[Len(r.items) - Len(r.items)]
      BY <1>3, <2>1 DEF Left
    <3>6. Len(r.items) - Len(r.items) = 0
      BY <1>5
    <3>7. Left(h, n)' = Deltas(r, n) - 0
      BY <3>4, <3>5, <3>6
    <3>8. Left(h, n)' = Left(h, n) + Deltas(r, n) - 0
      BY <3>3, <3>4, <3>7
    <3>9. asked'[n] = asked[n] + Deltas(r, n)
      BY <2>1
    <3>10. Number(counters'[n]) = Wrap(Number(counters[n]) + 0)
      BY <1>2, <3>1, <3>2, WrapSame
    <3>. QED
      BY <3>4, <3>8, <3>9, <3>10
  <2>. QED
    BY <1>1, <1>3, <1>4, <2>2, CountStep
<1>7. CASE ~(parses /\ FirstStep[r.kind] = "update")
  <2>1. /\ asked' = asked
        /\ at' = [at EXCEPT ![h] = "answer"]
           \/ (at' = [at EXCEPT ![h] = FirstStep[r.kind]] /\ FirstStep[r.kind] # "update")
    BY <1>7 DEF Begin, Answer
  <2>2. at'[h] # "update"
    BY <2>1 DEF ServiceTyped, RequestTyped
  <2>. QED
    BY <1>1, <1>2, <1>3, <1>4, <2>1, <2>2, CountIdle
<1>. QED
  BY <1>6, <1>7

\* An update adds the delta of its only item; one that is refused has none.
LEMMA UpdateCounts ==
  ASSUME ServiceTyped, StageInv, CountsUp, NEW h \in Handlers, UpdateMetric(h)
  PROVE  CountsUp'
<1>. DEFINE x == req[h].items[1]
<1>1. ServiceTyped' /\ StageInv'
  BY UpdateTyped
<1>2. /\ at[h] = "update" /\ req[h].kind \in {"path", "json"}
      /\ UNCHANGED <<req, todo, result, existed, asked, served>>
  BY DEF UpdateMetric
<1>3. /\ req[h] \in Requests /\ Len(req[h].items) = 1 /\ Len(todo[h]) = 1
      /\ Head(req[h].items) = x /\ Head(todo[h]) = x
      /\ x \in Items /\ (Accepted(x) => Fits(x))
  <2>1. /\ Len(req[h].items) = 1 /\ Head(req[h].items) = x
        /\ x \in Items /\ (Accepted(x) => Fits(x))
    BY <1>2, ItemFits
  <2>2. /\ req[h] \in Requests /\ Len(todo[h]) \in 1..Len(req[h].items)
        /\ Head(todo[h]) = req[h].items[Len(req[h].items) - Len(todo[h]) + 1]
    BY <1>2, NextItem
  <2>3. Len(todo[h]) = 1
    BY <2>1, <2>2
  <2>4. 1 - 1 + 1 = 1
    OBVIOUS
  <2>. QED
    BY <2>1, <2>2, <2>3, <2>4
<1>4. at'[h] # "update" /\ \A g \in Handlers \ {h} : at'[g] = at[g]
  <2>1. at' = [at EXCEPT ![h] = "answer"] \/ at' = [at EXCEPT ![h] = "read"]
    BY DEF UpdateMetric, Answer
  <2>. QED
    BY <2>1 DEF ServiceTyped, RequestTyped
<1>5. ASSUME NEW n \in Names
      PROVE  /\ DeltaOf(x, n) \in Int
             /\ Left(h, n) = DeltaOf(x, n) /\ Left(h, n)' = 0
             /\ Number(counters'[n]) = Wrap(Number(counters[n]) + DeltaOf(x, n))
  <2>. DEFINE sum == DeltasUpTo(req[h].items, n)
  <2>1. /\ DeltaOf(x, n) \in Int /\ \A i \in 0..1 : sum[i] \in Int
        /\ Left(h, n) = DeltaOf(x, n) + sum[1] - sum[1 - (1 - 1)]
    BY <1>2, <1>3, LeftNext
  <2>2. sum[1] \in Int /\ 1 - (1 - 1) = 1
    BY <2>1
  <2>3. Left(h, n) = DeltaOf(x, n)
    <3>1. \A i \in Int, j \in Int : i + j - j = i
      OBVIOUS
    <3>. HIDE DEF sum, x
    <3>. QED
      BY <2>1, <2>2, <3>1
  <2>4. Left(h, n)' = 0
    BY <1>4 DEF Left
  <2>5. Number(counters'[n]) = Wrap(Number(counters[n]) + DeltaOf(x, n))
    <3>1. CASE Accepted(x)
      <4>1. Apply(x)
        BY <1>3, <3>1 DEF UpdateMetric
      <4>. QED
        BY <1>3, <3>1, <4>1, ApplyEffect DEF ServiceTyped
    <3>2. CASE ~Accepted(x)
      <4>1. counters' = counters
        BY <1>3, <3>2 DEF UpdateMetric, storage
      <4>2. x.val \notin Int64
        <5>1. x.val \in Int64 => x.mtype = "counter"
          <6>1. 1 \in 1..Len(req[h].items)
            BY <1>3
          <6>. QED
            BY <1>3, <6>1, RequestFacts
        <5>. QED
          BY <3>2, <5>1, ServiceAssumption DEF Accepted
      <4>3. DeltaOf(x, n) = 0
        BY <4>2 DEF DeltaOf
      <4>4. Number(counters[n]) \in Int64 /\ Number(counters[n]) \in Int
        BY NumberType DEF ServiceTyped
      <4>5. Number(counters[n]) + 0 = Number(counters[n])
        BY <4>4
      <4>. QED
        BY <4>1, <4>3, <4>4, <4>5, WrapSame
    <3>. QED
      BY <3>1, <3>2
  <2>. QED
    BY <2>1, <2>3, <2>4, <2>5
<1>6. ASSUME NEW n \in Names
      PROVE  /\ Left(h, n)' = Left(h, n) + 0 - DeltaOf(x, n)
             /\ asked'[n] = asked[n] + 0 /\ DeltaOf(x, n) \in Int
             /\ Number(counters'[n]) = Wrap(Number(counters[n]) + DeltaOf(x, n))
  <2>1. asked[n] \in Int /\ asked'[n] = asked[n]
    BY <1>2 DEF ServiceTyped, CountTyped
  <2>2. \A i \in Int : i + 0 - i = 0 /\ i + 0 = i
    OBVIOUS
  <2>. HIDE DEF x
  <2>. QED
    BY <1>5, <2>1, <2>2
<1>. HIDE DEF x
<1>. QED
  BY <1>1, <1>2, <1>4, <1>6, CountStep

\* An item of a batch adds its delta.
LEMMA ApplyNextCounts ==
  ASSUME ServiceTyped, StageInv, CountsUp, NEW h \in Handlers, ApplyNext(h)
  PROVE  CountsUp'
<1>. DEFINE x == Head(todo[h])
            L == Len(req[h].items)
            m == Len(todo[h])
<1>1. ServiceTyped' /\ StageInv'
  BY ApplyNextTyped
<1>2. /\ at[h] = "update" /\ req[h].kind = "batch" /\ Apply(x)
      /\ UNCHANGED <<req, result, status, blank, existed, asked, served>>
  BY DEF ApplyNext
<1>3. /\ L \in Nat /\ m \in 1..L /\ Len(Tail(todo[h])) = m - 1 /\ Fits(x)
  BY <1>2, NextItem, ItemFits
<1>4. /\ \/ m = 1 /\ at'[h] = "read"
         \/ m # 1 /\ at'[h] = "update" /\ todo'[h] = Tail(todo[h])
      /\ \A g \in Handlers \ {h} : at'[g] = at[g] /\ todo'[g] = todo[g]
  BY <1>2 DEF ApplyNext, ServiceTyped, RequestTyped
<1>5. ASSUME NEW n \in Names
      PROVE  /\ DeltaOf(x, n) \in Int /\ Left(h, n)' = Left(h, n) + 0 - DeltaOf(x, n)
             /\ asked'[n] = asked[n] + 0
             /\ Number(counters'[n]) = Wrap(Number(counters[n]) + DeltaOf(x, n))
  <2>. DEFINE sum == DeltasUpTo(req[h].items, n)
  <2>1. /\ DeltaOf(x, n) \in Int /\ \A i \in 0..L : sum[i] \in Int
        /\ Left(h, n) = DeltaOf(x, n) + sum[L] - sum[L - (m - 1)]
    BY <1>2, LeftNext
  <2>2. L \in 0..L /\ L - (m - 1) \in 0..L /\ (m = 1 => L - (m - 1) = L)
    <3>. HIDE DEF L, m
    <3>. QED
      BY <1>3
  <2>3. Left(h, n)' = sum[L] - sum[L - (m - 1)]
    <3>1. CASE m = 1 /\ at'[h] = "read"
      <4>1. Left(h, n)' = 0
        BY <3>1 DEF Left
      <4>2. sum[L] - sum[L] = 0
        BY <2>1, <2>2
      <4>. HIDE DEF m, L, sum
      <4>. QED
        BY <2>2, <3>1, <4>1, <4>2
    <3>2. CASE at'[h] = "update" /\ todo'[h] = Tail(todo[h])
      BY <1>2, <1>3, <3>2 DEF Left
    <3>. QED
      BY <1>4, <3>1, <3>2
  <2>4. sum[L] \in Int /\ sum[L - (m - 1)] \in Int
    BY <2>1, <2>2
  <2>5. Left(h, n)' = Left(h, n) + 0 - DeltaOf(x, n)
    <3>1. \A i \in Int, j \in Int, k \in Int : j - k = (i + j - k) + 0 - i
      OBVIOUS
    <3>. HIDE DEF sum, x, L, m
    <3>. QED
      BY <2>1, <2>3, <2>4, <3>1
  <2>6. asked[n] \in Int /\ asked'[n] = asked[n]
    BY <1>2 DEF ServiceTyped, CountTyped
  <2>7. Number(counters'[n]) = Wrap(Number(counters[n]) + DeltaOf(x, n))
    BY <1>2, <1>3, ApplyEffect DEF ServiceTyped
  <2>. QED
    BY <2>1, <2>5, <2>6, <2>7
<1>. HIDE DEF x
<1>. QED
  BY <1>1, <1>2, <1>4, <1>5, CountStep

\* All other steps leave the counters, and what is asked of them, alone.
LEMMA MovesCount ==
  ASSUME ServiceTyped, StageInv, CountsUp, ServiceMoves
  PROVE  CountsUp'
<1>1. ServiceTyped' /\ StageInv'
  BY MovesTyped
<1>2. CASE UNCHANGED service
  BY <1>2 DEF service, storage, request, CountsUp, LeftOf, Left
<1>3. CASE \E h \in Handlers, r \in Requests :
             \E parses \in BOOLEAN : at[h] = "idle" /\ Begin(h, r, parses)
  BY <1>3, BeginCounts
<1>4. CASE \E h \in Handlers : UpdateMetric(h) \/ ApplyNext(h)
  BY <1>4, UpdateCounts, ApplyNextCounts
<1>5. ASSUME NEW h \in Handlers,
             \/ \E r \in Requests : Refused(h, r)
             \/ ReadNext(h)
             \/ GetAllCounters(h)
             \/ \E n \in Names : VisitGauge(h, n)
             \/ Returns(h)
             \/ at[h] \in {"refused", "returned"} /\ Done(h)
      PROVE  CountsUp'
  <2>1. /\ at[h] # "update" /\ counters' = counters /\ asked' = asked
        /\ \/ at' = at
           \/ \E a \in {"refused", "answer", "returned", "idle"} : at' = [at EXCEPT ![h] = a]
        /\ \/ req' = req
           \/ \E r \in Requests \cup {NoRequest} : req' = [req EXCEPT ![h] = r]
        /\ todo' = todo \/ todo' = [todo EXCEPT ![h] = Tail(@)]
    BY <1>5 DEF Refused, ReadNext, GetAllCounters, VisitGauge, Returns, Done, Answer, storage
  <2>2. /\ at'[h] # "update"
        /\ \A g \in Handlers \ {h} : at'[g] = at[g] /\ req'[g] = req[g] /\ todo'[g] = todo[g]
    BY <2>1 DEF ServiceTyped, RequestTyped
  <2>. QED
    BY <1>1, <2>1, <2>2, CountIdle
<1>. QED
  BY <1>2, <1>3, <1>4, <1>5 DEF ServiceMoves, ServiceStep

\* When no handler updates, nothing is left to be added.
LEMMA CountsAreSums ==
  ASSUME ServiceTyped, CountsUp
  PROVE  SumsExact
<1>. SUFFICES ASSUME \A h \in Handlers : at[h] # "update", NEW n \in Names
              PROVE  Number(counters[n]) = Wrap(asked[n])
  BY DEF SumsExact
<1>1. PICK s \in Int : /\ IsSum(s, LeftOf(n), Handlers)
                       /\ Wrap(Number(counters[n]) + s) = Wrap(asked[n])
  BY DEF CountsUp
<1>2. \A h \in Handlers : LeftOf(n)[h] = 0
  BY DEF LeftOf, Left
<1>3. s = 0
  BY <1>1, <1>2, SumSign, ServiceAssumption
<1>4. Number(counters[n]) \in Int64 /\ Number(counters[n]) \in Int
  BY NumberType DEF ServiceTyped
<1>5. Number(counters[n]) + 0 = Number(counters[n])
  BY <1>4
<1>. QED
  BY <1>1, <1>3, <1>4, <1>5, WrapSame

LEMMA InitCounts ==
  ASSUME ServiceInit
  PROVE  CountsUp
<1>. SUFFICES ASSUME NEW n \in Names
              PROVE  /\ 0 \in Int /\ IsSum(0, LeftOf(n), Handlers)
                     /\ Wrap(Number(counters[n]) + 0) = Wrap(asked[n])
  BY DEF CountsUp
<1>1. \A h \in Handlers : LeftOf(n)[h] = 0
  BY DEF ServiceInit, LeftOf, Left
<1>2. Number(counters[n]) = 0 /\ asked[n] = 0
  BY DEF ServiceInit, Number
<1>3. 0 + 0 = 0
  OBVIOUS
<1>. QED
  BY <1>1, <1>2, <1>3, ZeroSum

-----------------------------------------------------------------------------
(* Answers.                                                                *)

\* A step of h, and what it leaves alone: the other handlers, of which those
\* that read see what h writes, and what there is in memory.
Moves(h) ==
  \/ \E r \in Requests :
       Refused(h, r) \/ (at[h] = "idle" /\ \E parses \in BOOLEAN : Begin(h, r, parses))
  \/ ServiceStep(h)
  \/ Returns(h)
  \/ at[h] \in {"refused", "returned"} /\ Done(h)

Others(h) ==
  \A g \in Handlers \ {h} :
    /\ at'[g] = at[g] /\ req'[g] = req[g] /\ todo'[g] = todo[g] /\ result'[g] = result[g]
    /\ status'[g] = status[g] /\ existed'[g] = existed[g]
    /\ seen[g] \subseteq seen'[g]
    /\ at[g] \in {"read", "list"} /\ Held \subseteq seen[g] => Held' \subseteq seen'[g]

Grows ==
  \A n \in Names : /\ counters[n] # Absent => counters'[n] # Absent
                   /\ gauges[n] # Absent => gauges'[n] # Absent

\* A step that writes.
LEMMA WritesOthers ==
  ASSUME ServiceTyped, StageInv, NEW h \in Handlers, UpdateMetric(h) \/ ApplyNext(h)
  PROVE  Others(h) /\ Grows
<1>1. UNCHANGED <<req, result, existed>>
  BY DEF UpdateMetric, ApplyNext
<1>2. \/ at' = at
      \/ \E a \in {"read", "answer"} : at' = [at EXCEPT ![h] = a]
  BY DEF UpdateMetric, ApplyNext, Answer
<1>3. todo' = todo \/ \E s \in Seq(Items) : todo' = [todo EXCEPT ![h] = s]
  <2>1. CASE UpdateMetric(h)
    BY <2>1 DEF UpdateMetric
  <2>2. CASE ApplyNext(h)
    <3>1. at[h] = "update" /\ req[h].items \in Seq(Items) /\ Tail(todo[h]) \in Seq(Items)
      BY <2>2, NextItem, RequestFacts DEF ApplyNext
    <3>. QED
      BY <2>2, <3>1 DEF ApplyNext
  <2>. QED
    BY <2>1, <2>2
<1>4. \A g \in Handlers \ {h} : status'[g] = status[g]
  <2>1. status' = status \/ \E c \in {200, 400} : status' = [status EXCEPT ![h] = c]
    BY DEF UpdateMetric, ApplyNext, Answer
  <2>. QED
    BY <2>1 DEF ServiceTyped, AnswerTyped
<1>5. \/ UNCHANGED <<storage, seen>>
      \/ \E begins \in BOOLEAN : Sees(h, begins)
  <2>1. CASE UpdateMetric(h)
    BY <2>1 DEF UpdateMetric
  <2>2. CASE ApplyNext(h)
    <3>. DEFINE last == Len(todo[h]) = 1
    <3>1. Sees(h, last) /\ last \in BOOLEAN
      BY <2>2 DEF ApplyNext
    <3>. HIDE DEF last
    <3>. QED
      BY <3>1
  <2>. QED
    BY <2>1, <2>2
<1>6. Grows
  <2>1. CASE UNCHANGED storage
    BY <2>1 DEF Grows, storage
  <2>2. ASSUME NEW x, Fits(x), Apply(x)
        PROVE  Grows
    BY <2>2, ApplyEffect DEF Grows, ServiceTyped
  <2>3. CASE UpdateMetric(h)
    BY <2>1, <2>2, <2>3, ItemFits DEF UpdateMetric
  <2>4. CASE ApplyNext(h)
    BY <2>2, <2>4, ItemFits DEF ApplyNext
  <2>. QED
    BY <2>3, <2>4
<1>7. ASSUME NEW g \in Handlers \ {h}
      PROVE  /\ seen[g] \subseteq seen'[g]
             /\ at[g] \in {"read", "list"} /\ Held \subseteq seen[g] => Held' \subseteq seen'[g]
  <2>1. CASE UNCHANGED <<storage, seen>>
    BY <2>1 DEF storage, Held
  <2>2. CASE \E begins \in BOOLEAN : Sees(h, begins)
    BY <2>2 DEF Sees
  <2>. QED
    BY <1>5, <2>1, <2>2
<1>8. ASSUME NEW g \in Handlers \ {h}
      PROVE  at'[g] = at[g] /\ req'[g] = req[g] /\ todo'[g] = todo[g] /\ result'[g] = result[g]
             /\ existed'[g] = existed[g]
  BY <1>1, <1>2, <1>3 DEF ServiceTyped, RequestTyped
<1>. QED
  BY <1>4, <1>6, <1>7, <1>8 DEF Others

\* A step that does not.
LEMMA ReadsOthers ==
  ASSUME ServiceTyped, StageInv, NEW h \in Handlers, Moves(h),
         ~UpdateMetric(h), ~ApplyNext(h)
  PROVE  Others(h) /\ Grows /\ UNCHANGED storage
<1>1. UNCHANGED storage
  BY DEF Moves, ServiceStep, Refused, Begin, Returns, Done, ReadNext, VisitGauge, GetAllCounters
<1>2. Grows /\ Held' = Held
  BY <1>1 DEF Grows, Held, storage
<1>3. \/ at' = at
      \/ \E a : at' = [at EXCEPT ![h] = a]
  BY DEF Moves, ServiceStep, Refused, Begin, Returns, Done, ReadNext, VisitGauge, GetAllCounters, Answer
<1>4. /\ req' = req \/ \E r : req' = [req EXCEPT ![h] = r]
      /\ todo' = todo \/ \E s : todo' = [todo EXCEPT ![h] = s]
  BY DEF Moves, ServiceStep, Refused, Begin, Returns, Done, ReadNext, VisitGauge, GetAllCounters
<1>5. /\ result' = result \/ \E s : result' = [result EXCEPT ![h] = s]
      /\ seen' = seen \/ \E s : seen' = [seen EXCEPT ![h] = s]
  BY DEF Moves, ServiceStep, Refused, Begin, Returns, Done, ReadNext, VisitGauge, GetAllCounters
<1>6. existed' = existed \/ \E s : existed' = [existed EXCEPT ![h] = s]
  BY DEF Moves, ServiceStep, Refused, Begin, Returns, Done, ReadNext, VisitGauge, GetAllCounters
<1>7. status' = status \/ \E s : status' = [status EXCEPT ![h] = s]
  BY DEF Moves, ServiceStep, Refused, Begin, Returns, Done, ReadNext, VisitGauge, GetAllCounters, Answer
<1>8. ASSUME NEW g \in Handlers \ {h}
      PROVE  /\ at'[g] = at[g] /\ req'[g] = req[g] /\ todo'[g] = todo[g]
             /\ result'[g] = result[g] /\ seen'[g] = seen[g] /\ existed'[g] = existed[g]
             /\ status'[g] = status[g]
  <2>1. at'[g] = at[g] /\ req'[g] = req[g] /\ todo'[g] = todo[g]
    BY <1>3, <1>4 DEF ServiceTyped, RequestTyped
  <2>2. result'[g] = result[g] /\ seen'[g] = seen[g] /\ existed'[g] = existed[g]
    BY <1>5, <1>6 DEF ServiceTyped, RequestTyped
  <2>3. status'[g] = status[g]
    BY <1>7 DEF ServiceTyped, AnswerTyped
  <2>. QED
    BY <2>1, <2>2, <2>3
<1>. QED
  BY <1>1, <1>2, <1>8 DEF Others

\* While h reads, what it has read and what is in memory is among what it has seen.
CurrentOf(h) ==
  /\ at[h] \in {"read", "list"} => result[h] \subseteq seen[h] /\ Held \subseteq seen[h]
  /\ at[h] = "answer" /\ status[h] = 200 => result[h] \subseteq seen[h]

CurrentInv == \A h \in Handlers : CurrentOf(h)

LEMMA MovesCurrent ==
  ASSUME ServiceTyped, StageInv, CurrentInv, ServiceMoves
  PROVE  CurrentInv'
<1>1. CASE UNCHANGED service
  BY <1>1 DEF service, storage, request, CurrentInv, CurrentOf, Held
<1>2. ASSUME NEW h \in Handlers, Moves(h)
      PROVE  CurrentInv'
  <2>. SUFFICES ASSUME Others(h)
                PROVE  CurrentOf(h)'
    <3>1. Others(h)
      BY <1>2, WritesOthers, ReadsOthers
    <3>2. ASSUME NEW g \in Handlers \ {h}
          PROVE  CurrentOf(g)'
      <4>1. CurrentOf(g)
        BY DEF CurrentInv
      <4>. QED
        BY <3>1, <4>1 DEF Others, CurrentOf
    <3>. QED
      BY <3>1, <3>2 DEF CurrentInv
  <2>1. CASE \E r \in Requests, parses \in BOOLEAN : Begin(h, r, parses)
    <3>1. result'[h] = {} /\ seen'[h] = Held /\ UNCHANGED storage
      BY <2>1 DEF Begin, ServiceTyped, RequestTyped
    <3>2. Held' = Held
      BY <3>1 DEF storage, Held
    <3>. QED
      BY <3>1, <3>2 DEF CurrentOf
  <2>2. CASE UpdateMetric(h)
    <3>1. result'[h] = {} /\ result[h] = {}
      BY <2>2 DEF UpdateMetric, StageInv, StageOf
    <3>2. Sees(h, TRUE) \/ at'[h] = "answer"
      BY <2>2 DEF UpdateMetric, Answer, ServiceTyped, RequestTyped
    <3>. QED
      BY <3>1, <3>2 DEF CurrentOf, Sees
  <2>3. CASE ApplyNext(h)
    <3>1. result'[h] = {}
      BY <2>3 DEF ApplyNext, StageInv, StageOf
    <3>2. CASE Len(todo[h]) = 1
      <4>1. Sees(h, TRUE)
        BY <2>3, <3>2 DEF ApplyNext, Sees
      <4>. QED
        BY <3>1, <4>1 DEF CurrentOf, Sees
    <3>3. CASE Len(todo[h]) # 1
      BY <2>3, <3>3 DEF ApplyNext, CurrentOf
    <3>. QED
      BY <3>2, <3>3
  <2>4. CASE ReadNext(h)
    <3>. DEFINE x == Head(todo[h])
                got == result[h] \cup (IF Found(x) THEN {Metric(x.mtype, x.id, Stored(x))} ELSE {})
    <3>1. /\ at[h] = "read" /\ result' = [result EXCEPT ![h] = got]
          /\ UNCHANGED <<storage, seen>>
      BY <2>4 DEF ReadNext
    <3>2. x \in Items
      BY <3>1, NextItem
    <3>3. result[h] \subseteq seen[h] /\ Held \subseteq seen[h] /\ Held' = Held
      BY <3>1 DEF CurrentInv, CurrentOf, storage, Held
    <3>4. got \subseteq seen[h]
      BY <3>2, <3>3, FoundShown DEF ServiceTyped
    <3>5. result'[h] = got
      BY <3>1 DEF ServiceTyped, RequestTyped
    <3>. HIDE DEF got
    <3>. QED
      BY <3>1, <3>3, <3>4, <3>5 DEF CurrentOf
  <2>5. CASE GetAllCounters(h) \/ \E n \in Names : VisitGauge(h, n)
    <3>1. at[h] = "list" /\ UNCHANGED <<storage, seen>> /\ Held' = Held
      BY <2>5 DEF GetAllCounters, VisitGauge, storage, Held
    <3>2. result[h] \subseteq seen[h] /\ Held \subseteq seen[h]
      BY <3>1 DEF CurrentInv, CurrentOf
    <3>3. result'[h] \subseteq result[h] \cup Held
      <4>1. CASE GetAllCounters(h)
        BY <4>1 DEF GetAllCounters, ServiceTyped, RequestTyped
      <4>2. ASSUME NEW n \in Names, VisitGauge(h, n)
            PROVE  result'[h] \subseteq result[h] \cup Held
        <5>1. Metric("gauge", n, gauges[n]) \in Held
          BY <4>2 DEF VisitGauge, Held
        <5>. QED
          BY <4>2, <5>1 DEF VisitGauge, ServiceTyped, RequestTyped
      <4>. QED
        BY <2>5, <4>1, <4>2
    <3>. QED
      BY <3>1, <3>2, <3>3 DEF CurrentOf
  <2>6. CASE (\E r \in Requests : Refused(h, r)) \/ Returns(h) \/ Done(h)
    BY <2>6 DEF Refused, Returns, Done, CurrentOf, ServiceTyped, RequestTyped
  <2>. QED
    BY <1>2, <2>1, <2>2, <2>3, <2>4, <2>5, <2>6 DEF Moves, ServiceStep
<1>. QED
  BY <1>1, <1>2 DEF ServiceMoves, Moves

\* h's answer has the metric of x.
Has(h, x) == \E m \in result[h] : m.id = x.id /\ m.mtype = x.mtype

\* It has all that it should.
Whole(h) ==
  /\ req[h].kind = "list" => \A old \in existed[h] : \E m \in result[h] : m.id = old[2]
  /\ req[h].kind \notin {"list", "path"} =>
       \A k \in 1..Len(req[h].items) : Accepted(req[h].items[k]) => Has(h, req[h].items[k])

\* The items that h has dealt with.
Past(h) == 1..(Len(req[h].items) - Len(todo[h]))

\* What h has applied is stored, and stays; what it has read is in its answer.
CompleteOf(h) ==
  /\ at[h] = "update" /\ req[h].kind = "batch" =>
       \A k \in Past(h) : Accepted(req[h].items[k]) => Stored(req[h].items[k]) # Absent
  /\ at[h] = "read" /\ req[h].kind = "batch" =>
       \A k \in 1..Len(req[h].items) :
         Accepted(req[h].items[k]) => Stored(req[h].items[k]) # Absent
  /\ at[h] = "read" =>
       \A k \in Past(h) : Accepted(req[h].items[k]) => Has(h, req[h].items[k])
  /\ at[h] = "list" =>
       \A n \in Names : <<"counter", n>> \in existed[h] => counters[n] # Absent
  /\ at[h] = "answer" /\ status[h] = 200 => Whole(h)

CompleteInv == \A h \in Handlers : CompleteOf(h)

\* What is stored stays stored.
LEMMA StoredStays ==
  ASSUME Grows, NEW x \in Items, Accepted(x), Stored(x) # Absent
  PROVE  Stored(x)' # Absent
<1>1. x.id \in Names /\ x.mtype \in {"gauge", "counter"}
  BY DEF Items, Accepted
<1>. QED
  BY <1>1 DEF Grows, Stored

\* The items of a request, by place.
LEMMA ItemsOf ==
  ASSUME StageInv, NEW h \in Handlers, at[h] # "idle"
  PROVE  /\ Len(req[h].items) \in Nat
         /\ \A k \in 1..Len(req[h].items) : req[h].items[k] \in Items
BY RequestFacts DEF StageInv, StageOf

\* What h has dealt with is part of what it was asked.
LEMMA PastOf ==
  ASSUME ServiceTyped, StageInv, NEW h \in Handlers, at[h] \in {"update", "read"}
  PROVE  /\ Past(h) \subseteq 1..Len(req[h].items)
         /\ \A k \in 1..Len(req[h].items) :
              k <= Len(req[h].items) - (Len(todo[h]) - 1) <=>
                k \in Past(h) \/ k = Len(req[h].items) - Len(todo[h]) + 1
         /\ Len(todo[h]) = 1 =>
              \A k \in 1..Len(req[h].items) : k \in Past(h) \/ k = Len(req[h].items) - Len(todo[h]) + 1
<1>. DEFINE L == Len(req[h].items)
            m == Len(todo[h])
<1>1. L \in Nat /\ m \in 1..L
  BY NextItem
<1>2. /\ 1..(L - m) \subseteq 1..L
      /\ \A k \in 1..L : k <= L - (m - 1) <=> k \in 1..(L - m) \/ k = L - m + 1
      /\ m = 1 => \A k \in 1..L : k \in 1..(L - m) \/ k = L - m + 1
  <2>. HIDE DEF L, m
  <2>. QED
    BY <1>1
<1>. QED
  BY <1>2 DEF Past

\* Others lose nothing of what they have.
LEMMA OthersComplete ==
  ASSUME ServiceTyped, StageInv, CompleteInv, NEW h \in Handlers, Others(h), Grows,
         NEW g \in Handlers \ {h}
  PROVE  CompleteOf(g)'
<1>1. /\ CompleteOf(g)
      /\ at'[g] = at[g] /\ req'[g] = req[g] /\ todo'[g] = todo[g] /\ result'[g] = result[g]
      /\ status'[g] = status[g] /\ existed'[g] = existed[g]
  BY DEF CompleteInv, Others
<1>2. ASSUME at[g] \in {"update", "read"}, NEW k \in 1..Len(req[g].items),
             Accepted(req[g].items[k]), Stored(req[g].items[k]) # Absent
      PROVE  Stored(req[g].items[k])' # Absent
  <2>. DEFINE x == req[g].items[k]
  <2>1. x \in Items /\ x' = x
    BY <1>1, <1>2, ItemsOf
  <2>2. Accepted(x) /\ Stored(x) # Absent
    BY <1>2
  <2>3. x.id \in Names /\ x.mtype \in {"gauge", "counter"}
    BY <2>1, <2>2 DEF Items, Accepted
  <2>4. (IF x.mtype = "counter" THEN counters'[x.id] ELSE gauges'[x.id]) # Absent
    BY <2>2, <2>3 DEF Grows, Stored
  <2>. QED
    BY <1>1, <2>4 DEF Stored
<1>3. at[g] \in {"update", "read"} => Past(g) \subseteq 1..Len(req[g].items)
  BY PastOf
<1>4. Past(g)' = Past(g)
  BY <1>1 DEF Past
<1>5. \A k : Has(g, req[g].items[k])' <=> Has(g, req[g].items[k])
  BY <1>1 DEF Has
<1>6. at'[g] = "update" /\ req'[g].kind = "batch" =>
        \A k \in Past(g)' : Accepted(req'[g].items[k]) => Stored(req[g].items[k])' # Absent
  BY <1>1, <1>2, <1>3, <1>4 DEF CompleteOf
<1>7. at'[g] = "read" /\ req'[g].kind = "batch" =>
        \A k \in 1..Len(req'[g].items) :
          Accepted(req'[g].items[k]) => Stored(req[g].items[k])' # Absent
  BY <1>1, <1>2 DEF CompleteOf
<1>8. at'[g] = "read" =>
        \A k \in Past(g)' : Accepted(req'[g].items[k]) => Has(g, req[g].items[k])'
  BY <1>1, <1>4, <1>5 DEF CompleteOf
<1>9. at'[g] = "list" =>
        \A n \in Names : <<"counter", n>> \in existed'[g] => counters'[n] # Absent
  BY <1>1 DEF CompleteOf, Grows
<1>10. at'[g] = "answer" /\ status'[g] = 200 => Whole(g)'
  BY <1>1, <1>5 DEF CompleteOf, Whole
<1>. QED
  BY <1>6, <1>7, <1>8, <1>9, <1>10 DEF CompleteOf

\* A request begins with nothing done.
LEMMA BeginComplete ==
  ASSUME ServiceTyped, StageInv, NEW h \in Handlers, NEW r \in Requests,
         NEW parses \in BOOLEAN, Begin(h, r, parses)
  PROVE  CompleteOf(h)'
<1>1. /\ req'[h] = r /\ todo'[h] = r.items /\ counters' = counters
      /\ existed'[h] = {<<m.mtype, m.id>> : m \in Held}
  BY DEF Begin, storage, ServiceTyped, RequestTyped
<1>2. r.kind \in Kinds /\ Len(r.items) \in Nat
  BY RequestFacts
<1>3. Past(h)' = {}
  <2>1. Past(h)' = 1..(Len(r.items) - Len(r.items))
    BY <1>1 DEF Past
  <2>. QED
    BY <1>2, <2>1
<1>4. \/ at'[h] = FirstStep[r.kind]
      \/ at'[h] = "answer" /\ status'[h] = 400
  <2>1. CASE parses
    BY <2>1 DEF Begin, ServiceTyped, RequestTyped
  <2>2. CASE ~parses
    <3>1. at' = [at EXCEPT ![h] = "answer"] /\ status' = [status EXCEPT ![h] = 400]
      BY <2>2 DEF Begin, Answer
    <3>2. at'[h] = "answer"
      BY <3>1 DEF ServiceTyped, RequestTyped
    <3>3. status'[h] = 400
      BY <3>1 DEF ServiceTyped, AnswerTyped
    <3>. QED
      BY <3>2, <3>3
  <2>. QED
    BY <2>1, <2>2
<1>5. at'[h] = "read" => r.kind # "batch"
  BY <1>2, <1>4, StepTables
<1>6. at'[h] # "answer" \/ status'[h] # 200
  <2>1. 400 # 200
    OBVIOUS
  <2>. QED
    BY <1>2, <1>4, <2>1, StepTables
<1>7. ASSUME NEW n \in Names, <<"counter", n>> \in existed'[h]
      PROVE  counters'[n] # Absent
  <2>1. PICK m \in Held : m.mtype = "counter" /\ m.id = n
    BY <1>1, <1>7
  <2>. QED
    BY <1>1, <2>1 DEF Held, Metric
<1>. QED
  BY <1>1, <1>3, <1>5, <1>6, <1>7 DEF CompleteOf

\* A single update is read back, or is not asked to be.
LEMMA UpdateComplete ==
  ASSUME ServiceTyped, StageInv, NEW h \in Handlers, UpdateMetric(h)
  PROVE  CompleteOf(h)'
<1>1. /\ at[h] = "update" /\ req[h].kind \in {"path", "json"} /\ req' = req /\ todo' = todo
  BY DEF UpdateMetric
<1>2. /\ Len(req[h].items) = 1 /\ Len(todo[h]) = 1
  <2>1. Len(req[h].items) = 1
    BY <1>1, ItemFits
  <2>2. Len(todo[h]) \in 1..Len(req[h].items)
    BY <1>1, NextItem
  <2>. QED
    BY <2>1, <2>2
<1>3. Past(h)' = {}
  BY <1>1, <1>2 DEF Past
<1>4. at'[h] = "read" \/ (at'[h] = "answer" /\ (status'[h] = 200 => req[h].kind = "path"))
  <2>1. \/ at' = [at EXCEPT ![h] = "read"]
        \/ at' = [at EXCEPT ![h] = "answer"] /\ status' = [status EXCEPT ![h] = 400]
        \/ at' = [at EXCEPT ![h] = "answer"] /\ req[h].kind = "path"
    BY DEF UpdateMetric, Answer
  <2>2. status' = [status EXCEPT ![h] = 400] => status'[h] # 200
    BY DEF ServiceTyped, AnswerTyped
  <2>. QED
    BY <2>1, <2>2 DEF ServiceTyped, RequestTyped
<1>. QED
  BY <1>1, <1>3, <1>4 DEF CompleteOf, Whole

\* What a batch has applied is stored.
LEMMA ApplyNextComplete ==
  ASSUME ServiceTyped, StageInv, CompleteInv, NEW h \in Handlers, ApplyNext(h)
  PROVE  CompleteOf(h)'
<1>. DEFINE L == Len(req[h].items)
            m == Len(todo[h])
            x == Head(todo[h])
<1>1. /\ at[h] = "update" /\ req[h].kind = "batch" /\ Apply(x) /\ req' = req
  BY DEF ApplyNext
<1>2. /\ Fits(x) /\ x = req[h].items[L - m + 1] /\ x \in Items
      /\ L \in Nat /\ m \in 1..L /\ Len(Tail(todo[h])) = m - 1
  BY <1>1, ItemFits, NextItem
<1>3. Accepted(x) => (IF x.mtype = "counter" THEN counters'[x.id] ELSE gauges'[x.id]) # Absent
  <2>. HIDE DEF x
  <2>. QED
    BY <1>1, <1>2, ApplyEffect DEF ServiceTyped
<1>4. Grows
  BY WritesOthers
<1>5. ASSUME NEW k \in 1..L, k \in Past(h) \/ k = L - m + 1, Accepted(req[h].items[k])
      PROVE  Stored(req[h].items[k])' # Absent
  <2>1. CASE k \in Past(h)
    <3>1. req[h].items[k] \in Items /\ Stored(req[h].items[k]) # Absent
      BY <1>1, <1>5, <2>1, ItemsOf DEF CompleteInv, CompleteOf
    <3>2. req[h].items[k].id \in Names /\ req[h].items[k].mtype \in {"gauge", "counter"}
      BY <1>5, <3>1 DEF Items, Accepted
    <3>. QED
      BY <1>1, <1>4, <3>1, <3>2 DEF Stored, Grows
  <2>2. CASE k = L - m + 1
    <3>1. req[h].items[k] = x /\ req'[h] = req[h]
      BY <1>1, <1>2, <2>2
    <3>2. (IF x.mtype = "counter" THEN counters'[x.id] ELSE gauges'[x.id]) # Absent
      BY <1>3, <1>5, <3>1
    <3>. HIDE DEF x
    <3>. QED
      BY <3>1, <3>2 DEF Stored
  <2>. QED
    BY <1>5, <2>1, <2>2
<1>6. \/ m = 1 /\ at'[h] = "read" /\ todo'[h] = req[h].items
      \/ m # 1 /\ at'[h] = "update" /\ todo'[h] = Tail(todo[h])
  BY <1>1 DEF ApplyNext, ServiceTyped, RequestTyped
<1>p. /\ \A k \in 1..L : k <= L - (m - 1) <=> k \in Past(h) \/ k = L - m + 1
      /\ m = 1 => \A k \in 1..L : k \in Past(h) \/ k = L - m + 1
  BY <1>1, PastOf
<1>7. CASE m = 1 /\ at'[h] = "read" /\ todo'[h] = req[h].items
  <2>1. \A k \in 1..L : Accepted(req[h].items[k]) => Stored(req[h].items[k])' # Absent
    BY <1>5, <1>7, <1>p
  <2>2. Past(h)' = {}
    <3>1. Past(h)' = 1..(L - L)
      BY <1>1, <1>7 DEF Past
    <3>2. L \in Nat
      BY <1>2
    <3>. HIDE DEF L
    <3>. QED
      BY <3>1, <3>2
  <2>. QED
    BY <1>1, <1>7, <2>1, <2>2 DEF CompleteOf
<1>8. CASE m # 1 /\ at'[h] = "update" /\ todo'[h] = Tail(todo[h])
  <2>1. \A k \in Past(h)' : k \in 1..L /\ k <= L - (m - 1)
    <3>1. Past(h)' = 1..(L - (m - 1))
      BY <1>1, <1>2, <1>8 DEF Past
    <3>2. L \in Nat /\ m \in 1..L
      BY <1>2
    <3>. HIDE DEF L, m
    <3>. QED
      BY <3>1, <3>2
  <2>2. \A k \in Past(h)' : Accepted(req[h].items[k]) => Stored(req[h].items[k])' # Absent
    BY <1>5, <1>p, <2>1
  <2>. QED
    BY <1>1, <1>8, <2>2 DEF CompleteOf
<1>. QED
  BY <1>6, <1>7, <1>8

\* What is read is in the answer, and what is not there is answered otherwise.
LEMMA ReadNextComplete ==
  ASSUME ServiceTyped, StageInv, CompleteInv, NEW h \in Handlers, ReadNext(h)
  PROVE  CompleteOf(h)'
<1>. DEFINE L == Len(req[h].items)
            m == Len(todo[h])
            x == Head(todo[h])
            got == result[h] \cup (IF Found(x) THEN {Metric(x.mtype, x.id, Stored(x))} ELSE {})
<1>1. /\ at[h] = "read" /\ result' = [result EXCEPT ![h] = got]
      /\ todo' = [todo EXCEPT ![h] = Tail(@)]
      /\ UNCHANGED <<storage, req, seen, existed, asked, served>>
  BY DEF ReadNext
<1>2. /\ x = req[h].items[L - m + 1] /\ x \in Items /\ req[h] \in Requests
      /\ L \in Nat /\ m \in 1..L /\ Len(Tail(todo[h])) = m - 1
  BY <1>1, NextItem
<1>3. /\ result'[h] = got /\ todo'[h] = Tail(todo[h]) /\ req'[h] = req[h]
      /\ counters' = counters /\ gauges' = gauges
  BY <1>1 DEF ServiceTyped, RequestTyped, storage
<1>4. Accepted(x) => x.mtype # "other"
  BY DEF Accepted
<1>5. req[h].kind \in {"json", "batch", "value", "get"}
  BY <1>1 DEF StageInv, StageOf
<1>6. \/ m # 1 /\ at'[h] = "read" /\ L # 1
      \/ m = 1 /\ at'[h] = "answer" /\ (status'[h] = 200 => req[h].kind = "batch" \/ Found(x))
  <2>. HIDE DEF x, got
  <2>1. m = 1 \/ m > 1
    <3>. HIDE DEF m, L
    <3>. QED
      BY <1>2
  <2>2. m > 1 => m # 1 /\ L # 1
    <3>. HIDE DEF m, L
    <3>. QED
      BY <1>2
  <2>3. CASE m > 1
    BY <1>1, <2>2, <2>3 DEF ReadNext
  <2>4. CASE m = 1
    <3>1. ~(m > 1)
      BY <2>4
    <3>2. CASE req[h].kind # "batch" /\ ~Found(x)
      <4>1. Answer(h, NotFound[req[h].kind], req[h].kind = "get")
        BY <3>1, <3>2 DEF ReadNext, x
      <4>2. at'[h] = "answer"
        BY <4>1 DEF Answer, ServiceTyped, RequestTyped
      <4>3. NotFound[req[h].kind] \in {404, 500}
        BY <1>5, <3>2, StepTables
      <4>4. status' = [status EXCEPT ![h] = 404] \/ status' = [status EXCEPT ![h] = 500]
        BY <4>1, <4>3 DEF Answer
      <4>5. status'[h] # 200
        BY <4>4 DEF ServiceTyped, AnswerTyped
      <4>. QED
        BY <2>4, <4>2, <4>5
    <3>3. CASE ~(req[h].kind # "batch" /\ ~Found(x))
      <4>1. Answer(h, 200, Unwritable(h, got))
        BY <3>1, <3>3 DEF ReadNext, x, got
      <4>2. at'[h] = "answer"
        BY <4>1 DEF Answer, ServiceTyped, RequestTyped
      <4>. QED
        BY <2>4, <3>3, <4>2
    <3>. QED
      BY <3>2, <3>3
  <2>. QED
    BY <2>1, <2>3, <2>4
<1>7. result[h] \subseteq got /\ (Found(x) => \E e \in got : e.id = x.id /\ e.mtype = x.mtype)
  <2>1. Metric(x.mtype, x.id, Stored(x)).id = x.id
        /\ Metric(x.mtype, x.id, Stored(x)).mtype = x.mtype
    BY DEF Metric
  <2>. HIDE DEF x
  <2>. QED
    BY <2>1
<1>8. ASSUME NEW k \in 1..L, k \in Past(h) \/ k = L - m + 1, Accepted(req[h].items[k]),
             req[h].kind = "batch" \/ Found(x)
      PROVE  \E e \in got : e.id = req[h].items[k].id /\ e.mtype = req[h].items[k].mtype
  <2>1. CASE k \in Past(h)
    BY <1>1, <1>7, <1>8, <2>1 DEF CompleteInv, CompleteOf, Has
  <2>2. CASE k = L - m + 1
    <3>1. req[h].items[k] = x
      BY <1>2, <2>2
    <3>2. CASE Found(x)
      <4>. HIDE DEF x, got
      <4>. QED
        BY <1>7, <3>1, <3>2
    <3>3. CASE req[h].kind = "batch"
      <4>1. Stored(req[h].items[k]) # Absent
        BY <1>1, <1>8, <3>3 DEF CompleteInv, CompleteOf
      <4>. HIDE DEF x, got
      <4>2. Found(x)
        BY <1>4, <1>8, <3>1, <4>1 DEF Found
      <4>. QED
        BY <1>7, <3>1, <4>2
    <3>. QED
      BY <1>8, <3>2, <3>3
  <2>. QED
    BY <1>8, <2>1, <2>2
<1>p. /\ \A k \in 1..L : k <= L - (m - 1) <=> k \in Past(h) \/ k = L - m + 1
      /\ m = 1 => \A k \in 1..L : k \in Past(h) \/ k = L - m + 1
  BY <1>1, PastOf
<1>9. CASE m # 1 /\ at'[h] = "read" /\ L # 1
  <2>1. req[h].kind = "batch"
    BY <1>2, <1>5, <1>9, RequestFacts
  <2>2. \A k \in Past(h)' : k \in 1..L /\ k <= L - (m - 1)
    <3>1. Past(h)' = 1..(L - (m - 1))
      BY <1>2, <1>3 DEF Past
    <3>2. L \in Nat /\ m \in 1..L
      BY <1>2
    <3>. HIDE DEF L, m
    <3>. QED
      BY <3>1, <3>2
  <2>3. \A k \in Past(h)' : Accepted(req[h].items[k]) =>
          \E e \in result'[h] : e.id = req[h].items[k].id /\ e.mtype = req[h].items[k].mtype
    <3>. HIDE DEF got
    <3>. QED
      BY <1>3, <1>8, <1>p, <2>1, <2>2
  <2>4. \A k \in 1..L : Accepted(req'[h].items[k]) => Stored(req[h].items[k])' # Absent
    BY <1>1, <1>3, <2>1 DEF CompleteInv, CompleteOf, Stored
  <2>. QED
    BY <1>3, <1>9, <2>3, <2>4 DEF CompleteOf, Has
<1>10. CASE /\ m = 1 /\ at'[h] = "answer"
            /\ status'[h] = 200 => req[h].kind = "batch" \/ Found(x)
  <2>. SUFFICES ASSUME status'[h] = 200
                PROVE  Whole(h)'
    BY <1>10 DEF CompleteOf
  <2>1. \A k \in 1..L : Accepted(req[h].items[k]) =>
          \E e \in result'[h] : e.id = req[h].items[k].id /\ e.mtype = req[h].items[k].mtype
    <3>. HIDE DEF got, x
    <3>. QED
      BY <1>3, <1>8, <1>10, <1>p
  <2>. QED
    BY <1>3, <1>5, <2>1 DEF Whole, Has
<1>. QED
  BY <1>6, <1>9, <1>10

\* The page has every name there was when the listing began.
LEMMA ListComplete ==
  ASSUME ServiceTyped, StageInv, CompleteInv, NEW h \in Handlers,
         GetAllCounters(h) \/ \E n \in Names : VisitGauge(h, n)
  PROVE  CompleteOf(h)'
<1>1. /\ at[h] = "list"
      /\ UNCHANGED <<storage, req, todo, seen, existed, asked, served>>
      /\ counters' = counters
  BY DEF GetAllCounters, VisitGauge, storage
<1>2. \A n \in Names : <<"counter", n>> \in existed[h] => counters[n] # Absent
  BY <1>1 DEF CompleteInv, CompleteOf
<1>3. CASE \E n \in Names : VisitGauge(h, n)
  <2>1. at' = at
    BY <1>3 DEF VisitGauge
  <2>. QED
    BY <1>1, <1>2, <2>1 DEF CompleteOf
<1>4. CASE GetAllCounters(h)
  <2>1. /\ at'[h] = "answer"
        /\ result'[h] = {m \in result[h] : counters[m.id] = Absent}
                        \cup {m \in Held : m.mtype = "counter"}
    BY <1>4 DEF GetAllCounters, Answer, ServiceTyped, RequestTyped
  <2>2. ASSUME NEW n \in Names, counters[n] # Absent
        PROVE  \E m \in result'[h] : m.id = n
    <3>1. Metric("counter", n, counters[n]) \in Held
      BY <2>2 DEF Held
    <3>2. Metric("counter", n, counters[n]).id = n
          /\ Metric("counter", n, counters[n]).mtype = "counter"
      BY DEF Metric
    <3>. QED
      BY <2>1, <3>1, <3>2
  <2>3. ASSUME NEW old \in existed[h]
        PROVE  \E m \in result'[h] : m.id = old[2]
    <3>1. /\ old[2] \in Names /\ old[1] \in {"gauge", "counter"}
          /\ old = <<old[1], old[2]>>
      BY DEF ServiceTyped, RequestTyped
    <3>2. CASE counters[old[2]] # Absent
      BY <2>2, <3>1, <3>2
    <3>3. CASE counters[old[2]] = Absent
      <4>1. <<"gauge", old[2]>> \in existed[h]
        BY <1>2, <3>1, <3>3
      <4>2. PICK m \in result[h] : m.id = old[2]
        BY <1>4, <3>1, <4>1 DEF GetAllCounters
      <4>3. m \in result'[h]
        BY <2>1, <3>3, <4>2
      <4>. QED
        BY <4>2, <4>3
    <3>. QED
      BY <3>2, <3>3
  <2>4. req[h].kind = "list"
    BY <1>1 DEF StageInv, StageOf
  <2>. QED
    BY <1>1, <2>1, <2>3, <2>4 DEF CompleteOf, Whole
<1>. QED
  BY <1>3, <1>4

LEMMA MovesComplete ==
  ASSUME ServiceTyped, StageInv, CompleteInv, ServiceMoves
  PROVE  CompleteInv'
<1>1. CASE UNCHANGED service
  <2>1. UNCHANGED <<gauges, counters, at, req, todo, result, status, existed>>
    BY <1>1 DEF service, storage, request
  <2>2. ASSUME NEW h \in Handlers
        PROVE  CompleteOf(h)'
    <3>1. CompleteOf(h)
      BY DEF CompleteInv
    <3>2. (Whole(h) => Whole(h)') /\ Past(h)' = Past(h)
      BY <2>1 DEF Whole, Has, Past
    <3>3. at[h] = "update" /\ req[h].kind = "batch" =>
            \A k \in Past(h) : Accepted(req[h].items[k]) => Stored(req[h].items[k])' # Absent
      BY <2>1, <3>1 DEF CompleteOf, Stored
    <3>4. at[h] = "read" /\ req[h].kind = "batch" =>
            \A k \in 1..Len(req[h].items) :
              Accepted(req[h].items[k]) => Stored(req[h].items[k])' # Absent
      BY <2>1, <3>1 DEF CompleteOf, Stored
    <3>5. at[h] = "read" =>
            \A k \in Past(h) : Accepted(req[h].items[k]) => Has(h, req[h].items[k])'
      BY <2>1, <3>1 DEF CompleteOf, Has
    <3>. QED
      BY <2>1, <3>1, <3>2, <3>3, <3>4, <3>5 DEF CompleteOf
  <2>. QED
    BY <2>2 DEF CompleteInv
<1>2. ASSUME NEW h \in Handlers, Moves(h)
      PROVE  CompleteInv'
  <2>1. Others(h) /\ Grows
    BY <1>2, WritesOthers, ReadsOthers
  <2>2. SUFFICES CompleteOf(h)'
    <3>1. \A g \in Handlers \ {h} : CompleteOf(g)'
      BY <2>1, OthersComplete
    <3>. QED
      BY <3>1 DEF CompleteInv
  <2>3. CASE \E r \in Requests, parses \in BOOLEAN : Begin(h, r, parses)
    BY <2>3, BeginComplete
  <2>4. CASE ServiceStep(h)
    BY <2>4, UpdateComplete, ApplyNextComplete, ReadNextComplete, ListComplete DEF ServiceStep
  <2>5. CASE (\E r \in Requests : Refused(h, r)) \/ Returns(h) \/ Done(h)
    <3>1. at'[h] \in {"refused", "returned", "idle"}
      BY <2>5 DEF Refused, Returns, Done, ServiceTyped, RequestTyped
    <3>. QED
      BY <3>1 DEF CompleteOf
  <2>. QED
    BY <1>2, <2>3, <2>4, <2>5 DEF Moves
<1>. QED
  BY <1>1, <1>2 DEF ServiceMoves, Moves

\* What is true of all steps, of the answers as they are stated.
LEMMA AnswersAreRight ==
  ASSUME ServiceTyped, StageInv
  PROVE  /\ CurrentInv => AnswersCurrent
         /\ CompleteInv => AnswersComplete
<1>1. CurrentInv => AnswersCurrent
  BY DEF CurrentInv, CurrentOf, AnswersCurrent
<1>2. ASSUME CompleteInv, NEW h \in Handlers, at[h] = "answer", status[h] = 200
      PROVE  CASE req[h].kind = "list" -> \A old \in existed[h] : \E m \in result[h] : m.id = old[2]
               [] req[h].kind = "path" -> TRUE
               [] OTHER -> \A k \in DOMAIN req[h].items :
                    Accepted(req[h].items[k]) =>
                      \E m \in result[h] : m.id = req[h].items[k].id /\ m.mtype = req[h].items[k].mtype
  <2>1. Whole(h)
    BY <1>2 DEF CompleteInv, CompleteOf
  <2>2. DOMAIN req[h].items = 1..Len(req[h].items)
    <3>1. req[h].items \in Seq(Items)
      BY <1>2, RequestFacts DEF StageInv, StageOf
    <3>. QED
      BY <3>1
  <2>3. CASE req[h].kind = "list"
    BY <2>1, <2>3 DEF Whole
  <2>4. CASE req[h].kind = "path"
    BY <2>4
  <2>5. CASE req[h].kind \notin {"list", "path"}
    BY <2>1, <2>2, <2>5 DEF Whole, Has
  <2>. QED
    BY <2>3, <2>4, <2>5
<1>. QED
  BY <1>1, <1>2 DEF AnswersComplete

LEMMA InitAnswers ==
  ASSUME ServiceInit
  PROVE  CurrentInv /\ CompleteInv
BY DEF ServiceInit, CurrentInv, CurrentOf, CompleteInv, CompleteOf
=============================================================================
