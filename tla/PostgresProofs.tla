--------------------------- MODULE PostgresProofs ---------------------------
(***************************************************************************)
(* What PostgresStorage and the handlers over it guarantee for every set   *)
(* of handlers, names and requests and any number of failing calls: types, *)
(* exclusive writers, and answers that are true of the update they answer. *)
(***************************************************************************)
EXTENDS Postgres, Sums, FiniteSetTheorems, SequenceTheorems, WellFoundedInduction, TLAPS

-----------------------------------------------------------------------------
(* Data.                                                                   *)

\* What an item's type says of its value.
LEMMA ItemType ==
  ASSUME NEW x \in Items
  PROVE  /\ x.id \in Ids /\ x.mtype \in {"counter", "gauge", "other"}
         /\ x.mtype = "gauge" => x.val \in GaugeValues \cup {Nil}
BY DEF Items, Types

\* A set of indices that is not empty has a largest one: the last gauge of a
\* name in a batch exists.
LEMMA LastIndex ==
  ASSUME NEW n \in Nat, NEW S \in SUBSET (1..n), S # {}
  PROVE  Max(S) \in S
<1>. DEFINE T == {n - k : k \in S}
            R == {ss \in Nat \X Nat : ss[1] < ss[2]}
<1>1. T \subseteq Nat /\ T # {}
  <2>1. \A k \in S : n - k \in Nat
    OBVIOUS
  <2>2. PICK k \in S : TRUE
    OBVIOUS
  <2>. QED
    BY <2>1, <2>2
<1>2. IsWellFoundedOn(R, Nat)
  BY NatLessThanWellFounded DEF OpToRel
<1>3. PICK t \in T : \A u \in T : ~(<<u, t>> \in R)
  <2>. HIDE DEF T, R
  <2>. QED
    BY <1>1, <1>2, WFMin
<1>4. PICK k \in S : t = n - k
  BY <1>3
<1>5. \A l \in S : k >= l
  <2>. TAKE l \in S
  <2>1. n - l \in T /\ n - l \in Nat /\ t \in Nat
    BY <1>1
  <2>2. ~(n - l < t)
    BY <1>3, <2>1
  <2>. QED
    BY <2>2, <1>4
<1>. QED
  BY <1>5 DEF Max

\* What a batch stores as a gauge is one of its values, or nothing.
LEMMA RawValueType ==
  ASSUME NEW items \in Seq(Items), NEW i
  PROVE  RawValue(items, i) \in GaugeValues \cup {Blank}
<1>. DEFINE given == {k \in DOMAIN items : items[k].id = i /\ items[k].mtype = "gauge"
                                             /\ items[k].val # Nil}
<1>1. Len(items) \in Nat /\ given \in SUBSET (1..Len(items))
  OBVIOUS
<1>2. given # {} => Max(given) \in given
  <2>. HIDE DEF given
  <2>. QED
    BY <1>1, LastIndex
<1>3. \A k \in given : items[k].val \in GaugeValues
  <2>. TAKE k \in given
  <2>1. items[k] \in Items
    OBVIOUS
  <2>. QED
    BY <2>1, ItemType
<1>4. RawValue(items, i) = IF given = {} THEN Blank ELSE items[Max(given)].val
  BY DEF RawValue
<1>. HIDE DEF given
<1>. QED
  BY <1>2, <1>3, <1>4

\* A row of the table.
Rows == [mtype : {"absent", "counter", "gauge"}, ivalue : Int64,
         graw : GaugeValues \cup {Blank}]

\* An update that PostgreSQL accepts leaves rows.
LEMMA UpdatedType ==
  ASSUME table \in [Ids -> Rows], NEW items \in Seq(Items), Accepted(items)
  PROVE  Updated(items) \in [Ids -> Rows]
<1>1. SUFFICES ASSUME NEW i \in Ids PROVE Updated(items)[i] \in Rows
  BY DEF Updated
<1>2. Updated(items)[i].ivalue \in Int64
  BY DEF Accepted
<1>3. CASE i \in Touched(items)
  <2>1. Updated(items)[i] = Upsert(table[i], items, i) /\ table[i] \in Rows
    BY <1>3 DEF Updated
  <2>2. PICK row \in Rows : row = table[i]
    BY <2>1
  <2>3. RawValue(items, i) \in GaugeValues \cup {Blank}
    BY RawValueType
  <2>4. CASE Touches(items, i, "counter")
    BY <1>2, <2>1, <2>2, <2>4 DEF Upsert, Rows
  <2>5. CASE ~Touches(items, i, "counter")
    BY <2>1, <2>2, <2>3, <2>5 DEF Upsert, Rows
  <2>. QED
    BY <2>4, <2>5
<1>4. CASE i \notin Touched(items)
  BY <1>4 DEF Updated
<1>. QED
  BY <1>3, <1>4

\* After an update with one metric, a read of that metric finds it.
LEMMA UpdatedFound ==
  ASSUME table \in [Ids -> Rows], NEW items \in Seq(Items), Len(items) = 1,
         items[1].val # Nil, items[1].mtype # "other"
  PROVE  LET row == Updated(items)[items[1].id]
         IN  row.mtype = items[1].mtype /\ (items[1].mtype = "gauge" => row.graw # Blank)
<1>. DEFINE x == items[1]
<1>1. DOMAIN items = {1} /\ x \in Items
  <2>1. DOMAIN items = 1..1
    OBVIOUS
  <2>2. 1..1 = {1}
    OBVIOUS
  <2>3. 1 \in 1..Len(items)
    OBVIOUS
  <2>4. items[1] \in Items
    BY <2>3, ElementOfSeq
  <2>. QED
    BY <2>1, <2>2, <2>4
<1>2. x.id \in Ids /\ x.mtype \in {"counter", "gauge"}
      /\ (x.mtype = "gauge" => x.val \in GaugeValues)
  BY <1>1, ItemType
<1>3. \A t : Touches(items, x.id, t) <=> t = x.mtype
  BY <1>1 DEF Touches
<1>4. Updated(items)[x.id] = Upsert(table[x.id], items, x.id) /\ table[x.id] \in Rows
  BY <1>2, <1>3 DEF Updated, Touched
<1>5. x.mtype = "gauge" => RawValue(items, x.id) = x.val
  <2>. DEFINE given == {k \in DOMAIN items : items[k].id = x.id /\ items[k].mtype = "gauge"
                                               /\ items[k].val # Nil}
  <2>1. x.mtype = "gauge" => given = {1}
    BY <1>1
  <2>2. Max({1}) = 1
    BY DEF Max
  <2>. QED
    BY <2>1, <2>2 DEF RawValue
<1>6. CASE x.mtype = "counter"
  BY <1>3, <1>4, <1>6 DEF Upsert, Rows
<1>7. CASE x.mtype = "gauge"
  <2>1. Upsert(table[x.id], items, x.id)
          = [table[x.id] EXCEPT !.mtype = "gauge", !.graw = x.val]
    BY <1>3, <1>5, <1>7 DEF Upsert
  <2>. QED
    BY <1>2, <1>4, <1>7, <2>1, PostgresAssumption DEF Rows
<1>. QED
  BY <1>2, <1>6, <1>7

-----------------------------------------------------------------------------
(* Types.                                                                  *)

\* What a request in progress asks for is a sequence of items.
LEMMA ItemsType ==
  ASSUME TypeOK, NEW h \in Handlers
  PROVE  req[h].items \in Seq(Items)
<1>1. req[h] \in Requests \cup {NoRequest}
  BY DEF TypeOK
<1>2. CASE req[h] \in Requests
  BY <1>2, PostgresAssumption DEF RequestOK
<1>3. CASE req[h] = NoRequest
  BY <1>3 DEF NoRequest
<1>. QED
  BY <1>1, <1>2, <1>3

\* An update that takes effect leaves types.
LEMMA CommitType ==
  ASSUME TypeOK, NEW h \in Handlers, NEW known \in BOOLEAN,
         Commit(h, known), Accepted(req[h].items)
  PROVE  /\ table' \in [Ids -> Rows]
         /\ fate' \in [Handlers -> {"none", "lost", "done"}]
         /\ mustList' \in [Handlers -> SUBSET Ids]
         /\ overtaken' \in [Handlers -> BOOLEAN]
<1>1. table' \in [Ids -> Rows]
  <2>1. table \in [Ids -> Rows]
    BY DEF TypeOK, Rows
  <2>. QED
    BY <2>1, ItemsType, UpdatedType DEF Commit
<1>2. fate' \in [Handlers -> {"none", "lost", "done"}]
  BY DEF TypeOK, Commit
<1>3. mustList' \in [Handlers -> SUBSET Ids]
  BY DEF TypeOK, Commit
<1>4. overtaken' \in [Handlers -> BOOLEAN]
  <2>. DEFINE hit(g) == \/ overtaken[g]
                        \/ /\ g # h /\ fate[g] # "none"
                           /\ \E k \in DOMAIN req[g].items :
                                req[g].items[k].id \in Touched(req[h].items)
  <2>1. overtaken' = [g \in Handlers |-> hit(g)]
    BY DEF Commit
  <2>2. \A g \in Handlers : hit(g) \in BOOLEAN
    BY DEF TypeOK
  <2>. HIDE DEF hit
  <2>. QED
    BY <2>1, <2>2
<1>. QED
  BY <1>1, <1>2, <1>3, <1>4

\* The types of what Return and a retry set.
Control ==
  /\ mu \in Handlers \cup {NoOne}
  /\ pc \in [Handlers -> {"idle", "lock", "exec", "get", "gauges", "counters", "render"}]
  /\ req \in [Handlers -> Requests \cup {NoRequest}]
  /\ todo \in [Handlers -> Seq(Items)]
  /\ attempt \in [Handlers -> 0..Backoffs]
  /\ answer \in [Handlers -> {"none", "200", "400", "404", "500"}]
  /\ DOMAIN promised = Ids

\* An answer leaves types.
LEMMA AnswerType ==
  ASSUME TypeOK, NEW h \in Handlers, NEW status \in {"200", "400", "404", "500"},
         Answer(h, status)
  PROVE  /\ pc' \in [Handlers -> {"idle", "lock", "exec", "get", "gauges", "counters",
                                  "render"}]
         /\ req' \in [Handlers -> Requests \cup {NoRequest}]
         /\ todo' \in [Handlers -> Seq(Items)]
         /\ answer' \in [Handlers -> {"none", "200", "400", "404", "500"}]
<1>1. <<>> \in Seq(Items)
  OBVIOUS
<1>. QED
  BY <1>1 DEF TypeOK, Answer

\* So does a return of a storage method.
LEMMA ReturnType ==
  ASSUME TypeOK, NEW h \in Handlers, NEW ok \in BOOLEAN, Return(h, ok)
  PROVE  Control'
<1>1. mu' = NoOne
  BY DEF Return, Unlock
<1>2. attempt' \in [Handlers -> 0..Backoffs]
  BY BackoffsAssumption DEF TypeOK, Return
<1>3. DOMAIN promised' = Ids
  BY DEF TypeOK, Return, Add
<1>4. CASE Answer(h, "400") \/ Answer(h, "200")
  BY <1>1, <1>2, <1>3, <1>4, AnswerType DEF Control
<1>5. CASE pc' = [pc EXCEPT ![h] = "get"] /\ UNCHANGED <<req, todo, answer>>
  BY <1>1, <1>2, <1>3, <1>5 DEF TypeOK, Control
<1>. QED
  BY <1>4, <1>5 DEF Return

\* And a failed attempt, retried or not.
LEMMA ErrorType ==
  ASSUME TypeOK, NEW h \in Handlers, NEW e, ExecError(h, e)
  PROVE  Control'
<1>1. CASE Return(h, FALSE)
  BY <1>1, ReturnType
<1>2. CASE /\ ShouldRetry(e, attempt[h])
           /\ attempt' = [attempt EXCEPT ![h] = @ + 1]
           /\ UNCHANGED <<mu, promised, pc, req, todo, answer>>
  <2>1. attempt[h] + 1 \in 0..Backoffs
    BY <1>2, BackoffsAssumption DEF ShouldRetry, TypeOK
  <2>. QED
    BY <1>2, <2>1 DEF TypeOK, Control
<1>. QED
  BY <1>1, <1>2 DEF ExecError

\* What is left of TypeOK.
Rest ==
  /\ table \in [Ids -> Rows]
  /\ page \in [Handlers -> SUBSET Ids] /\ mustList \in [Handlers -> SUBSET Ids]
  /\ fate \in [Handlers -> {"none", "lost", "done"}]
  /\ overtaken \in [Handlers -> BOOLEAN]
  /\ DOMAIN asked = Ids /\ DOMAIN lost = Ids
  /\ served \in Nat /\ faults \in Nat

\* The two together are TypeOK.
LEMMA TypeParts == (TypeOK <=> Control /\ Rest) /\ (TypeOK' <=> Control' /\ Rest')
BY DEF TypeOK, Control, Rest, Rows

\* Updates keep every variable in its type.
LEMMA WritingType ==
  ASSUME TypeOK, NEW h \in Handlers, Writing(h)
  PROVE  TypeOK'
<1>. USE DEF observed
<1>t. Control /\ Rest
  BY TypeParts
<1>1. CASE LockStorage(h)
  BY <1>1, <1>t, TypeParts DEF LockStorage, history, Control, Rest
<1>2. CASE RejectBatch(h)
  <2>1. Control'
    BY <1>2, <1>t, AnswerType DEF RejectBatch, history, Control
  <2>. QED
    BY <1>2, <2>1, <1>t, TypeParts DEF RejectBatch, history, Rest
<1>3. CASE Exec(h)
  <2>1. Control'
    BY <1>3, ReturnType DEF Exec
  <2>2. Rest'
    BY <1>3, <1>t, CommitType DEF Exec, Rest
  <2>. QED
    BY <2>1, <2>2, TypeParts
<1>4. CASE ExecRejected(h)
  <2>1. Control'
    BY <1>4, ErrorType DEF ExecRejected
  <2>2. Rest'
    BY <1>4, <1>t DEF ExecRejected, Rest
  <2>. QED
    BY <2>1, <2>2, TypeParts
<1>5. CASE ExecAnswerLost(h)
  <2>1. Control'
    BY <1>5, ErrorType DEF ExecAnswerLost
  <2>2. Rest'
    <3>1. /\ Commit(h, FALSE) /\ Accepted(req[h].items)
          /\ faults' = faults + 1 /\ lost' = Add(lost, req[h])
          /\ UNCHANGED <<page, asked, served>>
      BY <1>5 DEF ExecAnswerLost
    <3>2. /\ table' \in [Ids -> Rows]
          /\ fate' \in [Handlers -> {"none", "lost", "done"}]
          /\ mustList' \in [Handlers -> SUBSET Ids]
          /\ overtaken' \in [Handlers -> BOOLEAN]
      BY <3>1, CommitType
    <3>3. DOMAIN lost' = Ids
      BY <3>1, <1>t DEF Rest, Add
    <3>. QED
      BY <3>1, <3>2, <3>3, <1>t DEF Rest
  <2>. QED
    BY <2>1, <2>2, TypeParts
<1>6. ASSUME NEW e, ExecFails(h, e) PROVE TypeOK'
  <2>1. Control'
    BY <1>6, ErrorType DEF ExecFails
  <2>2. Rest'
    BY <1>6, <1>t DEF ExecFails, Rest
  <2>. QED
    BY <2>1, <2>2, TypeParts
<1>. QED
  BY <1>1, <1>2, <1>3, <1>4, <1>5, <1>6 DEF Writing

\* A listing names names.
LEMMA ListType ==
  ASSUME TypeOK, NEW h \in Handlers, NEW t, List(h, t)
  PROVE  /\ page' \in [Handlers -> SUBSET Ids]
         /\ mustList' \in [Handlers -> SUBSET Ids]
         /\ faults' \in Nat
<1>1. Named(t) \in SUBSET Ids
  BY DEF Named
<1>2. /\ page \in [Handlers -> SUBSET Ids] /\ mustList \in [Handlers -> SUBSET Ids]
      /\ faults \in Nat
  BY DEF TypeOK
<1>3. ASSUME NEW read \in SUBSET Named(t), page' = [page EXCEPT ![h] = @ \cup read]
      PROVE  page' \in [Handlers -> SUBSET Ids]
  BY <1>1, <1>2, <1>3
<1>4. CASE page' = [page EXCEPT ![h] = @ \cup Named(t)] /\ UNCHANGED <<mustList, faults>>
  BY <1>2, <1>3, <1>4
<1>5. ASSUME faults' = faults + 1,
             NEW read \in SUBSET Named(t), page' = [page EXCEPT ![h] = @ \cup read],
             mustList' = [mustList EXCEPT ![h] = @ \ (Named(t) \ read)]
      PROVE  /\ page' \in [Handlers -> SUBSET Ids]
             /\ mustList' \in [Handlers -> SUBSET Ids] /\ faults' \in Nat
  <2>1. mustList[h] \ (Named(t) \ read) \in SUBSET Ids
    BY <1>2
  <2>2. mustList' \in [Handlers -> SUBSET Ids]
    BY <1>2, <1>5, <2>1
  <2>3. page' \in [Handlers -> SUBSET Ids]
    BY <1>3, <1>5
  <2>4. faults' \in Nat
    BY <1>2, <1>5
  <2>. QED
    BY <2>2, <2>3, <2>4
<1>. QED
  BY <1>4, <1>5 DEF List

\* Reads keep every variable in its type.
LEMMA ReadingType ==
  ASSUME TypeOK, NEW h \in Handlers, Reading(h)
  PROVE  TypeOK'
<1>t. Control /\ Rest
  BY TypeParts
<1>1. CASE GetOne(h)
  <2>1. NotFound[req[h].kind] \in {"404", "500"}
    BY <1>1 DEF GetOne, NotFound
  <2>2. \E status \in {"200", "400", "404", "500"} : Answer(h, status)
    BY <1>1, <2>1 DEF GetOne
  <2>3. Control'
    BY <1>1, <2>2, <1>t, AnswerType DEF GetOne, Control
  <2>4. overtaken' \in [Handlers -> BOOLEAN] /\ faults' \in Nat
    <3>1. overtaken \in [Handlers -> BOOLEAN] /\ faults \in Nat
      BY <1>t DEF Rest
    <3>2. \/ UNCHANGED <<overtaken, faults>>
          \/ faults' = faults + 1 /\ overtaken' = [overtaken EXCEPT ![h] = TRUE]
      BY <1>1 DEF GetOne
    <3>3. faults' \in Nat
      BY <3>1, <3>2
    <3>4. overtaken' \in [Handlers -> BOOLEAN]
      BY <3>1, <3>2, Zenon
    <3>. QED
      BY <3>3, <3>4
  <2>. QED
    BY <1>1, <2>3, <2>4, <1>t, TypeParts DEF GetOne, Rest
<1>2. CASE GetNext(h)
  <2>1. CASE Len(todo[h]) > 1
    <3>1. todo[h] \in Seq(Items) /\ todo[h] # <<>>
      BY <2>1, <1>t DEF Control
    <3>2. Tail(todo[h]) \in Seq(Items)
      BY <3>1, HeadTailProperties
    <3>. QED
      BY <1>2, <2>1, <3>2, <1>t, TypeParts DEF GetNext, history, observed, Control, Rest
  <2>2. CASE ~(Len(todo[h]) > 1)
    <3>1. Control'
      BY <1>2, <2>2, <1>t, AnswerType DEF GetNext, history, Control
    <3>. QED
      BY <1>2, <3>1, <1>t, TypeParts DEF GetNext, history, observed, Rest
  <2>. QED
    BY <2>1, <2>2
<1>3. CASE GetAllGauges(h)
  BY <1>3, <1>t, ListType, TypeParts DEF GetAllGauges, Control, Rest
<1>4. CASE GetAllCounters(h)
  BY <1>4, <1>t, ListType, TypeParts DEF GetAllCounters, Control, Rest
<1>5. CASE Render(h)
  <2>1. Control'
    BY <1>5, <1>t, AnswerType DEF Render, Control
  <2>. QED
    BY <1>5, <2>1, <1>t, TypeParts DEF Render, Rest
<1>. QED
  BY <1>1, <1>2, <1>3, <1>4, <1>5 DEF Reading

\* A new request, too.
LEMMA StartType ==
  ASSUME TypeOK, NEW h \in Handlers, NEW r \in Requests, Start(h, r)
  PROVE  TypeOK'
<1>1. r.kind \in DOMAIN FirstStep /\ r.items \in Seq(Items)
  BY PostgresAssumption DEF RequestOK, FirstStep
<1>2. FirstStep[r.kind] \in {"lock", "get", "gauges"}
  BY <1>1 DEF FirstStep
<1>t. Control /\ Rest
  BY TypeParts
<1>3. Control'
  BY <1>1, <1>2, <1>t DEF Start, Control
<1>4. Rest'
  <2>1. DOMAIN asked' = Ids
    BY <1>t DEF Start, Add, Rest
  <2>2. {i \in Ids : table[i] # Absent} \in SUBSET Ids
    OBVIOUS
  <2>3. mustList' \in [Handlers -> SUBSET Ids]
    BY <1>t, <2>2 DEF Start, Rest
  <2>4. overtaken' \in [Handlers -> BOOLEAN]
    BY <1>t DEF Start, Rest
  <2>. QED
    BY <1>t, <2>1, <2>3, <2>4 DEF Start, Rest
<1>. QED
  BY <1>3, <1>4, TypeParts

\* PostgresStorage and its handlers keep every variable in its type; the rows
\* stay within BIGINT and no update makes more than Backoffs + 1 attempts.
THEOREM PostgresTypeCorrect == Spec => []TypeOK
<1>1. Init => TypeOK
  BY PostgresAssumption, BackoffsAssumption DEF Init, TypeOK, Absent, Int64, MinInt
<1>2. TypeOK /\ [Next]_vars => TypeOK'
  <2>1. TypeOK /\ UNCHANGED vars => TypeOK'
    BY DEF TypeOK, vars, history, observed
  <2>. QED
    BY <2>1, StartType, WritingType, ReadingType DEF Next
<1>. QED
  BY <1>1, <1>2, PTL DEF Spec

-----------------------------------------------------------------------------
(* The invariant.                                                          *)

\* Where a handler is fits its request, and it writes only under mu.
Shape(h) ==
  /\ pc[h] = "idle" <=> req[h] = NoRequest
  /\ pc[h] \in {"lock", "exec"} => Writes(req[h])
  /\ pc[h] = "get" => req[h].kind \in {"json", "batch", "value"}
  /\ pc[h] \in {"gauges", "counters", "render"} => req[h].kind = "list"
  /\ pc[h] = "exec" <=> mu = h

\* Updates that UpdateMetricsBatch or UpdateGaugeRaw make, which return errors.
Certain(r) == r.kind = "batch" \/ (Writes(r) /\ r.items[1].mtype = "gauge")

\* What became of the update fits where its handler is.
FateInv(h) ==
  /\ pc[h] = "lock" => fate[h] = "none"
  /\ pc[h] = "exec" => fate[h] # "done"
  /\ pc[h] = "get" /\ Certain(req[h]) => fate[h] # "none"

\* What a JSON update has stored is there until somebody else changes it.
Visible(h) ==
  req[h].kind = "json" /\ fate[h] # "none" /\ ~overtaken[h] => Found(req[h].items[1])

PInv == \A h \in Handlers : Shape(h) /\ FateInv(h) /\ Visible(h)

\* A single update has a metric with a value.
LEMMA SingleItem ==
  ASSUME TypeOK, NEW h \in Handlers, req[h].kind \in {"path", "json"}
  PROVE  /\ Len(req[h].items) = 1 /\ 1 \in DOMAIN req[h].items
         /\ req[h].items[1].val # Nil /\ req[h].items[1].mtype # "other"
<1>1. req[h] \in Requests
  BY DEF TypeOK, NoRequest
<1>2. Len(req[h].items) = 1 /\ req[h].items[1].val # Nil /\ req[h].items[1].mtype # "other"
  BY <1>1, PostgresAssumption DEF RequestOK
<1>3. req[h].items \in Seq(Items)
  BY ItemsType
<1>. QED
  BY <1>2, <1>3

\* What a step of h leaves of another handler, but for updates.
Apart(h) ==
  \A g \in Handlers \ {h} :
    /\ pc'[g] = pc[g] /\ req'[g] = req[g] /\ fate'[g] = fate[g]
    /\ mu' = g <=> mu = g

\* The table and what is known of others changes only when an update commits.
Quiet(h) ==
  table' = table /\ \A g \in Handlers \ {h} : overtaken'[g] = overtaken[g]

\* Either way the others' invariants stay.
LEMMA OthersKeep ==
  ASSUME TypeOK, PInv, NEW h \in Handlers, Apart(h),
         Quiet(h) \/ \E known \in BOOLEAN : Commit(h, known)
  PROVE  \A g \in Handlers \ {h} : Shape(g)' /\ FateInv(g)' /\ Visible(g)'
<1>. TAKE g \in Handlers \ {h}
<1>1. Shape(g)' /\ FateInv(g)'
  BY DEF PInv, Apart, Shape, FateInv
<1>2. CASE Quiet(h)
  <2>1. Visible(g)'
    BY <1>2 DEF PInv, Apart, Quiet, Visible, Found
  <2>. QED
    BY <1>1, <2>1
<1>3. ASSUME NEW known \in BOOLEAN, Commit(h, known)
      PROVE  Visible(g)'
  <2>. SUFFICES ASSUME req[g].kind = "json", fate[g] # "none", ~overtaken'[g]
                PROVE  Found(req[g].items[1])'
    BY DEF Apart, Visible
  <2>. DEFINE x == req[g].items[1]
  <2>1. 1 \in DOMAIN req[g].items /\ x \in Items
    <3>1. 1 \in DOMAIN req[g].items /\ req[g].items \in Seq(Items)
      BY SingleItem, ItemsType
    <3>. QED
      BY <3>1
  <2>2. ~overtaken[g] /\ x.id \notin Touched(req[h].items)
    BY <1>3, <2>1 DEF Commit
  <2>3. table'[x.id] = table[x.id]
    BY <1>3, <2>1, <2>2, ItemType DEF Commit, Updated
  <2>4. Found(x)
    BY <2>2 DEF PInv, Visible
  <2>5. req'[g].items[1] = x
    BY DEF Apart
  <2>. QED
    BY <2>3, <2>4, <2>5 DEF Found
<1>. QED
  BY <1>1, <1>2, <1>3

\* What a step of h has to keep of h itself, and say if it answers.
OwnKept(h) ==
  /\ Shape(h)' /\ FateInv(h)' /\ Visible(h)'
  /\ req[h] # NoRequest /\ req'[h] = NoRequest => Honest(h, req[h], answer'[h])

\* A read after the step finds the metric x.
Stored(x) ==
  /\ table'[x.id].mtype = x.mtype
  /\ x.mtype = "gauge" => table'[x.id].graw # Blank

\* What a database call leaves behind for the return of the storage method: it
\* touches nobody else's request, and a success is known.
CallDone(h, ok) ==
  /\ fate' \in [Handlers -> {"none", "lost", "done"}]
  /\ \A g \in Handlers \ {h} : fate'[g] = fate[g]
  /\ ok <=> fate'[h] = "done"
  /\ req[h].kind = "json" /\ fate'[h] # "none" /\ ~overtaken'[h]
       => Stored(req[h].items[1])

\* An answer leaves the handler idle.
LEMMA AnswerKeeps ==
  ASSUME TypeOK, PInv, NEW h \in Handlers, NEW status, Answer(h, status), mu' # h,
         Honest(h, req[h], status)
  PROVE  OwnKept(h) /\ \A g \in Handlers \ {h} : pc'[g] = pc[g] /\ req'[g] = req[g]
<1>1. pc'[h] = "idle" /\ req'[h] = NoRequest /\ answer'[h] = status
      /\ \A g \in Handlers \ {h} : pc'[g] = pc[g] /\ req'[g] = req[g]
  BY DEF TypeOK, Answer
<1>2. NoRequest.kind = "none"
  BY DEF NoRequest
<1>. QED
  BY <1>1, <1>2 DEF OwnKept, Shape, FateInv, Visible

\* A storage method returns: an error becomes status 400 if it is returned at
\* all, and a success is read back, or answered.
LEMMA ReturnKeeps ==
  ASSUME TypeOK, PInv, NEW h \in Handlers, NEW ok \in BOOLEAN,
         pc[h] = "exec", Return(h, ok), CallDone(h, ok)
  PROVE  OwnKept(h) /\ Apart(h)
<1>1. Writes(req[h]) /\ req[h] # NoRequest /\ mu = h /\ NoOne \notin Handlers
  BY PostgresAssumption DEF PInv, Shape
<1>2. mu' = NoOne
  BY DEF Return, Unlock
<1>3. CASE ~ok /\ ReturnsError(req[h])
  <2>1. Answer(h, "400") /\ Honest(h, req[h], "400")
    BY <1>3 DEF Return, Honest, CallDone
  <2>. QED
    BY <1>1, <1>2, <2>1, AnswerKeeps DEF Apart, CallDone
<1>4. CASE ~(~ok /\ ReturnsError(req[h])) /\ req[h].kind = "path"
  <2>1. Answer(h, "200") /\ Honest(h, req[h], "200")
    BY <1>4 DEF Return, Honest, CallDone, ReturnsError
  <2>. QED
    BY <1>1, <1>2, <2>1, AnswerKeeps DEF Apart, CallDone
<1>5. CASE ~(~ok /\ ReturnsError(req[h])) /\ req[h].kind # "path"
  <2>1. pc' = [pc EXCEPT ![h] = "get"] /\ req' = req
    BY <1>5 DEF Return
  <2>2. pc'[h] = "get" /\ \A g \in Handlers \ {h} : pc'[g] = pc[g]
    BY <2>1 DEF TypeOK
  <2>3. Shape(h)'
    BY <1>1, <1>2, <1>5, <2>1, <2>2 DEF Shape, Writes
  <2>4. FateInv(h)' /\ Visible(h)'
    BY <1>5, <2>1, <2>2 DEF FateInv, Visible, Certain, CallDone, ReturnsError, Stored, Found
  <2>. QED
    BY <1>1, <1>2, <2>1, <2>2, <2>3, <2>4 DEF OwnKept, Apart, CallDone
<1>. QED
  BY <1>3, <1>4, <1>5

\* An attempt fails: mu stays held for the next one, or the method returns.
LEMMA ErrorKeeps ==
  ASSUME TypeOK, PInv, NEW h \in Handlers, NEW e,
         pc[h] = "exec", ExecError(h, e), CallDone(h, FALSE)
  PROVE  OwnKept(h) /\ Apart(h)
<1>1. CASE Return(h, FALSE)
  BY <1>1, ReturnKeeps
<1>2. CASE UNCHANGED <<mu, pc, req>>
  BY <1>2 DEF PInv, OwnKept, Apart, CallDone, Shape, FateInv, Visible, Stored, Found
<1>. QED
  BY <1>1, <1>2 DEF ExecError

\* After an update took effect its metric is there.
LEMMA CommitFound ==
  ASSUME TypeOK, NEW h \in Handlers, NEW known \in BOOLEAN, Commit(h, known),
         req[h].kind = "json"
  PROVE  Stored(req[h].items[1])
<1>1. table \in [Ids -> Rows] /\ req[h].items \in Seq(Items)
  BY ItemsType, TypeParts DEF Rest
<1>. QED
  BY <1>1, SingleItem, UpdatedFound DEF Commit, Stored

\* An update that takes effect leaves what the return of the method needs.
LEMMA CommitDone ==
  ASSUME TypeOK, PInv, NEW h \in Handlers, NEW known \in BOOLEAN, Commit(h, known),
         Accepted(req[h].items)
  PROVE  CallDone(h, known)
<1>1. fate' \in [Handlers -> {"none", "lost", "done"}]
  BY CommitType
<1>2. fate' = [fate EXCEPT ![h] = IF known THEN "done" ELSE "lost"]
      /\ fate \in [Handlers -> {"none", "lost", "done"}]
  BY DEF Commit, TypeOK
<1>3. fate'[h] = (IF known THEN "done" ELSE "lost")
      /\ \A g \in Handlers \ {h} : fate'[g] = fate[g]
  BY <1>2
<1>4. req[h].kind = "json" => Stored(req[h].items[1])
  BY CommitFound
<1>. QED
  BY <1>1, <1>3, <1>4 DEF CallDone

\* A call that changed nothing does, too.
LEMMA NothingDone ==
  ASSUME TypeOK, PInv, NEW h \in Handlers, pc[h] = "exec",
         UNCHANGED <<table, observed>>
  PROVE  CallDone(h, FALSE) /\ Quiet(h)
BY DEF TypeOK, PInv, FateInv, Visible, Found, Stored, CallDone, Quiet, observed

\* What every step has to keep.
Kept(h) ==
  /\ OwnKept(h) /\ Apart(h)
  /\ Quiet(h) \/ \E known \in BOOLEAN : Commit(h, known)

\* Updates keep it.
LEMMA WritingKeeps ==
  ASSUME TypeOK, PInv, NEW h \in Handlers, Writing(h)
  PROVE  Kept(h)
<1>1. CASE LockStorage(h)
  <2>1. pc'[h] = "exec" /\ \A g \in Handlers \ {h} : pc'[g] = pc[g]
    BY <1>1 DEF LockStorage, TypeOK
  <2>2. NoOne \notin Handlers
    BY PostgresAssumption
  <2>3. /\ pc[h] = "lock" /\ mu = NoOne /\ mu' = h
        /\ UNCHANGED <<table, req, fate, overtaken>>
    BY <1>1 DEF LockStorage, history, observed
  <2>4. OwnKept(h)
    BY <2>1, <2>3 DEF PInv, OwnKept, Shape, FateInv, Visible, Found
  <2>. QED
    BY <2>1, <2>2, <2>3, <2>4 DEF Kept, Apart, Quiet
<1>2. CASE RejectBatch(h)
  <2>1. /\ pc[h] = "lock" /\ mu = NoOne /\ NoOne \notin Handlers
        /\ Answer(h, "400")
        /\ UNCHANGED <<table, mu, fate, overtaken>>
    BY <1>2, PostgresAssumption DEF RejectBatch, history, observed
  <2>2. Honest(h, req[h], "400")
    BY <2>1 DEF PInv, FateInv, Honest
  <2>3. OwnKept(h) /\ Apart(h)
    BY <2>1, <2>2, AnswerKeeps DEF Apart
  <2>. QED
    BY <2>1, <2>3 DEF Kept, Quiet
<1>3. CASE Exec(h)
  <2>1. pc[h] = "exec" /\ Accepted(req[h].items) /\ Commit(h, TRUE) /\ Return(h, TRUE)
    BY <1>3 DEF Exec
  <2>2. OwnKept(h) /\ Apart(h)
    BY <2>1, CommitDone, ReturnKeeps
  <2>. QED
    BY <2>1, <2>2 DEF Kept
<1>4. CASE ExecAnswerLost(h)
  <2>1. /\ pc[h] = "exec" /\ Accepted(req[h].items) /\ Commit(h, FALSE)
        /\ \E e \in {Reset, OtherError} : ExecError(h, e)
    BY <1>4 DEF ExecAnswerLost
  <2>2. OwnKept(h) /\ Apart(h)
    BY <2>1, CommitDone, ErrorKeeps
  <2>. QED
    BY <2>1, <2>2 DEF Kept
<1>5. ASSUME NEW e, pc[h] = "exec", ExecError(h, e), UNCHANGED <<table, observed>>
      PROVE  Kept(h)
  BY <1>5, NothingDone, ErrorKeeps DEF Kept
<1>. QED
  BY <1>1, <1>2, <1>3, <1>4, <1>5 DEF Writing, ExecRejected, ExecFails

\* An answer that leaves the table and everybody's fate alone keeps it if it is
\* honest.
LEMMA ReadAnswerKeeps ==
  ASSUME TypeOK, PInv, NEW h \in Handlers, NEW status, Answer(h, status),
         pc[h] # "exec", Honest(h, req[h], status),
         UNCHANGED <<table, mu, fate>>,
         \A g \in Handlers \ {h} : overtaken'[g] = overtaken[g]
  PROVE  Kept(h)
<1>1. mu' # h
  BY DEF PInv, Shape
<1>2. OwnKept(h) /\ \A g \in Handlers \ {h} : pc'[g] = pc[g] /\ req'[g] = req[g]
  BY <1>1, AnswerKeeps
<1>. QED
  BY <1>2 DEF Kept, Apart, Quiet

\* A step of a listing that goes on to its next query keeps it.
LEMMA ListKeeps ==
  ASSUME TypeOK, PInv, NEW h \in Handlers, NEW next \in {"counters", "render"},
         pc[h] \in {"gauges", "counters"}, pc' = [pc EXCEPT ![h] = next],
         UNCHANGED <<table, mu, req, fate, overtaken>>
  PROVE  Kept(h)
<1>1. pc'[h] = next /\ \A g \in Handlers \ {h} : pc'[g] = pc[g]
  BY DEF TypeOK
<1>2. Shape(h) /\ FateInv(h) /\ Visible(h) /\ req[h].kind = "list"
  BY DEF PInv, Shape
<1>3. Shape(h)'
  BY <1>1, <1>2 DEF Shape, Writes
<1>4. OwnKept(h)
  BY <1>1, <1>2, <1>3 DEF OwnKept, FateInv, Visible
<1>. QED
  BY <1>1, <1>4 DEF Kept, Apart, Quiet

\* Reads keep it: what a JSON update has stored is found, or was overtaken.
LEMMA ReadingKeeps ==
  ASSUME TypeOK, PInv, NEW h \in Handlers, Reading(h)
  PROVE  Kept(h)
<1>1. CASE GetOne(h)
  <2>1. /\ pc[h] = "get" /\ req[h].kind \in {"json", "value"}
        /\ UNCHANGED <<table, mu, fate>>
    BY <1>1 DEF GetOne
  <2>2. FateInv(h) /\ Visible(h) /\ (Certain(req[h]) => fate[h] # "none")
    BY <2>1 DEF PInv, FateInv
  <2>3. /\ NotFound[req[h].kind] \in {"404", "500"}
        /\ NotFound[req[h].kind] = "500" => req[h].kind = "json"
    BY <2>1 DEF NotFound
  <2>4. CASE /\ Answer(h, IF Found(req[h].items[1]) THEN "200" ELSE NotFound[req[h].kind])
             /\ UNCHANGED overtaken
    <3>1. CASE Found(req[h].items[1])
      <4>1. Honest(h, req[h], "200") /\ Answer(h, "200")
        BY <2>1, <2>2, <2>4, <3>1 DEF Honest, Certain
      <4>. QED
        BY <2>1, <2>4, <4>1, ReadAnswerKeeps
    <3>2. CASE ~Found(req[h].items[1])
      <4>1. Answer(h, NotFound[req[h].kind])
        BY <2>4, <3>2
      <4>2. Honest(h, req[h], NotFound[req[h].kind])
        BY <2>1, <2>2, <2>3, <2>4, <3>2 DEF Honest, Visible
      <4>. QED
        BY <2>1, <2>4, <4>1, <4>2, ReadAnswerKeeps
    <3>. QED
      BY <3>1, <3>2
  <2>5. CASE /\ overtaken' = [overtaken EXCEPT ![h] = TRUE]
             /\ Answer(h, NotFound[req[h].kind])
    <3>1. overtaken'[h] /\ \A g \in Handlers \ {h} : overtaken'[g] = overtaken[g]
      BY <2>5 DEF TypeOK
    <3>2. Honest(h, req[h], NotFound[req[h].kind])
      BY <2>3, <3>1 DEF Honest
    <3>. QED
      BY <2>1, <2>5, <3>1, <3>2, ReadAnswerKeeps
  <2>. QED
    BY <1>1, <2>4, <2>5 DEF GetOne
<1>2. CASE GetNext(h)
  <2>1. /\ pc[h] = "get" /\ req[h].kind = "batch"
        /\ UNCHANGED <<table, mu, fate, overtaken>>
    BY <1>2 DEF GetNext, history, observed
  <2>2. fate[h] # "none"
    BY <2>1 DEF PInv, FateInv, Certain
  <2>3. CASE UNCHANGED <<pc, req, answer>>
    <3>1. Shape(h)' /\ FateInv(h)' /\ Visible(h)' /\ OwnKept(h)
      BY <2>1, <2>3 DEF PInv, OwnKept, Shape, FateInv, Visible, Found
    <3>. QED
      BY <2>1, <2>3, <3>1 DEF Kept, Apart, Quiet
  <2>4. CASE Answer(h, "200")
    <3>1. Honest(h, req[h], "200")
      BY <2>1, <2>2 DEF Honest
    <3>. QED
      BY <2>1, <2>4, <3>1, ReadAnswerKeeps
  <2>. QED
    BY <1>2, <2>3, <2>4 DEF GetNext
<1>3. CASE GetAllGauges(h)
  BY <1>3, ListKeeps DEF GetAllGauges
<1>4. CASE GetAllCounters(h)
  BY <1>4, ListKeeps DEF GetAllCounters
<1>5. CASE Render(h)
  <2>1. /\ pc[h] = "render" /\ Answer(h, "200")
        /\ UNCHANGED <<table, mu, fate, overtaken>>
    BY <1>5 DEF Render
  <2>2. Honest(h, req[h], "200")
    BY <2>1 DEF PInv, Shape, Honest, Writes
  <2>. QED
    BY <2>1, <2>2, ReadAnswerKeeps
<1>. QED
  BY <1>1, <1>2, <1>3, <1>4, <1>5 DEF Reading

\* A new request keeps it.
LEMMA StartKeeps ==
  ASSUME TypeOK, PInv, NEW h \in Handlers, NEW r \in Requests, Start(h, r)
  PROVE  Kept(h)
<1>1. r.kind \in {"path", "json", "batch", "value", "list"} /\ r # NoRequest
  BY PostgresAssumption DEF RequestOK, NoRequest
<1>2. /\ pc'[h] = FirstStep[r.kind] /\ req'[h] = r /\ fate'[h] = "none"
      /\ \A g \in Handlers \ {h} :
           pc'[g] = pc[g] /\ req'[g] = req[g] /\ fate'[g] = fate[g]
  BY DEF Start, TypeOK
<1>3. pc[h] = "idle" /\ UNCHANGED <<table, mu>>
  BY DEF Start
<1>4. mu # h
  BY <1>3 DEF PInv, Shape
<1>5. \A g \in Handlers \ {h} : overtaken'[g] = overtaken[g]
  BY DEF Start, TypeOK
<1>6. Shape(h)'
  BY <1>1, <1>2, <1>3, <1>4 DEF Shape, FirstStep, Writes
<1>7. FateInv(h)'
  BY <1>1, <1>2 DEF FateInv, FirstStep, Certain, Writes
<1>8. OwnKept(h)
  BY <1>1, <1>2, <1>6, <1>7 DEF OwnKept, Visible
<1>. QED
  BY <1>2, <1>3, <1>5, <1>8 DEF Kept, Apart, Quiet

\* Every step of some handler keeps its own part of the invariant and the
\* others'.
LEMMA StepKeeps ==
  ASSUME TypeOK, PInv, Next
  PROVE  \E h \in Handlers : Kept(h)
BY StartKeeps, WritingKeeps, ReadingKeeps DEF Next

\* PInv is inductive.
LEMMA PInvKept ==
  ASSUME TypeOK, PInv, [Next]_vars
  PROVE  PInv'
<1>1. CASE Next
  <2>1. PICK h \in Handlers : Kept(h)
    BY <1>1, StepKeeps
  <2>2. \A g \in Handlers \ {h} : Shape(g)' /\ FateInv(g)' /\ Visible(g)'
    BY <2>1, OthersKeep DEF Kept
  <2>. QED
    BY <2>1, <2>2 DEF Kept, OwnKept, PInv
<1>2. CASE UNCHANGED vars
  BY <1>2 DEF vars, history, observed, PInv, Shape, FateInv, Visible, Found
<1>. QED
  BY <1>1, <1>2

\* A step that answers gives an honest answer.
LEMMA AnswerHonest ==
  ASSUME TypeOK, PInv, [Next]_vars
  PROVE  [\A h \in Handlers : req[h] # NoRequest /\ req'[h] = NoRequest
                                => Honest(h, req[h], answer'[h])]_vars
<1>1. CASE UNCHANGED vars
  BY <1>1
<1>2. CASE Next
  <2>1. PICK g \in Handlers : Kept(g)
    BY <1>2, StepKeeps
  <2>. QED
    BY <2>1 DEF Kept, OwnKept, Apart
<1>. QED
  BY <1>1, <1>2

\* The invariant of the proofs: where a handler is fits its request, its lock
\* and the fate of its update, and what a JSON update stored is still there
\* unless somebody changed it.
THEOREM PostgresInvariant == Spec => []PInv
<1>1. Init => PInv
  BY PostgresAssumption
     DEF Init, PInv, Shape, FateInv, Visible, NoRequest
<1>2. TypeOK /\ PInv /\ [Next]_vars => PInv'
  BY PInvKept
<1>. QED
  BY <1>1, <1>2, PostgresTypeCorrect, PTL DEF Spec

\* 200 to a gauge or a batch means that the update took effect, 400 that it is
\* not known to have, 500 that it did not or that the metric changed since.
THEOREM PostgresAnswersHonest == Spec => AnswersHonest
<1>1. TypeOK /\ PInv /\ [Next]_vars
        => [\A h \in Handlers : req[h] # NoRequest /\ req'[h] = NoRequest
                                  => Honest(h, req[h], answer'[h])]_vars
  BY AnswerHonest
<1>. QED
  BY <1>1, PostgresTypeCorrect, PostgresInvariant, PTL DEF Spec, AnswersHonest

-----------------------------------------------------------------------------
(* Listings.                                                               *)

\* A name whose row is not there has no type.
Present == \A i \in Ids : table[i].mtype = "absent" => table[i] = Absent

\* What a listing has to show is still a name of its type, and is collected or
\* comes with the counters.
Listing(h) ==
  /\ pc[h] = "gauges" => \A i \in mustList[h] : table[i].mtype # "absent"
  /\ pc[h] = "counters" =>
       \A i \in mustList[h] : i \in page[h] \/ table[i].mtype = "counter"
  /\ pc[h] = "render" => mustList[h] \subseteq page[h]

LInv == Present /\ \A h \in Handlers : Listing(h)

InListing == {"gauges", "counters", "render"}

\* What an update may leave of everybody's listing.
ListingsApart ==
  /\ page' = page
  /\ \A g \in Handlers : pc'[g] = pc[g] \/ pc'[g] \notin InListing

\* An answer ends no listing but its own.
LEMMA AnswerApart ==
  ASSUME TypeOK, NEW h \in Handlers, NEW status, Answer(h, status)
  PROVE  \A g \in Handlers : pc'[g] = pc[g] \/ pc'[g] \notin InListing
BY DEF TypeOK, Answer, InListing

\* Nor does the return of a storage method.
LEMMA ReturnApart ==
  ASSUME TypeOK, NEW h \in Handlers, NEW ok, Return(h, ok)
  PROVE  \A g \in Handlers : pc'[g] = pc[g] \/ pc'[g] \notin InListing
<1>1. CASE Answer(h, "400") \/ Answer(h, "200")
  BY <1>1, AnswerApart
<1>2. CASE pc' = [pc EXCEPT ![h] = "get"]
  BY <1>2 DEF TypeOK, InListing
<1>. QED
  BY <1>1, <1>2 DEF Return

\* Updates start no listing; those that take effect drop the names they flip.
LEMMA WritingApart ==
  ASSUME TypeOK, NEW h \in Handlers, Writing(h)
  PROVE  /\ ListingsApart
         /\ UNCHANGED <<table, mustList>> \/ \E known \in BOOLEAN : Commit(h, known)
<1>. USE DEF ListingsApart
<1>1. CASE LockStorage(h)
  BY <1>1 DEF LockStorage, TypeOK, InListing, history, observed
<1>2. CASE RejectBatch(h)
  BY <1>2, AnswerApart DEF RejectBatch, history, observed
<1>3. CASE Exec(h)
  BY <1>3, ReturnApart DEF Exec
<1>4. ASSUME NEW e, ExecError(h, e)
      PROVE  \A g \in Handlers : pc'[g] = pc[g] \/ pc'[g] \notin InListing
  BY <1>4, ReturnApart DEF ExecError
<1>5. CASE ExecRejected(h)
  BY <1>4, <1>5 DEF ExecRejected, observed
<1>6. CASE ExecAnswerLost(h)
  BY <1>4, <1>6 DEF ExecAnswerLost
<1>7. ASSUME NEW e, ExecFails(h, e)
      PROVE  ListingsApart /\ UNCHANGED <<table, mustList>>
  BY <1>4, <1>7 DEF ExecFails, observed
<1>. QED
  BY <1>1, <1>2, <1>3, <1>5, <1>6, <1>7 DEF Writing

\* No update removes a row.
LEMMA CommitPresent ==
  ASSUME TypeOK, Present, NEW h \in Handlers, NEW known, Commit(h, known)
  PROVE  Present'
<1>1. SUFFICES ASSUME NEW i \in Ids, table'[i].mtype = "absent"
               PROVE  table'[i] = table[i]
  BY DEF Present, Absent
<1>2. table' = Updated(req[h].items) /\ table[i] \in Rows
  BY TypeParts DEF Commit, Rest
<1>3. CASE i \in Touched(req[h].items)
  <2>1. table'[i] = Upsert(table[i], req[h].items, i)
    BY <1>2, <1>3 DEF Updated
  <2>. QED
    BY <1>1, <1>2, <2>1 DEF Upsert, Rows
<1>4. CASE i \notin Touched(req[h].items)
  BY <1>2, <1>4 DEF Updated
<1>. QED
  BY <1>3, <1>4

\* Updates keep the listings in progress right.
LEMMA WritingLists ==
  ASSUME TypeOK, LInv, NEW h \in Handlers, Writing(h)
  PROVE  LInv'
<1>1. CASE UNCHANGED <<table, mustList>>
  BY <1>1, WritingApart DEF LInv, Present, Listing, ListingsApart, InListing
<1>2. ASSUME NEW known \in BOOLEAN, Commit(h, known)
      PROVE  LInv'
  <2>1. Present'
    BY <1>2, CommitPresent DEF LInv
  <2>2. SUFFICES ASSUME NEW g \in Handlers, pc'[g] = pc[g] PROVE Listing(g)'
    BY <2>1, WritingApart DEF LInv, ListingsApart, Listing, InListing
  <2>3. \A i \in mustList'[g] : i \in mustList[g] /\ table'[i].mtype = table[i].mtype
    BY <1>2 DEF Commit
  <2>4. page' = page /\ Listing(g)
    BY WritingApart DEF LInv, ListingsApart
  <2>. QED
    BY <2>2, <2>3, <2>4 DEF Listing
<1>. QED
  BY <1>1, <1>2, WritingApart

\* A step of a reader disturbs no other listing.
LEMMA OneListing ==
  ASSUME TypeOK, LInv, NEW h \in Handlers, table' = table,
         \A g \in Handlers \ {h} :
           pc'[g] = pc[g] /\ page'[g] = page[g] /\ mustList'[g] = mustList[g],
         Listing(h)'
  PROVE  LInv'
BY DEF LInv, Present, Listing

\* A query adds the names of its type, or says by mustList which it missed.
LEMMA QueryLists ==
  ASSUME TypeOK, NEW h \in Handlers, NEW t, List(h, t)
  PROVE  /\ \A g \in Handlers \ {h} : page'[g] = page[g] /\ mustList'[g] = mustList[g]
         /\ page[h] \subseteq page'[h] /\ mustList'[h] \subseteq mustList[h]
         /\ \A i \in mustList'[h] : i \in Named(t) => i \in page'[h]
<1>1. /\ page \in [Handlers -> SUBSET Ids] /\ mustList \in [Handlers -> SUBSET Ids]
  BY DEF TypeOK
<1>2. CASE page' = [page EXCEPT ![h] = @ \cup Named(t)] /\ UNCHANGED mustList
  BY <1>1, <1>2
<1>3. ASSUME NEW read \in SUBSET Named(t), page' = [page EXCEPT ![h] = @ \cup read],
             mustList' = [mustList EXCEPT ![h] = @ \ (Named(t) \ read)]
      PROVE  /\ \A g \in Handlers \ {h} : page'[g] = page[g] /\ mustList'[g] = mustList[g]
             /\ page[h] \subseteq page'[h] /\ mustList'[h] \subseteq mustList[h]
             /\ \A i \in mustList'[h] : i \in Named(t) => i \in page'[h]
  BY <1>1, <1>3
<1>. QED
  BY <1>2, <1>3 DEF List

\* Reads keep the listings right: after the gauges a name is collected or a
\* counter, after the counters it is collected.
LEMMA ReadingLists ==
  ASSUME TypeOK, LInv, NEW h \in Handlers, Reading(h)
  PROVE  LInv'
<1>t. /\ mustList \in [Handlers -> SUBSET Ids] /\ table \in [Ids -> Rows]
      /\ pc \in [Handlers -> {"idle", "lock", "exec", "get", "gauges", "counters", "render"}]
  BY TypeParts DEF Rest, Control
<1>1. CASE GetOne(h)
  <2>1. UNCHANGED <<table, page, mustList>> /\ \E status : Answer(h, status)
    BY <1>1 DEF GetOne
  <2>. QED
    BY <2>1, AnswerApart DEF LInv, Present, Listing, InListing
<1>2. CASE GetNext(h)
  <2>1. /\ UNCHANGED <<table, page, mustList>>
        /\ UNCHANGED pc \/ Answer(h, "200")
    BY <1>2 DEF GetNext, history, observed
  <2>. QED
    BY <2>1, AnswerApart DEF LInv, Present, Listing, InListing
<1>3. CASE GetAllGauges(h)
  <2>1. /\ pc[h] = "gauges" /\ List(h, "gauge") /\ pc' = [pc EXCEPT ![h] = "counters"]
        /\ table' = table
    BY <1>3 DEF GetAllGauges
  <2>2. \A i \in mustList[h] : table[i].mtype # "absent"
    BY <2>1 DEF LInv, Listing
  <2>3. \A i \in mustList'[h] : i \in Named("gauge") \/ table[i].mtype = "counter"
    BY <2>1, <2>2, <1>t, QueryLists DEF Named, Rows
  <2>4. pc'[h] = "counters" /\ \A g \in Handlers \ {h} : pc'[g] = pc[g]
    BY <2>1, <1>t
  <2>5. Listing(h)'
    BY <2>1, <2>3, <2>4, QueryLists DEF Listing
  <2>. QED
    BY <2>1, <2>4, <2>5, OneListing, QueryLists
<1>4. CASE GetAllCounters(h)
  <2>1. /\ pc[h] = "counters" /\ List(h, "counter") /\ pc' = [pc EXCEPT ![h] = "render"]
        /\ table' = table
    BY <1>4 DEF GetAllCounters
  <2>2. \A i \in mustList'[h] : i \in page[h] \/ i \in Named("counter")
    BY <2>1, <1>t, QueryLists DEF LInv, Listing, Named
  <2>3. mustList'[h] \subseteq page'[h]
    BY <2>1, <2>2, QueryLists
  <2>4. pc'[h] = "render" /\ \A g \in Handlers \ {h} : pc'[g] = pc[g]
    BY <2>1, <1>t
  <2>5. Listing(h)'
    BY <2>3, <2>4 DEF Listing
  <2>. QED
    BY <2>1, <2>4, <2>5, OneListing, QueryLists
<1>5. CASE Render(h)
  <2>1. /\ pc' = [pc EXCEPT ![h] = "idle"] /\ page' = [page EXCEPT ![h] = {}]
        /\ mustList' = [mustList EXCEPT ![h] = {}] /\ table' = table
    BY <1>5 DEF Render, Answer
  <2>2. /\ pc'[h] = "idle"
        /\ \A g \in Handlers \ {h} :
             pc'[g] = pc[g] /\ page'[g] = page[g] /\ mustList'[g] = mustList[g]
    BY <2>1 DEF TypeOK
  <2>. QED
    BY <2>1, <2>2, OneListing DEF Listing
<1>. QED
  BY <1>1, <1>2, <1>3, <1>4, <1>5 DEF Reading

\* A new listing has to show the names that have a row.
LEMMA StartLists ==
  ASSUME TypeOK, LInv, NEW h \in Handlers, NEW r \in Requests, Start(h, r)
  PROVE  LInv'
<1>1. /\ UNCHANGED <<table, page>>
      /\ pc'[h] = FirstStep[r.kind] /\ \A g \in Handlers \ {h} : pc'[g] = pc[g]
      /\ mustList'[h] = IF r.kind = "list" THEN {i \in Ids : table[i] # Absent} ELSE {}
      /\ \A g \in Handlers \ {h} : mustList'[g] = mustList[g]
  BY DEF Start, TypeOK
<1>2. FirstStep[r.kind] \in {"lock", "get", "gauges"}
  BY PostgresAssumption DEF RequestOK, FirstStep
<1>3. Listing(h)'
  BY <1>1, <1>2 DEF LInv, Present, Listing
<1>. QED
  BY <1>1, <1>3, OneListing

\* The page of all metrics shows every name that was there when it began, but
\* for names that changed their type since and those a failed query left out.
THEOREM PostgresListsAll == Spec => []ListedUnlessFlipped
<1>1. Init => LInv
  BY DEF Init, LInv, Present, Listing, Absent
<1>2. TypeOK /\ LInv /\ [Next]_vars => LInv'
  <2>1. LInv /\ UNCHANGED vars => LInv'
    BY DEF vars, history, observed, LInv, Present, Listing
  <2>. QED
    BY <2>1, StartLists, WritingLists, ReadingLists DEF Next
<1>3. LInv => ListedUnlessFlipped
  BY DEF LInv, Listing, ListedUnlessFlipped
<1>. QED
  BY <1>1, <1>2, <1>3, PostgresTypeCorrect, PTL DEF Spec

-----------------------------------------------------------------------------
(* Counters.                                                               *)

LEMMA WrapIsWrapped ==
  /\ MaxInt \in Nat /\ Int64 = Places(MaxInt)
  /\ \A a \in Int : Wrap(a) = Wrapped(MaxInt, a)
<1>1. MaxInt \in Nat /\ MinInt = -MaxInt - 1 /\ MinInt \in Int
  BY PostgresAssumption DEF MinInt
<1>2. ASSUME NEW a \in Int
      PROVE  Wrap(a) = Wrapped(MaxInt, a)
  <2>1. a - MinInt = a + MaxInt + 1
    BY <1>1
  <2>2. PICK r \in Int : r = (a + MaxInt + 1) % (2 * MaxInt + 2)
    BY <1>1
  <2>3. r + MinInt = r - MaxInt - 1
    BY <1>1
  <2>. QED
    BY <2>1, <2>2, <2>3 DEF Wrap, Wrapped, Modulus
<1>. QED
  BY <1>1, <1>2 DEF Int64, Places

\* What clients mean: the sum of the deltas.
LEMMA MeantSums ==
  ASSUME NEW items \in Seq(Items), NEW i
  PROVE  /\ \A k \in 1..Len(items) : DeltaOf(items[k], i) \in Int
         /\ UpTo(MeantUpTo(items, i), [k \in 1..Len(items) |-> DeltaOf(items[k], i)], Len(items))
<1>. DEFINE L == Len(items)
            d == [k \in 1..L |-> DeltaOf(items[k], i)]
            Rec(f) == [k \in 0..L |-> IF k = 0 THEN 0 ELSE f[k - 1] + DeltaOf(items[k], i)]
            sum == MeantUpTo(items, i)
<1>1. L \in Nat
  OBVIOUS
<1>2. ASSUME NEW k \in 1..L
      PROVE  DeltaOf(items[k], i) \in Int
  <2>1. items[k] \in Items
    OBVIOUS
  <2>2. items[k].mtype = "counter" => items[k].val \in Int64 \cup {Nil}
    BY <2>1 DEF Items, Types
  <2>3. \A n \in Int64 : n \in Int
    BY WrapIsWrapped DEF Places
  <2>. QED
    BY <2>2, <2>3 DEF DeltaOf
<1>3. sum = CHOOSE f : f = Rec(f)
  BY DEF MeantUpTo
<1>4. PICK f : UpTo(f, d, L)
  <2>1. \A k \in 1..L : d[k] \in Int
    BY <1>2
  <2>. HIDE DEF d, L
  <2>. QED
    BY <1>1, <2>1, UpToExists
<1>5. f = Rec(f)
  <2>1. f \in [0..L -> Int] /\ f[0] = 0 /\ \A k \in 1..L : f[k] = f[k - 1] + d[k]
    BY <1>4 DEF UpTo
  <2>2. \A k \in 0..L : f[k] = Rec(f)[k]
    <3>. TAKE k \in 0..L
    <3>1. CASE k = 0
      BY <2>1, <3>1
    <3>2. CASE k # 0
      <4>1. k \in 1..L
        BY <1>1, <3>2
      <4>. QED
        BY <2>1, <3>2, <4>1
    <3>. QED
      BY <3>1, <3>2
  <2>. QED
    BY <2>1, <2>2
<1>6. sum = Rec(sum)
  <2>. HIDE DEF sum
  <2>. QED
    BY <1>3, <1>5
<1>7. \A k \in 1..L : sum[k] = sum[k - 1] + d[k]
  <2>. TAKE k \in 1..L
  <2>1. k \in 0..L /\ k # 0
    BY <1>1
  <2>. HIDE DEF sum
  <2>. QED
    BY <1>6, <2>1
<1>8. sum[0] = 0
  <2>1. 0 \in 0..L
    BY <1>1
  <2>. HIDE DEF sum
  <2>. QED
    BY <1>6, <2>1
<1>9. \A k \in 0..L : sum[k] \in Int
  <2>. DEFINE Bad == {k \in 0..L : sum[k] \notin Int}
  <2>1. SUFFICES ASSUME Bad # {}
                 PROVE  FALSE
    OBVIOUS
  <2>2. PICK k \in Bad : \A u \in Bad : k <= u
    <3>1. Bad \in SUBSET Nat
      BY <1>1
    <3>. HIDE DEF Bad
    <3>. QED
      BY <2>1, <3>1, Least
  <2>3. k # 0 /\ k \in 0..L
    BY <1>8
  <2>4. k \in 1..L /\ k - 1 \in 0..L /\ ~(k <= k - 1)
    BY <1>1, <2>3
  <2>5. sum[k - 1] \in Int
    BY <2>2, <2>4
  <2>6. sum[k] \in Int
    BY <1>2, <1>7, <2>4, <2>5
  <2>. QED
    BY <2>2, <2>6
<1>10. sum \in [0..L -> Int]
  <2>1. sum = [k \in 0..L |-> sum[k]]
    <3>. HIDE DEF sum
    <3>. QED
      BY <1>6
  <2>. HIDE DEF sum
  <2>. QED
    BY <1>9, <2>1
<1>. QED
  BY <1>2, <1>7, <1>8, <1>10 DEF UpTo

\* What the batch makes of them, overflow included.
LEMMA DeltasWrap ==
  ASSUME NEW items \in Seq(Items), NEW i
  PROVE  \A k \in 0..Len(items) : Deltas(items, i)[k] = Wrap(MeantUpTo(items, i)[k])
<1>. DEFINE L == Len(items)
            Rec(f) == [k \in 0..L |-> IF k = 0 THEN 0 ELSE Wrap(f[k - 1] + DeltaOf(items[k], i))]
            meant == MeantUpTo(items, i)
            w == [k \in 0..L |-> Wrap(meant[k])]
            sum == Deltas(items, i)
<1>1. L \in Nat
  OBVIOUS
<1>2. /\ \A k \in 1..L : DeltaOf(items[k], i) \in Int
      /\ meant \in [0..L -> Int] /\ meant[0] = 0
      /\ \A k \in 1..L : meant[k] = meant[k - 1] + DeltaOf(items[k], i)
  BY MeantSums DEF UpTo
<1>3. sum = CHOOSE f : f = Rec(f)
  BY DEF Deltas
<1>4. Wrap(0) = 0
  <2>1. 0 \in Places(MaxInt)
    BY WrapIsWrapped DEF Places
  <2>. QED
    BY <2>1, WrapIsWrapped, WrappedSame
<1>5. ASSUME NEW k \in 1..L
      PROVE  w[k] = Wrap(w[k - 1] + DeltaOf(items[k], i))
  <2>1. k \in 0..L /\ k - 1 \in 0..L
    BY <1>1
  <2>2. PICK a \in Int, d \in Int : a = meant[k - 1] /\ d = DeltaOf(items[k], i)
    BY <1>2, <2>1
  <2>3. w[k] = Wrap(a + d) /\ w[k - 1] = Wrap(a)
    BY <1>2, <2>1, <2>2
  <2>4. PICK u \in Int : u = Wrapped(MaxInt, a)
    <3>1. Wrapped(MaxInt, a) \in Places(MaxInt) /\ MaxInt \in Nat
      BY WrapIsWrapped, WrappedPlace
    <3>. QED
      BY <3>1 DEF Places
  <2>5. Wrapped(MaxInt, u + d) = Wrapped(MaxInt, a + d)
    BY <2>4, WrapIsWrapped, WrappedSum
  <2>6. Wrap(Wrap(a) + d) = Wrap(a + d)
    <3>1. u + d \in Int /\ a + d \in Int
      OBVIOUS
    <3>. QED
      BY <2>4, <2>5, <3>1, WrapIsWrapped
  <2>. QED
    BY <2>2, <2>3, <2>6
<1>6. w = Rec(w)
  <2>1. w[0] = 0
    BY <1>1, <1>2, <1>4
  <2>2. \A k \in 0..L : w[k] = Rec(w)[k]
    <3>. TAKE k \in 0..L
    <3>1. CASE k = 0
      BY <2>1, <3>1
    <3>2. CASE k # 0
      <4>1. k \in 1..L
        BY <1>1, <3>2
      <4>. HIDE DEF w
      <4>. QED
        BY <1>5, <3>2, <4>1
    <3>. QED
      BY <3>1, <3>2
  <2>. QED
    BY <2>2
<1>7. sum = Rec(sum)
  <2>. HIDE DEF sum, w
  <2>. QED
    BY <1>3, <1>6
<1>8. ASSUME NEW k \in 0..L, sum[k] # w[k]
      PROVE  FALSE
  <2>. DEFINE Bad == {j \in 0..L : sum[j] # w[j]}
  <2>1. PICK j \in Bad : \A u \in Bad : j <= u
    <3>1. Bad \in SUBSET Nat /\ Bad # {}
      BY <1>1, <1>8
    <3>. HIDE DEF Bad
    <3>. QED
      BY <3>1, Least
  <2>2. j \in 0..L /\ sum[j] # w[j]
    BY <2>1
  <2>. HIDE DEF sum, w
  <2>3. j # 0
    BY <1>6, <1>7, <2>2
  <2>4. j \in 1..L /\ j - 1 \in 0..L /\ ~(j <= j - 1)
    BY <1>1, <2>2, <2>3
  <2>5. sum[j - 1] = w[j - 1]
    BY <2>1, <2>4
  <2>6. /\ sum[j] = Wrap(sum[j - 1] + DeltaOf(items[j], i))
        /\ w[j] = Wrap(w[j - 1] + DeltaOf(items[j], i))
    BY <1>6, <1>7, <2>2, <2>3
  <2>. QED
    BY <2>2, <2>5, <2>6
<1>. QED
  BY <1>8

\* Deltas that are not negative, as the agent's are.
NonNegative ==
  \A r \in Requests : \A k \in DOMAIN r.items :
    r.items[k].mtype = "counter" /\ r.items[k].val # Nil => r.items[k].val >= 0

\* No request's deltas sum up to more than an int64 holds.
Fitting == \A r \in Requests, i \in Ids : Meant(r.items, i) <= MaxInt

LEMMA RequestItems ==
  ASSUME NEW r \in Requests \cup {NoRequest}
  PROVE  r.items \in Seq(Items)
<1>1. CASE r \in Requests
  BY <1>1, PostgresAssumption DEF RequestOK
<1>2. CASE r = NoRequest
  BY <1>2 DEF NoRequest
<1>. QED
  BY <1>1, <1>2

\* A request adds at most what it means, and just that if it fits; a name that
\* it does not count it adds nothing to.
LEMMA DeltaMeant ==
  ASSUME NEW r \in Requests, NEW i \in Ids
  PROVE  /\ Meant(r.items, i) \in Int /\ Delta(r.items, i) \in Int
         /\ ~Touches(r.items, i, "counter") => Meant(r.items, i) = 0
         /\ NonNegative => /\ Meant(r.items, i) \in Nat
                           /\ Delta(r.items, i) <= Meant(r.items, i)
         /\ NonNegative /\ Fitting => Delta(r.items, i) = Meant(r.items, i)
<1>. DEFINE items == r.items
            L == Len(items)
            d == [k \in 1..L |-> DeltaOf(items[k], i)]
            f == MeantUpTo(items, i)
<1>1. items \in Seq(Items) /\ L \in Nat /\ DOMAIN items = 1..L
  BY RequestItems
<1>2. UpTo(f, d, L) /\ \A k \in 1..L : DeltaOf(items[k], i) \in Int
  BY <1>1, MeantSums
<1>3. L \in 0..L
  BY <1>1
<1>4. Meant(items, i) = f[L] /\ f[L] \in Int
  BY <1>2, <1>3 DEF Meant, UpTo
<1>5. Delta(items, i) = Wrap(f[L])
  BY <1>1, <1>3, DeltasWrap DEF Delta
<1>6. MaxInt \in Nat /\ Wrap(f[L]) = Wrapped(MaxInt, f[L])
  BY <1>4, WrapIsWrapped
<1>7. Wrap(f[L]) \in Int
  <2>1. Wrapped(MaxInt, f[L]) \in Places(MaxInt)
    BY <1>4, <1>6, WrappedPlace
  <2>. QED
    BY <1>6, <2>1 DEF Places
<1>8. ASSUME ~Touches(items, i, "counter")
      PROVE  f[L] = 0
  <2>1. \A k \in 1..L : d[k] = 0
    BY <1>1, <1>8 DEF Touches, DeltaOf
  <2>. HIDE DEF d, f, L
  <2>. QED
    BY <1>1, <1>2, <1>3, <2>1, UpToSign
<1>9. ASSUME NonNegative
      PROVE  f[L] \in Nat
  <2>1. ASSUME NEW k \in 1..L
        PROVE  DeltaOf(items[k], i) \in Nat
    <3>1. CASE items[k].mtype = "counter" /\ items[k].val # Nil
      <4>1. items[k].val >= 0
        BY <1>1, <1>9, <3>1 DEF NonNegative
      <4>2. DeltaOf(items[k], i) = items[k].val \/ DeltaOf(items[k], i) = 0
        BY DEF DeltaOf
      <4>3. DeltaOf(items[k], i) \in Int
        BY <1>2
      <4>. QED
        BY <4>1, <4>2, <4>3
    <3>2. CASE ~(items[k].mtype = "counter" /\ items[k].val # Nil)
      <4>1. DeltaOf(items[k], i) = 0
        BY <3>2 DEF DeltaOf
      <4>. QED
        BY <4>1
    <3>. QED
      BY <3>1, <3>2
  <2>2. \A k \in 1..L : d[k] \in Nat
    BY <2>1
  <2>. HIDE DEF d, f, L
  <2>. QED
    BY <1>1, <1>2, <1>3, <2>2, UpToSign
<1>10. ASSUME NonNegative
       PROVE  Wrap(f[L]) <= f[L]
  <2>1. f[L] \in Int /\ f[L] >= -MaxInt - 1
    BY <1>6, <1>9, <1>10
  <2>. HIDE DEF f, L
  <2>. QED
    BY <1>6, <2>1, WrappedAtMost
<1>11. ASSUME NonNegative, Fitting
       PROVE  Wrap(f[L]) = f[L]
  <2>1. f[L] <= MaxInt
    BY <1>4, <1>11 DEF Fitting
  <2>2. f[L] \in Places(MaxInt)
    BY <1>6, <1>9, <1>11, <2>1 DEF Places
  <2>. HIDE DEF f, L
  <2>. QED
    BY <1>6, <2>2, WrappedSame
<1>. QED
  BY <1>4, <1>5, <1>7, <1>8, <1>9, <1>10, <1>11

\* So does an update that takes effect.
LEMMA CommitCounts ==
  ASSUME TypeOK, NEW h \in Handlers, NEW known, Commit(h, known),
         req[h] \in Requests, NEW i \in Ids
  PROVE  /\ NonNegative => /\ table'[i].ivalue <= table[i].ivalue + Meant(req[h].items, i)
                           /\ Fitting => table'[i].ivalue = table[i].ivalue + Meant(req[h].items, i)
<1>. DEFINE items == req[h].items
<1>1. PICK r \in Requests : r = req[h]
  OBVIOUS
<1>2. table[i] \in Rows /\ table[i].ivalue \in Int
  <2>1. table[i] \in Rows
    BY TypeParts DEF Rest
  <2>2. \A n \in Int64 : n \in Int
    BY WrapIsWrapped DEF Places
  <2>. QED
    BY <2>1, <2>2 DEF Rows
<1>3. /\ Meant(items, i) \in Int /\ Delta(items, i) \in Int
      /\ ~Touches(items, i, "counter") => Meant(items, i) = 0
      /\ NonNegative => Delta(items, i) <= Meant(items, i)
      /\ NonNegative /\ Fitting => Delta(items, i) = Meant(items, i)
  BY <1>1, DeltaMeant
<1>4. table'[i] = IF i \in Touched(items) THEN Upsert(table[i], items, i) ELSE table[i]
  BY DEF Commit, Updated
<1>5. CASE Touches(items, i, "counter")
  <2>1. table'[i] = [table[i] EXCEPT !.mtype = "counter", !.ivalue = @ + Delta(items, i)]
    BY <1>4, <1>5 DEF Touched, Upsert
  <2>2. table'[i].ivalue = table[i].ivalue + Delta(items, i)
    BY <1>2, <2>1 DEF Rows
  <2>. QED
    BY <1>2, <1>3, <2>2
<1>6. CASE ~Touches(items, i, "counter")
  <2>1. table'[i].ivalue = table[i].ivalue
    BY <1>2, <1>4, <1>6 DEF Upsert, Rows
  <2>. QED
    BY <1>2, <1>3, <1>6, <2>1
<1>. QED
  BY <1>5, <1>6

-----------------------------------------------------------------------------
(* What the steps do to the sums.                                          *)

Tallied == asked \in [Ids -> Int] /\ promised \in [Ids -> Int] /\ lost \in [Ids -> Int]

Waiting(h) == pc[h] \in {"lock", "exec"}

\* Nothing is counted, and h at most stops waiting to write.
Uncounted(h) ==
  /\ UNCHANGED <<table, asked, promised, lost>>
  /\ ~Waiting(h)' \/ (Waiting(h) /\ req'[h] = req[h])

\* The update of h counts, and is known to.
Counted(h) ==
  /\ Waiting(h) /\ ~Waiting(h)' /\ Commit(h, TRUE)
  /\ promised' = Add(promised, req[h]) /\ UNCHANGED <<asked, lost>>

\* It counts, but its answer is lost.
Forgotten(h) ==
  /\ Waiting(h) /\ Commit(h, FALSE)
  /\ lost' = Add(lost, req[h]) /\ UNCHANGED <<asked, promised>>
  /\ ~Waiting(h)' \/ req'[h] = req[h]

\* A request comes.
Asked(h) ==
  /\ UNCHANGED <<table, promised, lost>> /\ ~Waiting(h)
  /\ req'[h] \in Requests /\ asked' = Add(asked, req'[h])
  /\ Waiting(h)' => Writes(req'[h])

LEMMA ReturnCounts ==
  ASSUME TypeOK, NEW h \in Handlers, NEW ok, Return(h, ok)
  PROVE  /\ ~Waiting(h)'
         /\ promised' = IF ok THEN Add(promised, req[h]) ELSE promised
<1>1. pc'[h] \in {"idle", "get"}
  BY DEF Return, Answer, TypeOK
<1>. QED
  BY <1>1 DEF Return, Waiting

LEMMA ErrorCounts ==
  ASSUME TypeOK, NEW h \in Handlers, pc[h] = "exec", NEW e, ExecError(h, e)
  PROVE  /\ ~Waiting(h)' \/ (Waiting(h) /\ req'[h] = req[h])
         /\ promised' = promised
BY ReturnCounts DEF ExecError, Waiting

LEMMA StepCounts ==
  ASSUME TypeOK, PInv, Next
  PROVE  \E h \in Handlers : Apart(h) /\ (Uncounted(h) \/ Counted(h) \/ Forgotten(h) \/ Asked(h))
<1>1. ASSUME NEW h \in Handlers, Writing(h)
      PROVE  Apart(h) /\ (Uncounted(h) \/ Counted(h) \/ Forgotten(h))
  <2>1. Apart(h)
    BY <1>1, WritingKeeps DEF Kept
  <2>2. CASE LockStorage(h)
    <3>1. pc[h] = "lock" /\ pc'[h] = "exec" /\ req' = req
      BY <2>2 DEF LockStorage, TypeOK
    <3>2. UNCHANGED <<table, asked, promised, lost>>
      BY <2>2 DEF LockStorage, history
    <3>. QED
      BY <2>1, <3>1, <3>2 DEF Uncounted, Waiting
  <2>3. CASE RejectBatch(h)
    <3>1. pc'[h] = "idle"
      BY <2>3 DEF RejectBatch, Answer, TypeOK
    <3>2. UNCHANGED <<table, asked, promised, lost>>
      BY <2>3 DEF RejectBatch, history
    <3>. QED
      BY <2>1, <3>1, <3>2 DEF Uncounted, Waiting
  <2>4. CASE Exec(h)
    <3>1. pc[h] = "exec" /\ Commit(h, TRUE) /\ Return(h, TRUE) /\ UNCHANGED <<asked, lost>>
      BY <2>4 DEF Exec
    <3>2. ~Waiting(h)' /\ promised' = Add(promised, req[h])
      BY <3>1, ReturnCounts
    <3>. QED
      BY <2>1, <3>1, <3>2 DEF Counted, Waiting
  <2>5. CASE ExecRejected(h)
    <3>1. /\ pc[h] = "exec" /\ ExecError(h, OtherError)
          /\ UNCHANGED <<table, asked, lost>>
      BY <2>5 DEF ExecRejected
    <3>. QED
      BY <2>1, <3>1, ErrorCounts DEF Uncounted
  <2>6. CASE ExecAnswerLost(h)
    <3>1. PICK e : ExecError(h, e)
      BY <2>6 DEF ExecAnswerLost
    <3>2. pc[h] = "exec" /\ Commit(h, FALSE) /\ lost' = Add(lost, req[h]) /\ UNCHANGED asked
      BY <2>6 DEF ExecAnswerLost
    <3>3. promised' = promised /\ (~Waiting(h)' \/ req'[h] = req[h])
      BY <3>1, <3>2, ErrorCounts
    <3>. QED
      BY <2>1, <3>2, <3>3 DEF Forgotten, Waiting
  <2>7. ASSUME NEW e, ExecFails(h, e)
        PROVE  Uncounted(h)
    <3>1. /\ pc[h] = "exec" /\ ExecError(h, e)
          /\ UNCHANGED <<table, asked, lost>>
      BY <2>7 DEF ExecFails
    <3>. QED
      BY <3>1, ErrorCounts DEF Uncounted
  <2>. QED
    BY <1>1, <2>1, <2>2, <2>3, <2>4, <2>5, <2>6, <2>7 DEF Writing
<1>2. ASSUME NEW h \in Handlers, Reading(h)
      PROVE  Apart(h) /\ Uncounted(h)
  <2>1. Apart(h)
    BY <1>2, ReadingKeeps DEF Kept
  <2>2. UNCHANGED <<table, asked, promised, lost>>
    BY <1>2 DEF Reading, GetOne, GetNext, GetAllGauges, GetAllCounters, Render, history
  <2>3. pc'[h] \in {"idle", "get", "counters", "render"}
    BY <1>2 DEF Reading, GetOne, GetNext, GetAllGauges, GetAllCounters, Render, Answer, TypeOK
  <2>. QED
    BY <2>1, <2>2, <2>3 DEF Uncounted, Waiting
<1>3. ASSUME NEW h \in Handlers, NEW r \in Requests, Start(h, r)
      PROVE  Apart(h) /\ Asked(h)
  <2>1. Apart(h)
    BY <1>3, StartKeeps DEF Kept
  <2>2. /\ req'[h] = r /\ pc'[h] = FirstStep[r.kind] /\ pc[h] = "idle"
        /\ asked' = Add(asked, r) /\ UNCHANGED <<table, promised, lost>>
    BY <1>3 DEF Start, TypeOK
  <2>3. r.kind \in {"path", "json", "batch", "value", "list"}
    BY PostgresAssumption DEF RequestOK
  <2>4. FirstStep[r.kind] \in {"lock", "exec"} => Writes(r)
    BY <2>3 DEF FirstStep, Writes
  <2>. QED
    BY <2>1, <2>2, <2>4 DEF Asked, Waiting
<1>. QED
  BY <1>1, <1>2, <1>3 DEF Next

\* The sums are of integers.
LEMMA AddTally ==
  ASSUME NEW sums \in [Ids -> Int], NEW r \in Requests
  PROVE  /\ Add(sums, r) \in [Ids -> Int]
         /\ \A i \in Ids : Add(sums, r)[i] = IF Writes(r) THEN sums[i] + Meant(r.items, i) ELSE sums[i]
<1>1. \A i \in Ids : Meant(r.items, i) \in Int
  BY DeltaMeant
<1>. QED
  BY <1>1 DEF Add

\* A handler that waits to write has a request.
LEMMA WaitingWrites ==
  ASSUME TypeOK, PInv, NEW h \in Handlers, Waiting(h)
  PROVE  req[h] \in Requests /\ Writes(req[h])
<1>1. Writes(req[h])
  BY DEF PInv, Shape, Waiting
<1>. QED
  BY <1>1 DEF TypeOK, NoRequest, Writes

LEMMA TalliesKept ==
  ASSUME TypeOK, PInv, Tallied, [Next]_vars
  PROVE  Tallied'
<1>1. CASE UNCHANGED vars
  BY <1>1 DEF vars, history, Tallied
<1>2. CASE Next
  <2>1. PICK h \in Handlers : Uncounted(h) \/ Counted(h) \/ Forgotten(h) \/ Asked(h)
    BY <1>2, StepCounts
  <2>2. CASE Uncounted(h)
    BY <2>2 DEF Uncounted, Tallied
  <2>3. CASE Forgotten(h)
    BY <2>3, WaitingWrites, AddTally DEF Forgotten, Tallied
  <2>4. CASE Counted(h)
    BY <2>4, WaitingWrites, AddTally DEF Counted, Tallied
  <2>5. CASE Asked(h)
    BY <2>5, AddTally DEF Asked, Tallied
  <2>. QED
    BY <2>1, <2>2, <2>3, <2>4, <2>5
<1>. QED
  BY <1>1, <1>2

\* The column that counters are kept in.
LEMMA CounterType ==
  ASSUME TypeOK, NEW i \in Ids
  PROVE  table[i].ivalue \in Int
<1>1. table[i] \in Rows
  BY TypeParts DEF Rest
<1>2. \A n \in Int64 : n \in Int
  BY WrapIsWrapped DEF Places
<1>. QED
  BY <1>1, <1>2 DEF Rows

LEMMA CounterNext ==
  ASSUME TypeOK', NEW i \in Ids
  PROVE  table'[i].ivalue \in Int
<1>1. table'[i] \in Rows
  BY TypeParts DEF Rest
<1>2. \A n \in Int64 : n \in Int
  BY WrapIsWrapped DEF Places
<1>. QED
  BY <1>1, <1>2 DEF Rows

-----------------------------------------------------------------------------
(* The deltas of updates that succeeded stay.                              *)

LEMMA LossKept ==
  ASSUME TypeOK, TypeOK', PInv, NonNegative, Fitting, Tallied, NothingLost, [Next]_vars
  PROVE  NothingLost'
<1>1. CASE UNCHANGED vars
  BY <1>1 DEF vars, history, NothingLost
<1>2. CASE Next
  <2>1. PICK h \in Handlers : Uncounted(h) \/ Counted(h) \/ Forgotten(h) \/ Asked(h)
    BY <1>2, StepCounts
  <2>2. SUFFICES ASSUME NEW i \in Ids
                 PROVE  promised'[i] <= table'[i].ivalue
    BY DEF NothingLost
  <2>3. /\ promised[i] <= table[i].ivalue
        /\ promised[i] \in Int /\ table[i].ivalue \in Int
    BY CounterType DEF NothingLost, Tallied
  <2>4. CASE Uncounted(h) \/ Asked(h)
    BY <2>3, <2>4 DEF Uncounted, Asked
  <2>5. ASSUME NEW known, Commit(h, known), Waiting(h)
        PROVE  /\ req[h] \in Requests /\ Writes(req[h])
               /\ Meant(req[h].items, i) \in Nat
               /\ table'[i].ivalue = table[i].ivalue + Meant(req[h].items, i)
    <3>1. req[h] \in Requests /\ Writes(req[h])
      BY <2>5, WaitingWrites
    <3>. QED
      BY <2>5, <3>1, CommitCounts, DeltaMeant
  <2>6. CASE Counted(h)
    <3>1. /\ Writes(req[h]) /\ req[h] \in Requests /\ Meant(req[h].items, i) \in Nat
          /\ table'[i].ivalue = table[i].ivalue + Meant(req[h].items, i)
      BY <2>5, <2>6 DEF Counted
    <3>2. promised'[i] = promised[i] + Meant(req[h].items, i)
      BY <2>6, <3>1, AddTally DEF Counted, Tallied
    <3>. QED
      BY <2>3, <3>1, <3>2
  <2>7. CASE Forgotten(h)
    <3>1. /\ Meant(req[h].items, i) \in Nat
          /\ table'[i].ivalue = table[i].ivalue + Meant(req[h].items, i)
      BY <2>5, <2>7 DEF Forgotten
    <3>2. promised'[i] = promised[i]
      BY <2>7 DEF Forgotten
    <3>. QED
      BY <2>3, <3>1, <3>2
  <2>. QED
    BY <2>1, <2>4, <2>6, <2>7
<1>. QED
  BY <1>1, <1>2

LEMMA TalliesInt == Spec => []Tallied
<1>1. Init => Tallied
  BY DEF Init, Tallied
<1>2. TypeOK /\ PInv /\ Tallied /\ [Next]_vars => Tallied'
  BY TalliesKept
<1>. QED
  BY <1>1, <1>2, PostgresTypeCorrect, PostgresInvariant, PTL DEF Spec

\* What updates that succeeded added is in the table, through other updates of
\* the name, its time as a gauge, and retries (postgres_storage.go:80-122,
\* 206-246), if deltas are not negative and no request's overflow.
THEOREM UpdatesStay ==
  ASSUME NonNegative, Fitting
  PROVE  Spec => []NothingLost
<1>1. Init => NothingLost
  BY DEF Init, NothingLost, Absent
<1>2. TypeOK /\ TypeOK' /\ PInv /\ Tallied /\ NothingLost /\ [Next]_vars => NothingLost'
  BY LossKept
<1>. QED
  BY <1>1, <1>2, TalliesInt, PostgresTypeCorrect, PostgresInvariant, PTL DEF Spec

-----------------------------------------------------------------------------
(* Retries add nothing twice but updates whose answer was lost: those that *)
(* still wait would not lift a name above what was asked for and lost.     *)

Due(h, i) == IF Waiting(h) THEN Meant(req[h].items, i) ELSE 0

Pending(i) == [h \in Handlers |-> Due(h, i)]

Balanced(i) ==
  \E s : IsSum(s, Pending(i), Handlers) /\ table[i].ivalue + s <= asked[i] + lost[i]

Balance == \A i \in Ids : Balanced(i)

LEMMA DueType ==
  ASSUME TypeOK, PInv, NEW h \in Handlers, NEW i \in Ids
  PROVE  Due(h, i) \in Int /\ (NonNegative => Due(h, i) \in Nat)
<1>1. CASE Waiting(h)
  <2>1. req[h] \in Requests
    BY <1>1, WaitingWrites
  <2>. QED
    BY <1>1, <2>1, DeltaMeant DEF Due
<1>2. CASE ~Waiting(h)
  BY <1>2 DEF Due
<1>. QED
  BY <1>1, <1>2

\* What a step does to the balance of a name: h's share and the name's row
\* change together.
LEMMA ShareChanges ==
  ASSUME TypeOK, TypeOK', PInv, PInv', NonNegative, Tallied, NEW h \in Handlers, NEW i \in Ids,
         Uncounted(h) \/ Counted(h) \/ Forgotten(h) \/ Asked(h)
  PROVE  (table'[i].ivalue - table[i].ivalue) + (Due(h, i)' - Due(h, i))
           <= (asked'[i] - asked[i]) + (lost'[i] - lost[i])
<1>1. /\ table[i].ivalue \in Int /\ table'[i].ivalue \in Int
      /\ asked[i] \in Int /\ lost[i] \in Int /\ Due(h, i) \in Nat
  BY CounterType, CounterNext, DueType DEF Tallied
<1>2. CASE Uncounted(h)
  <2>1. table'[i].ivalue = table[i].ivalue /\ asked'[i] = asked[i] /\ lost'[i] = lost[i]
    BY <1>2 DEF Uncounted
  <2>2. Due(h, i)' = 0 \/ Due(h, i)' = Due(h, i)
    BY <1>2 DEF Uncounted, Due
  <2>. QED
    BY <1>1, <2>1, <2>2
<1>3. CASE Counted(h)
  <2>1. /\ asked'[i] = asked[i] /\ lost'[i] = lost[i]
        /\ Due(h, i)' = 0 /\ Due(h, i) = Meant(req[h].items, i)
    BY <1>3 DEF Counted, Due
  <2>2. req[h] \in Requests
    BY <1>3, WaitingWrites DEF Counted
  <2>3. table'[i].ivalue <= table[i].ivalue + Meant(req[h].items, i)
    BY <1>3, <2>2, CommitCounts DEF Counted
  <2>. QED
    BY <1>1, <2>1, <2>3
<1>4. CASE Asked(h)
  <2>1. table'[i].ivalue = table[i].ivalue /\ Due(h, i) = 0 /\ lost'[i] = lost[i]
    BY <1>4 DEF Asked, Due
  <2>2. PICK r \in Requests : r = req'[h]
    BY <1>4 DEF Asked
  <2>3. /\ asked' = Add(asked, r) /\ (Waiting(h)' => Writes(r))
        /\ Meant(r.items, i) \in Nat
    BY <1>4, <2>2, DeltaMeant DEF Asked
  <2>4. asked'[i] = IF Writes(r) THEN asked[i] + Meant(r.items, i) ELSE asked[i]
    BY <2>3, AddTally DEF Tallied
  <2>5. Due(h, i)' = IF Waiting(h)' THEN Meant(r.items, i) ELSE 0
    BY <2>2 DEF Due
  <2>6. CASE Waiting(h)'
    <3>1. asked'[i] = asked[i] + Meant(r.items, i) /\ Due(h, i)' = Meant(r.items, i)
      BY <2>3, <2>4, <2>5, <2>6
    <3>. QED
      BY <1>1, <2>1, <2>3, <3>1
  <2>7. CASE ~Waiting(h)'
    <3>1. asked'[i] = asked[i] + Meant(r.items, i) \/ asked'[i] = asked[i]
      BY <2>4
    <3>2. Due(h, i)' = 0
      BY <2>5, <2>7
    <3>. QED
      BY <1>1, <2>1, <2>3, <3>1, <3>2
  <2>. QED
    BY <2>6, <2>7
<1>5. CASE Forgotten(h)
  <2>1. req[h] \in Requests /\ Writes(req[h])
    BY <1>5, WaitingWrites DEF Forgotten
  <2>2. asked'[i] = asked[i] /\ Due(h, i) = Meant(req[h].items, i)
    BY <1>5 DEF Forgotten, Due
  <2>3. Due(h, i)' = 0 \/ Due(h, i)' = Due(h, i)
    BY <1>5 DEF Forgotten, Due
  <2>4. table'[i].ivalue <= table[i].ivalue + Meant(req[h].items, i)
    BY <1>5, <2>1, CommitCounts DEF Forgotten
  <2>5. lost'[i] = lost[i] + Meant(req[h].items, i)
    BY <1>5, <2>1, AddTally DEF Forgotten, Tallied
  <2>6. Meant(req[h].items, i) \in Nat
    BY <2>1, DeltaMeant
  <2>. QED
    BY <1>1, <2>2, <2>3, <2>4, <2>5, <2>6
<1>. QED
  BY <1>2, <1>3, <1>4, <1>5

LEMMA DueNext ==
  ASSUME TypeOK', PInv', NEW h \in Handlers, NEW i \in Ids
  PROVE  Due(h, i)' \in Int
<1>1. CASE Waiting(h)'
  <2>1. Writes(req'[h]) /\ req'[h] \in Requests \cup {NoRequest}
    BY <1>1 DEF TypeOK, PInv, Shape, Waiting
  <2>2. PICK r \in Requests : r = req'[h]
    BY <2>1 DEF NoRequest, Writes
  <2>. QED
    BY <1>1, <2>2, DeltaMeant DEF Due
<1>2. CASE ~Waiting(h)'
  BY <1>2 DEF Due
<1>. QED
  BY <1>1, <1>2

LEMMA BalanceKept ==
  ASSUME TypeOK, TypeOK', PInv, PInv', NonNegative, Tallied, Balance, [Next]_vars
  PROVE  Balance'
<1>1. CASE UNCHANGED vars
  BY <1>1 DEF vars, history, Balance, Balanced, Pending, Due, Waiting
<1>2. CASE Next
  <2>1. PICK h \in Handlers :
          Apart(h) /\ (Uncounted(h) \/ Counted(h) \/ Forgotten(h) \/ Asked(h))
    BY <1>2, StepCounts
  <2>2. SUFFICES ASSUME NEW i \in Ids
                 PROVE  Balanced(i)'
    BY DEF Balance
  <2>3. PICK s : IsSum(s, Pending(i), Handlers) /\ table[i].ivalue + s <= asked[i] + lost[i]
    BY DEF Balance, Balanced
  <2>. DEFINE f == Pending(i)
              g == [y \in Handlers |-> Due(y, i)']
              t == s + g[h] - f[h]
  <2>4. (\A y \in Handlers : f[y] \in Int) /\ g[h] \in Int
    BY DueType, DueNext DEF Pending
  <2>5. \A y \in Handlers \ {h} : g[y] = f[y]
    BY <2>1 DEF Apart, Pending, Due, Waiting
  <2>6. s \in Int
    BY <2>3, SumType
  <2>7. IsSum(t, g, Handlers)
    BY <2>3, <2>4, <2>5, SumStep
  <2>8. table'[i].ivalue + t <= asked'[i] + lost'[i]
    <3>1. (table'[i].ivalue - table[i].ivalue) + (Due(h, i)' - Due(h, i))
            <= (asked'[i] - asked[i]) + (lost'[i] - lost[i])
      BY <2>1, ShareChanges
    <3>2. f[h] = Due(h, i) /\ g[h] = Due(h, i)'
      BY DEF Pending
    <3>3. /\ table[i].ivalue \in Int /\ table'[i].ivalue \in Int
          /\ asked[i] \in Int /\ asked'[i] \in Int
          /\ lost[i] \in Int /\ lost'[i] \in Int
      BY <1>2, CounterType, CounterNext, TalliesKept DEF Tallied
    <3>. QED
      BY <2>3, <2>4, <2>6, <3>1, <3>2, <3>3
  <2>. QED
    BY <2>7, <2>8 DEF Balanced, Pending
<1>. QED
  BY <1>1, <1>2

\* Retries add nothing twice (postgres_storage.go:97-121, 222-245) but updates
\* whose answer was lost, and those once for each such answer, if deltas are not
\* negative.
THEOREM RetriesCountOnce ==
  ASSUME NonNegative
  PROVE  Spec => []NothingInvented
<1>1. Init => Balance
  <2>1. SUFFICES ASSUME Init, NEW i \in Ids
                 PROVE  Balanced(i)
    BY DEF Balance
  <2>2. \A h \in Handlers : Pending(i)[h] = 0
    BY <2>1 DEF Init, Pending, Due, Waiting
  <2>3. IsSum(0, Pending(i), Handlers)
    BY <2>2, ZeroSum
  <2>4. table[i].ivalue + 0 <= asked[i] + lost[i]
    BY <2>1 DEF Init, Absent
  <2>. QED
    BY <2>3, <2>4 DEF Balanced
<1>2. /\ TypeOK /\ TypeOK' /\ PInv /\ PInv' /\ Tallied /\ Balance /\ [Next]_vars
      => Balance'
  BY BalanceKept
<1>3. TypeOK /\ PInv /\ Tallied /\ Balance => NothingInvented
  <2>1. SUFFICES ASSUME TypeOK, PInv, Tallied, Balance, NEW i \in Ids
                 PROVE  table[i].ivalue <= asked[i] + lost[i]
    BY DEF NothingInvented
  <2>2. PICK s : IsSum(s, Pending(i), Handlers) /\ table[i].ivalue + s <= asked[i] + lost[i]
    BY <2>1 DEF Balance, Balanced
  <2>3. \A h \in Handlers : Pending(i)[h] \in Nat
    BY <2>1, DueType DEF Pending
  <2>4. s \in Nat
    BY <2>2, <2>3, SumSign, PostgresAssumption
  <2>5. table[i].ivalue \in Int /\ asked[i] \in Int /\ lost[i] \in Int
    BY <2>1, CounterType DEF Tallied
  <2>. QED
    BY <2>2, <2>4, <2>5
<1>. QED
  BY <1>1, <1>2, <1>3, TalliesInt, PostgresTypeCorrect, PostgresInvariant, PTL DEF Spec
=============================================================================
