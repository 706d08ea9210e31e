-------------------------- MODULE FileCountsProofs --------------------------
(***************************************************************************)
(* What FileStorage guarantees of the numbers in memory and on disk: no    *)
(* update counts twice, a counter that each batch updates before another   *)
(* metric stays ahead of it, and with a store interval of 0 nothing stays  *)
(* unsaved once the requests are answered.                                 *)
(***************************************************************************)
EXTENDS FileStorageProofs, Sums

-----------------------------------------------------------------------------
(* Batches.                                                                *)

\* What is left of a batch has one less of its first metric.
LEMMA OccurrencesTail ==
  ASSUME NEW b \in Seq(Metrics), b # <<>>, NEW m \in Metrics
  PROVE  Occurrences(b, m) = Occurrences(Tail(b), m) + (IF Head(b) = m THEN 1 ELSE 0)
<1>. DEFINE S == {i \in 1..Len(Tail(b)) : Tail(b)[i] = m}
            T == {i \in 2..Len(b) : b[i] = m}
            U == {i \in 1..Len(b) : b[i] = m}
<1>1. /\ Len(b) \in Nat \ {0} /\ Len(Tail(b)) = Len(b) - 1
      /\ \A i \in 1..Len(Tail(b)) : Tail(b)[i] = b[i + 1]
  <2>1. Len(b) \in Nat /\ Len(b) # 0
    BY EmptySeq
  <2>. QED
    BY <2>1, HeadTailProperties
<1>2. IsFiniteSet(S) /\ IsFiniteSet(T)
  <2>1. IsFiniteSet(1..Len(Tail(b))) /\ IsFiniteSet(2..Len(b))
    BY <1>1, FS_Interval
  <2>2. S \in SUBSET (1..Len(Tail(b))) /\ T \in SUBSET (2..Len(b))
    OBVIOUS
  <2>. HIDE DEF S, T
  <2>. QED
    BY <2>1, <2>2, FS_Subset
<1>3. Cardinality(T) = Cardinality(S)
  <2>. DEFINE f == [i \in S |-> i + 1]
  <2>1. f \in [S -> T]
    BY <1>1
  <2>2. \A i, j \in S : f[i] = f[j] => i = j
    BY <1>1
  <2>3. \A j \in T : \E i \in S : f[i] = j
    <3>. TAKE j \in T
    <3>1. j - 1 \in S /\ f[j - 1] = j
      BY <1>1
    <3>. QED
      BY <3>1
  <2>4. f \in Bijection(S, T)
    <3>. HIDE DEF f, S, T
    <3>. QED
      BY <2>1, <2>2, <2>3 DEF Bijection, Injection, Surjection, IsInjective
  <2>5. ExistsBijection(S, T)
    BY <2>4 DEF ExistsBijection
  <2>. HIDE DEF f, S, T
  <2>. QED
    BY <1>2, <2>5, FS_Bijection
<1>o. /\ Occurrences(b, m) = Cardinality(U) /\ Occurrences(Tail(b), m) = Cardinality(S)
      /\ Cardinality(S) \in Nat
  BY <1>2, FS_CardinalityType DEF Occurrences
<1>4. CASE Head(b) = m
  <2>1. U = T \cup {1} /\ 1 \notin T
    BY <1>1, <1>4
  <2>2. Cardinality(T \cup {1}) = Cardinality(T) + 1
    <3>. HIDE DEF T
    <3>. QED
      BY <1>2, <2>1, FS_AddElement
  <2>. HIDE DEF S, T, U
  <2>. QED
    BY <1>3, <1>4, <1>o, <2>1, <2>2
<1>5. CASE Head(b) # m
  <2>1. U = T
    BY <1>1, <1>5
  <2>. HIDE DEF S, T, U
  <2>. QED
    BY <1>3, <1>5, <1>o, <2>1
<1>. QED
  BY <1>4, <1>5

\* An empty batch has none.
LEMMA NoOccurrences ==
  ASSUME NEW m
  PROVE  Occurrences(<<>>, m) = 0
<1>1. {i \in 1..Len(<<>>) : <<>>[i] = m} = {}
  <2>1. Len(<<>>) = 0
    OBVIOUS
  <2>. QED
    BY <2>1
<1>. QED
  BY <1>1, FS_EmptySet DEF Occurrences

-----------------------------------------------------------------------------
(* No update counts twice.                                                 *)

\* How often each handler is still to update m.
Left(m) == [h \in Handlers |-> Occurrences(batch[h], m)]

\* What is in memory and what is still to come of batches was all asked for, and
\* so was what is on disk.
CountInv ==
  /\ phase # "serving" => \A h \in Handlers : batch[h] = <<>>
  /\ \A m \in Metrics :
       /\ Disk[m] <= issued[m]
       /\ \E s : IsSum(s, Left(m), Handlers) /\ mem[m] + s <= issued[m]

\* The sum of what is left is a natural number.
LEMMA LeftType ==
  ASSUME Typed, NEW m \in Metrics
  PROVE  /\ \A h \in Handlers : Left(m)[h] \in Nat /\ Left(m)[h] = Occurrences(batch[h], m)
         /\ \A s : IsSum(s, Left(m), Handlers) => s \in Nat
<1>1. \A h \in Handlers : Left(m)[h] \in Nat /\ Left(m)[h] = Occurrences(batch[h], m)
  <2>. TAKE h \in Handlers
  <2>1. batch[h] \in Seq(Metrics)
    BY DEF Typed, TypeOK
  <2>. QED
    BY <2>1, OccurrencesType DEF Left
<1>. QED
  BY <1>1, SumSign, FileStorageAssumption

\* Nothing is in memory that was not asked for.
LEMMA CountBounds ==
  ASSUME Typed, CountInv, NEW m \in Metrics
  PROVE  mem[m] <= issued[m]
<1>1. PICK s : IsSum(s, Left(m), Handlers) /\ mem[m] + s <= issued[m]
  BY DEF CountInv
<1>2. s \in Nat /\ mem[m] \in Nat /\ issued[m] \in Nat
  BY <1>1, LeftType DEF Typed, TypeOK, Versions
<1>. QED
  BY <1>1, <1>2

\* The sum of nothing.
LEMMA NothingLeft ==
  ASSUME \A h \in Handlers : batch[h] = <<>>, NEW m \in Metrics
  PROVE  IsSum(0, Left(m), Handlers)
<1>1. \A h \in Handlers : Left(m)[h] = 0
  BY NoOccurrences DEF Left
<1>. QED
  BY <1>1, ZeroSum

\* One handler's batch changes: so does the sum of what is left.
LEMMA LeftStep ==
  ASSUME Typed, Typed', NEW h \in Handlers, NEW m \in Metrics,
         \A g \in Handlers \ {h} : batch'[g] = batch[g],
         NEW s, IsSum(s, Left(m), Handlers)
  PROVE  IsSum(s + Occurrences(batch'[h], m) - Occurrences(batch[h], m),
               Left(m)', Handlers)
<1>1. /\ \A g \in Handlers : Left(m)[g] \in Int
      /\ Left(m)[h] = Occurrences(batch[h], m)
  BY LeftType
<1>2. batch'[h] \in Seq(Metrics)
  BY DEF Typed, TypeOK
<1>3. Left(m)'[h] = Occurrences(batch'[h], m) /\ Left(m)'[h] \in Int
  BY <1>2, OccurrencesType DEF Left
<1>4. \A g \in Handlers \ {h} : Left(m)'[g] = Left(m)[g]
  BY DEF Left
<1>5. IsSum(s + Left(m)'[h] - Left(m)[h], Left(m)', Handlers)
  BY <1>1, <1>3, <1>4, SumStep
<1>. QED
  BY <1>1, <1>3, <1>5

\* Steps that leave memory, batches and what was asked for alone, and put at
\* most a snapshot on disk.
LEMMA CountSame ==
  ASSUME Typed, CountInv, UNCHANGED <<phase, mem, batch, issued>>,
         \A m \in Metrics : Disk'[m] <= issued[m]
  PROVE  CountInv'
<1>1. \A m \in Metrics : Left(m)' = Left(m)
  BY DEF Left
<1>. QED
  BY <1>1 DEF CountInv

\* What a saver about to rename has in the temporary file is in memory.
LEMMA SnapshotInMemory ==
  ASSUME Typed, IInv, NEW s \in Savers, RenameTemp(s)
  PROVE  Disk' = snap[s] /\ \A m \in Metrics : snap[s][m] <= mem[m]
<1>1. pc[s] = "rename" /\ file' = tmp /\ tmp = snap[s] /\ snap[s] \in Versions
  BY DEF RenameTemp, IInv, TempInv, Typed, TypeOK
<1>2. Disk' = snap[s]
  BY <1>1 DEF Disk
<1>3. \A m \in Metrics : Gathered(s, m)
  BY <1>1 DEF Gathered
<1>. QED
  BY <1>2, <1>3 DEF IInv, SnapInv

\* A save changes no more than the file, and that only by its rename.
LEMMA SavingLeaves ==
  ASSUME NEW s \in Savers, Saving(s)
  PROVE  /\ UNCHANGED <<phase, mem, batch, issued, stopped>>
         /\ RenameTemp(s) \/ file' = file
<1>. USE DEF save, disk, history
<1>1. CASE LockStore(s) \/ OpenTemp(s) \/ WriteTemp(s) \/ ReadCounters(s)
  BY <1>1 DEF LockStore, OpenTemp, WriteTemp, ReadCounters
<1>2. ASSUME NEW g \in Gauges, ReadGauge(s, g)
      PROVE  UNCHANGED <<phase, mem, batch, issued, stopped>> /\ file' = file
  BY <1>2 DEF ReadGauge
<1>3. CASE WriteFails(s) \/ RenameFails(s)
  BY <1>3 DEF WriteFails, RenameFails
<1>4. CASE RenameTemp(s)
  BY <1>4 DEF RenameTemp
<1>. QED
  BY <1>1, <1>2, <1>3, <1>4 DEF Saving

\* A process that starts serves with an empty memory or with what is on disk.
LEMMA StartingLeaves ==
  ASSUME Typed, IInv, Starting
  PROVE  /\ phase # "serving" /\ UNCHANGED <<file, batch, issued, pc>>
         /\ mem = Empty /\ (mem' = mem \/ mem' = Disk)
<1>1. phase # "serving"
  BY DEF Starting, Boot, Load, LoadFails
<1>2. mem = Empty
  BY <1>1 DEF IInv, QuietInv
<1>. QED
  BY <1>1, <1>2, RestoredIsDisk
     DEF Starting, Boot, Load, LoadFails, save, disk, history

\* The disk is what the file says.
LEMMA SameFile ==
  ASSUME file' = file
  PROVE  Disk' = Disk
BY DEF Disk, Empty

\* Every step keeps the count.
LEMMA CountStep ==
  ASSUME Typed, Typed', IInv, CountInv, Next
  PROVE  CountInv'
<1>. USE DEF save, disk, history
<1>n. \A m \in Metrics : mem[m] \in Nat /\ issued[m] \in Nat /\ Disk[m] \in Nat
                         /\ mem[m] <= issued[m] /\ Disk[m] <= issued[m]
  BY CountBounds, DiskType DEF CountInv, Typed, TypeOK, Versions
<1>1. CASE Starting
  <2>1. /\ phase # "serving" /\ UNCHANGED <<file, batch, issued>>
        /\ mem = Empty /\ (mem' = mem \/ mem' = Disk)
    BY <1>1, StartingLeaves
  <2>2. \A h \in Handlers : batch[h] = <<>> /\ batch'[h] = <<>>
    BY <2>1 DEF CountInv
  <2>3. \A m \in Metrics : IsSum(0, Left(m), Handlers) /\ Left(m)' = Left(m)
    BY <2>1, <2>2, NothingLeft DEF Left
  <2>4. \A m \in Metrics : mem'[m] + 0 <= issued'[m] /\ Disk'[m] <= issued'[m]
    BY <1>n, <2>1, SameFile DEF Empty
  <2>. QED
    BY <2>2, <2>3, <2>4 DEF CountInv
<1>2. ASSUME NEW s \in Savers, Saving(s)
      PROVE  CountInv'
  <2>1. UNCHANGED <<phase, mem, batch, issued>>
    BY <1>2, SavingLeaves
  <2>2. CASE file' = file
    BY <1>n, <2>1, <2>2, SameFile, CountSame
  <2>3. CASE RenameTemp(s)
    <3>1. \A m \in Metrics : Disk'[m] <= mem[m] /\ Disk'[m] \in Nat
      <4>1. snap[s] \in Versions
        BY DEF Typed, TypeOK
      <4>. QED
        BY <2>3, <4>1, SnapshotInMemory DEF Versions
    <3>. QED
      BY <1>n, <2>1, <3>1, CountSame
  <2>. QED
    BY <1>2, <2>2, <2>3, SavingLeaves
<1>3. ASSUME NEW h \in Handlers, NEW k \in Singles, UpdateMetric(h, k)
      PROVE  CountInv'
  <2>1. /\ phase = "serving" /\ UNCHANGED <<phase, file, batch>>
        /\ issued' = [issued EXCEPT ![k] = @ + 1] /\ mem' = [mem EXCEPT ![k] = @ + 1]
    BY <1>3 DEF UpdateMetric
  <2>2. Disk' = Disk /\ \A m \in Metrics : Left(m)' = Left(m)
    BY <2>1, SameFile DEF Left
  <2>3. ASSUME NEW m \in Metrics, NEW s, IsSum(s, Left(m), Handlers),
               mem[m] + s <= issued[m]
        PROVE  mem'[m] + s <= issued'[m] /\ Disk'[m] <= issued'[m]
    <3>1. s \in Nat
      BY <2>3, LeftType
    <3>2. \/ m = k /\ mem'[m] = mem[m] + 1 /\ issued'[m] = issued[m] + 1
          \/ mem'[m] = mem[m] /\ issued'[m] = issued[m]
      BY <2>1 DEF Typed, TypeOK, Versions
    <3>. QED
      BY <1>n, <2>2, <2>3, <3>1, <3>2
  <2>. QED
    BY <2>1, <2>2, <2>3 DEF CountInv
<1>4. ASSUME NEW h \in Handlers, NEW b \in Batches, StartBatch(h, b)
      PROVE  CountInv'
  <2>1. /\ phase = "serving" /\ UNCHANGED <<phase, file, mem>>
        /\ issued' = [m \in Metrics |-> issued[m] + Occurrences(b, m)]
        /\ batch' = [batch EXCEPT ![h] = b]
    BY <1>4 DEF StartBatch
  <2>2. b \in Seq(Metrics) /\ batch[h] \in Seq(Metrics) /\ batch'[h] = b
        /\ \A g \in Handlers \ {h} : batch'[g] = batch[g]
    BY <2>1, FileStorageAssumption DEF Typed, TypeOK
  <2>3. ASSUME NEW m \in Metrics
        PROVE  /\ Disk'[m] <= issued'[m]
               /\ \E s : IsSum(s, Left(m)', Handlers) /\ mem'[m] + s <= issued'[m]
    <3>1. PICK s : IsSum(s, Left(m), Handlers) /\ mem[m] + s <= issued[m]
      BY DEF CountInv
    <3>2. IsSum(s + Occurrences(b, m) - Occurrences(batch[h], m), Left(m)', Handlers)
      BY <2>2, <3>1, LeftStep
    <3>3. s \in Nat /\ Occurrences(b, m) \in Nat /\ Occurrences(batch[h], m) \in Nat
      BY <2>2, <3>1, LeftType, OccurrencesType
    <3>4. Disk' = Disk /\ issued'[m] = issued[m] + Occurrences(b, m) /\ mem' = mem
      BY <2>1, SameFile
    <3>5. /\ mem'[m] + (s + Occurrences(b, m) - Occurrences(batch[h], m)) <= issued'[m]
          /\ Disk'[m] <= issued'[m]
      BY <1>n, <3>1, <3>3, <3>4
    <3>. QED
      BY <3>2, <3>5
  <2>. QED
    BY <2>1, <2>3 DEF CountInv
<1>5. ASSUME NEW h \in Handlers, ApplyNext(h)
      PROVE  CountInv'
  <2>1. /\ pc[h] = "batch" /\ UNCHANGED <<phase, file, issued>>
        /\ mem' = [mem EXCEPT ![Head(batch[h])] = @ + 1]
        /\ batch' = [batch EXCEPT ![h] = Tail(@)]
    BY <1>5 DEF ApplyNext
  <2>2. /\ h \in Savers /\ batch[h] \in Seq(Metrics) /\ batch[h] # <<>>
        /\ batch'[h] = Tail(batch[h]) /\ \A g \in Handlers \ {h} : batch'[g] = batch[g]
    BY <2>1 DEF Savers, Typed, TypeOK, BatchShape
  <2>3. phase = "serving" /\ Head(batch[h]) \in Metrics /\ Tail(batch[h]) \in Seq(Metrics)
    BY <2>1, <2>2, HeadTailProperties DEF IInv, QuietInv
  <2>4. ASSUME NEW m \in Metrics
        PROVE  /\ Disk'[m] <= issued'[m]
               /\ \E s : IsSum(s, Left(m)', Handlers) /\ mem'[m] + s <= issued'[m]
    <3>1. PICK s : IsSum(s, Left(m), Handlers) /\ mem[m] + s <= issued[m]
      BY DEF CountInv
    <3>2. IsSum(s + Occurrences(Tail(batch[h]), m) - Occurrences(batch[h], m),
                Left(m)', Handlers)
      BY <2>2, <3>1, LeftStep
    <3>3. /\ s \in Nat /\ Occurrences(Tail(batch[h]), m) \in Nat
          /\ Occurrences(batch[h], m)
               = Occurrences(Tail(batch[h]), m) + (IF Head(batch[h]) = m THEN 1 ELSE 0)
      BY <2>2, <2>3, <3>1, LeftType, OccurrencesType, OccurrencesTail
    <3>4. /\ Disk' = Disk /\ issued' = issued
          /\ mem'[m] = mem[m] + (IF Head(batch[h]) = m THEN 1 ELSE 0)
      <4>1. mem \in [Metrics -> Nat] /\ mem[m] \in Nat
        BY DEF Typed, TypeOK, Versions
      <4>. HIDE DEF history
      <4>. QED
        BY <2>1, <2>3, <4>1, SameFile
    <3>5. mem'[m] + (s + Occurrences(Tail(batch[h]), m) - Occurrences(batch[h], m))
            <= issued'[m]
      BY <1>n, <3>1, <3>3, <3>4
    <3>. QED
      BY <1>n, <3>2, <3>4, <3>5
  <2>. QED
    BY <2>1, <2>3, <2>4 DEF CountInv
<1>6. CASE Tick \/ StopTicker \/ Shutdown
  <2>1. UNCHANGED <<phase, mem, file, batch, issued>>
    BY <1>6 DEF Tick, StopTicker, Shutdown
  <2>. QED
    BY <1>n, <2>1, SameFile, CountSame
<1>7. CASE Crash
  <2>1. /\ mem' = Empty /\ batch' = [h \in Handlers |-> <<>>] /\ UNCHANGED <<file, issued>>
    BY <1>7 DEF Crash, ProcessEnds
  <2>2. \A m \in Metrics : IsSum(0, Left(m)', Handlers)
    <3>. TAKE m \in Metrics
    <3>1. \A h \in Handlers : Left(m)'[h] = 0
      BY <2>1, NoOccurrences DEF Left
    <3>. QED
      BY <3>1, ZeroSum
  <2>3. \A m \in Metrics : mem'[m] + 0 <= issued'[m] /\ Disk'[m] <= issued'[m]
    BY <1>n, <2>1, SameFile DEF Empty
  <2>. QED
    BY <2>1, <2>2, <2>3 DEF CountInv
<1>. QED
  BY <1>1, <1>2, <1>3, <1>4, <1>5, <1>6, <1>7 DEF Next, Requests

\* Nothing was asked for before the first start.
LEMMA CountInit == Init => CountInv
<1>. SUFFICES ASSUME Init PROVE CountInv
  OBVIOUS
<1>1. \A h \in Handlers : batch[h] = <<>>
  BY DEF Init
<1>2. \A m \in Metrics : mem[m] = 0 /\ issued[m] = 0 /\ Disk[m] = 0
  BY FileStorageAssumption DEF Init, Empty, Disk
<1>. QED
  BY <1>1, <1>2, NothingLeft DEF CountInv

\* The count is right in every state.
LEMMA CountAlways == Spec => []CountInv
<1>1. Typed /\ Typed' /\ IInv /\ CountInv /\ [Next]_vars => CountInv'
  <2>1. ASSUME Typed, CountInv, UNCHANGED vars
        PROVE  CountInv'
    <3>1. UNCHANGED <<phase, mem, batch, issued>> /\ Disk' = Disk
      BY <2>1, SameFile DEF vars, disk, history
    <3>2. \A m \in Metrics : Disk'[m] <= issued[m]
      BY <2>1, <3>1 DEF CountInv
    <3>. QED
      BY <2>1, <3>1, <3>2, CountSame
  <2>. QED
    BY <2>1, CountStep
<1>. QED
  BY <1>1, CountInit, TypedAlways, Invariant, PTL DEF Spec

\* Nothing counts twice: what memory has of a metric never exceeds what was asked
\* for, through batches, failed and repeated loads and saves, and restarts.
THEOREM NothingCountsTwice == Spec => []NeverOvercounts
<1>1. Typed /\ CountInv => NeverOvercounts
  BY CountBounds DEF NeverOvercounts, Metrics
<1>. QED
  BY <1>1, TypedAlways, CountAlways, PTL

-----------------------------------------------------------------------------
(* A counter that every batch updates before another metric stays ahead.   *)

\* y comes at most once in b.
Once(b, y) == \A i, j \in 1..Len(b) : b[i] = y /\ b[j] = y => i = j

\* What is left of a batch updates y, and x no more before that: x's update is
\* in memory and y's is still to come.
Owed(b, x, y) == \E j \in 1..Len(b) : b[j] = y /\ \A i \in 1..(j - 1) : b[i] # x

Credit(x, y) == [h \in Handlers |-> IF Owed(batch[h], x, y) THEN 1 ELSE 0]

\* y is behind x by all that is owed, on disk and in complete snapshots too.
LeadInv ==
  \A x, y \in Metrics : Leads(x, y) =>
    /\ Disk[y] <= Disk[x]
    /\ \A s \in Savers : pc[s] \in {"open", "write", "rename"} => snap[s][y] <= snap[s][x]
    /\ \A h \in Handlers : Once(batch[h], y)
    /\ \E n : IsSum(n, Credit(x, y), Handlers) /\ mem[y] + n <= mem[x]

\* Nothing is owed for a batch as it was sent, nor for an empty one.
LEMMA NothingOwed ==
  ASSUME NEW x \in Metrics, NEW y \in Metrics, Leads(x, y), NEW b \in Batches \cup {<<>>}
  PROVE  Once(b, y) /\ ~Owed(b, x, y)
<1>1. CASE b = <<>>
  <2>1. Len(b) = 0
    BY <1>1
  <2>. QED
    BY <2>1 DEF Once, Owed
<1>2. CASE b \in Batches
  <2>1. ~Owed(b, x, y)
    BY <1>2 DEF Leads, Owed
  <2>2. ASSUME NEW j \in 1..Len(b), b[j] = y
        PROVE  \A i \in 1..Len(b) : b[i] = y => i = j
    <3>. DEFINE S == {i \in 1..Len(b) : b[i] = y}
    <3>1. Cardinality(S) = 1
      BY <1>2, <2>2 DEF Leads, Occurrences
    <3>2. b \in Seq(Metrics)
      BY <1>2, FileStorageAssumption
    <3>3. IsFiniteSet(S)
      <4>1. IsFiniteSet(1..Len(b)) /\ S \in SUBSET (1..Len(b))
        BY <3>2, FS_Interval
      <4>. HIDE DEF S
      <4>. QED
        BY <4>1, FS_Subset
    <3>4. \E k : S = {k}
      <4>. HIDE DEF S
      <4>. QED
        BY <3>1, <3>3, FS_Singleton
    <3>. QED
      BY <2>2, <3>4
  <2>. QED
    BY <2>1, <2>2 DEF Once
<1>. QED
  BY <1>1, <1>2

\* What the next update of a batch does to what is owed.
LEMMA OwedTail ==
  ASSUME NEW b \in Seq(Metrics), b # <<>>, NEW x, NEW y, x # y, Once(b, y)
  PROVE  /\ Once(Tail(b), y)
         /\ Head(b) = x => ~Owed(b, x, y)
         /\ Head(b) = y => Owed(b, x, y) /\ ~Owed(Tail(b), x, y)
         /\ Head(b) \notin {x, y} => (Owed(b, x, y) <=> Owed(Tail(b), x, y))
<1>1. /\ Len(b) \in Nat \ {0} /\ Len(Tail(b)) = Len(b) - 1 /\ Head(b) = b[1]
      /\ \A i \in 1..Len(Tail(b)) : Tail(b)[i] = b[i + 1]
  <2>1. Len(b) \in Nat /\ Len(b) # 0
    BY EmptySeq
  <2>. QED
    BY <2>1, HeadTailProperties
<1>2. Once(Tail(b), y)
  BY <1>1 DEF Once
<1>3. ASSUME Head(b) = x
      PROVE  ~Owed(b, x, y)
  BY <1>1, <1>3 DEF Owed
<1>4. ASSUME Head(b) = y
      PROVE  Owed(b, x, y) /\ ~Owed(Tail(b), x, y)
  <2>1. 1 \in 1..Len(b) /\ b[1] = y
    BY <1>1, <1>4
  <2>2. \A i \in 1..Len(Tail(b)) : Tail(b)[i] # y
    BY <1>1, <2>1 DEF Once
  <2>. QED
    BY <2>1, <2>2 DEF Owed
<1>5. ASSUME Head(b) # x, Owed(Tail(b), x, y)
      PROVE  Owed(b, x, y)
  <2>1. PICK j \in 1..Len(Tail(b)) : Tail(b)[j] = y /\ \A i \in 1..(j - 1) : Tail(b)[i] # x
    BY <1>5 DEF Owed
  <2>2. j + 1 \in 1..Len(b) /\ b[j + 1] = y
    BY <1>1, <2>1
  <2>3. ASSUME NEW i \in 1..j
        PROVE  b[i] # x
    <3>1. CASE i = 1
      BY <1>1, <1>5, <3>1
    <3>2. CASE i # 1
      <4>1. i - 1 \in 1..(j - 1) /\ i - 1 \in 1..Len(Tail(b)) /\ (i - 1) + 1 = i
        BY <1>1, <3>2
      <4>. QED
        BY <1>1, <2>1, <4>1
    <3>. QED
      BY <3>1, <3>2
  <2>4. (j + 1) - 1 = j
    BY <2>1
  <2>. QED
    BY <2>2, <2>3, <2>4 DEF Owed
<1>6. ASSUME Head(b) # y, Owed(b, x, y)
      PROVE  Owed(Tail(b), x, y)
  <2>1. PICK j \in 1..Len(b) : b[j] = y /\ \A i \in 1..(j - 1) : b[i] # x
    BY <1>6 DEF Owed
  <2>2. j - 1 \in 1..Len(Tail(b)) /\ (j - 1) + 1 = j
    BY <1>1, <1>6, <2>1
  <2>3. Tail(b)[j - 1] = y
    BY <1>1, <2>1, <2>2
  <2>4. \A i \in 1..((j - 1) - 1) : Tail(b)[i] # x
    <3>. TAKE i \in 1..((j - 1) - 1)
    <3>1. i \in 1..Len(Tail(b)) /\ i + 1 \in 1..(j - 1)
      BY <1>1, <2>1
    <3>. QED
      BY <1>1, <2>1, <3>1
  <2>. QED
    BY <2>2, <2>3, <2>4 DEF Owed
<1>. QED
  BY <1>2, <1>3, <1>4, <1>5, <1>6

\* What is owed in all.
LEMMA CreditType ==
  ASSUME NEW x \in Metrics, NEW y \in Metrics
  PROVE  /\ \A h \in Handlers : Credit(x, y)[h] = IF Owed(batch[h], x, y) THEN 1 ELSE 0
         /\ \A n : IsSum(n, Credit(x, y), Handlers) => n \in Nat
<1>1. \A h \in Handlers : Credit(x, y)[h] = IF Owed(batch[h], x, y) THEN 1 ELSE 0
  BY DEF Credit
<1>2. \A h \in Handlers : Credit(x, y)[h] \in Nat
  BY <1>1
<1>. QED
  BY <1>1, <1>2, SumSign, FileStorageAssumption

\* One handler's batch changes: so does what is owed in all.
LEMMA CreditStep ==
  ASSUME NEW h \in Handlers, NEW x \in Metrics, NEW y \in Metrics,
         \A g \in Handlers \ {h} : batch'[g] = batch[g],
         NEW n, IsSum(n, Credit(x, y), Handlers)
  PROVE  IsSum(n + (IF Owed(batch'[h], x, y) THEN 1 ELSE 0)
                 - (IF Owed(batch[h], x, y) THEN 1 ELSE 0), Credit(x, y)', Handlers)
<1>1. /\ \A g \in Handlers : Credit(x, y)[g] \in Int
      /\ Credit(x, y)[h] = IF Owed(batch[h], x, y) THEN 1 ELSE 0
  BY DEF Credit
<1>2. /\ Credit(x, y)'[h] = IF Owed(batch'[h], x, y) THEN 1 ELSE 0
      /\ Credit(x, y)'[h] \in Int
  BY DEF Credit
<1>3. \A g \in Handlers \ {h} : Credit(x, y)'[g] = Credit(x, y)[g]
  BY DEF Credit
<1>4. IsSum(n + Credit(x, y)'[h] - Credit(x, y)[h], Credit(x, y)', Handlers)
  BY <1>1, <1>2, <1>3, SumStep
<1>. QED
  BY <1>1, <1>2, <1>4

\* No batch: nothing is owed.
LEMMA NoCredit ==
  ASSUME \A h \in Handlers : batch[h] = <<>>, NEW x \in Metrics, NEW y \in Metrics, Leads(x, y)
  PROVE  IsSum(0, Credit(x, y), Handlers) /\ \A h \in Handlers : Once(batch[h], y)
<1>1. \A h \in Handlers : Credit(x, y)[h] = 0
  BY NothingOwed DEF Credit
<1>. QED
  BY <1>1, ZeroSum, NothingOwed

\* Steps that change neither memory nor batches.
LEMMA LeadSame ==
  ASSUME LeadInv, UNCHANGED <<mem, batch>>,
         \A x, y \in Metrics : Leads(x, y) =>
           /\ Disk'[y] <= Disk'[x]
           /\ \A s \in Savers : pc'[s] \in {"open", "write", "rename"} => snap'[s][y] <= snap'[s][x]
  PROVE  LeadInv'
<1>1. \A x, y \in Metrics : Credit(x, y)' = Credit(x, y)
  BY DEF Credit
<1>2. \A x, y \in Metrics : Leads(x, y)' <=> Leads(x, y)
  BY DEF Leads, Occurrences
<1>. QED
  BY <1>1, <1>2 DEF LeadInv

\* Memory is ahead, whatever is owed.
LEMMA LeadsInMemory ==
  ASSUME Typed, LeadInv, NEW x \in Metrics, NEW y \in Metrics, Leads(x, y)
  PROVE  mem[y] <= mem[x]
<1>1. PICK n : IsSum(n, Credit(x, y), Handlers) /\ mem[y] + n <= mem[x]
  BY DEF LeadInv
<1>2. n \in Nat /\ mem[x] \in Nat /\ mem[y] \in Nat
  BY <1>1, CreditType DEF Typed, TypeOK, Versions
<1>. QED
  BY <1>1, <1>2

\* A new attempt has no snapshot yet, and who returns has none any more.
LEMMA ErrorDropsSnap ==
  ASSUME Typed, NEW s \in Savers, NEW e, SaveError(s, e)
  PROVE  /\ pc'[s] \notin {"open", "write", "rename"}
         /\ \A t \in Savers \ {s} : pc'[t] = pc[t] /\ snap'[t] = snap[t]
<1>. USE Shapes
<1>1. CASE BeginAttempt(s, attempt[s] + 1)
  BY <1>1 DEF BeginAttempt
<1>2. CASE Return(s, FALSE)
  BY <1>2 DEF Return, ReturnToCaller
<1>. QED
  BY <1>1, <1>2 DEF SaveError

\* The steps of SaveToFile keep the lead.
LEMMA SavingLeads ==
  ASSUME Typed, Typed', IInv, LeadInv, NEW s \in Savers, Saving(s)
  PROVE  LeadInv'
<1>. USE DEF save, disk, history
<1>u. UNCHANGED <<mem, batch>>
  BY SavingLeaves
<1>d. file' = file => \A x, y \in Metrics : Leads(x, y) => Disk'[y] <= Disk'[x]
  BY SameFile DEF LeadInv
<1>o. ASSUME pc'[s] \notin {"open", "write", "rename"}, file' = file,
             \A t \in Savers \ {s} : pc'[t] = pc[t] /\ snap'[t] = snap[t]
      PROVE  LeadInv'
  <2>1. ASSUME NEW x \in Metrics, NEW y \in Metrics, Leads(x, y),
               NEW t \in Savers, pc'[t] \in {"open", "write", "rename"}
        PROVE  snap'[t][y] <= snap'[t][x]
    BY <1>o, <2>1 DEF LeadInv
  <2>. QED
    BY <1>u, <1>d, <1>o, <2>1, LeadSame
<1>1. CASE LockStore(s)
  <2>1. pc'[s] = "gauges" /\ file' = file
        /\ \A t \in Savers \ {s} : pc'[t] = pc[t] /\ snap'[t] = snap[t]
    BY <1>1, Shapes DEF LockStore, BeginAttempt
  <2>. QED
    BY <1>o, <2>1
<1>2. ASSUME NEW g \in Gauges, ReadGauge(s, g)
      PROVE  LeadInv'
  <2>1. pc'[s] = "gauges" /\ file' = file
        /\ \A t \in Savers \ {s} : pc'[t] = pc[t] /\ snap'[t] = snap[t]
    BY <1>2, Shapes DEF ReadGauge
  <2>. QED
    BY <1>o, <2>1
<1>3. CASE ReadCounters(s)
  <2>1. /\ pc[s] = "gauges" /\ unread[s] = {} /\ file' = file
        /\ snap'[s] = [m \in Metrics |-> IF m \in Counters THEN mem[m] ELSE snap[s][m]]
        /\ \A t \in Savers \ {s} : pc'[t] = pc[t] /\ snap'[t] = snap[t]
    BY <1>3, Shapes DEF ReadCounters
  <2>2. ASSUME NEW m \in Metrics
        PROVE  snap'[s][m] <= mem[m]
    <3>1. CASE m \in Counters
      <4>1. mem[m] \in Nat
        BY DEF Typed, TypeOK, Versions
      <4>. QED
        BY <2>1, <3>1, <4>1
    <3>2. CASE m \notin Counters
      <4>1. Gathered(s, m) /\ snap'[s][m] = snap[s][m]
        BY <2>1, <3>2 DEF Gathered, Metrics
      <4>. QED
        BY <4>1 DEF IInv, SnapInv
    <3>. QED
      BY <3>1, <3>2
  <2>3. ASSUME NEW x \in Metrics, NEW y \in Metrics, Leads(x, y),
               NEW t \in Savers, pc'[t] \in {"open", "write", "rename"}
        PROVE  snap'[t][y] <= snap'[t][x]
    <3>1. CASE t = s
      <4>1. snap'[s][x] = mem[x]
        BY <2>1, <2>3 DEF Leads
      <4>2. snap'[s][y] <= mem[y] /\ mem[y] <= mem[x]
        BY <2>2, <2>3, LeadsInMemory
      <4>3. snap'[s][y] \in Nat /\ mem[y] \in Nat /\ mem[x] \in Nat
        BY DEF Typed, TypeOK, Versions
      <4>. QED
        BY <3>1, <4>1, <4>2, <4>3
    <3>2. CASE t # s
      BY <2>1, <2>3, <3>2 DEF LeadInv
    <3>. QED
      BY <3>1, <3>2
  <2>. QED
    BY <1>u, <1>d, <2>1, <2>3, LeadSame
<1>4. CASE OpenTemp(s) \/ WriteTemp(s)
  <2>1. /\ pc[s] \in {"open", "write"} /\ file' = file /\ snap' = snap
        /\ \A t \in Savers \ {s} : pc'[t] = pc[t]
    BY <1>4, Shapes DEF OpenTemp, WriteTemp
  <2>2. ASSUME NEW x \in Metrics, NEW y \in Metrics, Leads(x, y),
               NEW t \in Savers, pc'[t] \in {"open", "write", "rename"}
        PROVE  snap'[t][y] <= snap'[t][x]
    <3>1. pc[t] \in {"open", "write", "rename"}
      BY <2>1, <2>2
    <3>. QED
      BY <2>1, <2>2, <3>1 DEF LeadInv
  <2>. QED
    BY <1>u, <1>d, <2>1, <2>2, LeadSame
<1>5. CASE WriteFails(s) \/ RenameFails(s)
  <2>1. file' = file /\ \E e : SaveError(s, e)
    BY <1>5 DEF WriteFails, RenameFails
  <2>. QED
    BY <1>o, <2>1, ErrorDropsSnap
<1>6. CASE RenameTemp(s)
  <2>1. pc[s] = "rename" /\ Disk' = snap[s]
    BY <1>6, SnapshotInMemory DEF RenameTemp
  <2>2. /\ pc'[s] \in {"idle", "done"}
        /\ \A t \in Savers \ {s} : pc'[t] = pc[t] /\ snap'[t] = snap[t]
    BY <1>6, Shapes DEF RenameTemp, Return, ReturnToCaller
  <2>3. ASSUME NEW x \in Metrics, NEW y \in Metrics, Leads(x, y)
        PROVE  Disk'[y] <= Disk'[x]
    BY <2>1, <2>3 DEF LeadInv
  <2>4. ASSUME NEW x \in Metrics, NEW y \in Metrics, Leads(x, y),
               NEW t \in Savers, pc'[t] \in {"open", "write", "rename"}
        PROVE  snap'[t][y] <= snap'[t][x]
    BY <2>2, <2>4 DEF LeadInv
  <2>. QED
    BY <1>u, <2>3, <2>4, LeadSame
<1>. QED
  BY <1>1, <1>2, <1>3, <1>4, <1>5, <1>6 DEF Saving

\* Steps of the others leave file and snapshots, except that nobody has one when
\* a process starts or ends.
LEMMA LeadOthers ==
  ASSUME LeadInv, file' = file,
         \A s \in Savers : pc'[s] \in {"open", "write", "rename"} =>
           pc[s] = pc'[s] /\ snap'[s] = snap[s],
         \A x, y \in Metrics : Leads(x, y) =>
           /\ \A h \in Handlers : Once(batch'[h], y)
           /\ \E n : IsSum(n, Credit(x, y)', Handlers) /\ mem'[y] + n <= mem'[x]
  PROVE  LeadInv'
<1>1. \A x, y \in Metrics : Leads(x, y)' <=> Leads(x, y)
  BY DEF Leads, Occurrences
<1>2. ASSUME NEW x \in Metrics, NEW y \in Metrics, Leads(x, y)
      PROVE  /\ Disk'[y] <= Disk'[x]
             /\ \A s \in Savers : pc'[s] \in {"open", "write", "rename"} =>
                  snap'[s][y] <= snap'[s][x]
  BY <1>2, SameFile DEF LeadInv
<1>. QED
  BY <1>1, <1>2 DEF LeadInv

\* So does every other step.
LEMMA OthersLead ==
  ASSUME Typed, Typed', IInv, CountInv, CountInv', LeadInv,
         \/ Starting
         \/ \E h \in Handlers : Requests(h) \/ ApplyNext(h)
         \/ Tick \/ StopTicker \/ Shutdown
         \/ Crash
  PROVE  LeadInv'
<1>. USE DEF save, disk, history
<1>n. \A m \in Metrics : mem[m] \in Nat /\ mem'[m] \in Nat /\ Disk[m] \in Nat
  BY DiskType DEF Typed, TypeOK, Versions
<1>1. CASE Starting
  <2>1. /\ phase # "serving" /\ UNCHANGED <<file, batch, pc>>
        /\ mem = Empty /\ (mem' = mem \/ mem' = Disk)
    BY <1>1, StartingLeaves
  <2>2. /\ \A h \in Handlers : batch[h] = <<>>
        /\ \A s \in Savers : pc[s] = "idle"
    BY <2>1 DEF CountInv, IInv, QuietInv
  <2>3. ASSUME NEW x \in Metrics, NEW y \in Metrics, Leads(x, y)
        PROVE  /\ \A h \in Handlers : Once(batch'[h], y)
               /\ IsSum(0, Credit(x, y)', Handlers) /\ mem'[y] + 0 <= mem'[x]
    <3>1. Credit(x, y)' = Credit(x, y)
      BY <2>1 DEF Credit
    <3>2. mem'[y] + 0 <= mem'[x]
      BY <1>n, <2>1, <2>3 DEF LeadInv, Empty
    <3>. QED
      BY <2>1, <2>2, <2>3, <3>1, <3>2, NoCredit
  <2>4. \A s \in Savers : pc'[s] \notin {"open", "write", "rename"}
    BY <2>1, <2>2
  <2>. QED
    BY <2>1, <2>3, <2>4, LeadOthers
<1>2. ASSUME NEW h \in Handlers, NEW k \in Singles, UpdateMetric(h, k)
      PROVE  LeadInv'
  <2>1. /\ UNCHANGED <<file, batch, snap>> /\ mem' = [mem EXCEPT ![k] = @ + 1]
        /\ pc' = pc \/ pc' = [pc EXCEPT ![h] = "lock"]
    BY <1>2 DEF UpdateMetric, CallSave
  <2>2. \A s \in Savers : pc'[s] \in {"open", "write", "rename"} => pc[s] = pc'[s]
    BY <2>1, Shapes
  <2>3. ASSUME NEW x \in Metrics, NEW y \in Metrics, Leads(x, y)
        PROVE  /\ \A g \in Handlers : Once(batch'[g], y)
               /\ \E n : IsSum(n, Credit(x, y)', Handlers) /\ mem'[y] + n <= mem'[x]
    <3>1. PICK n : IsSum(n, Credit(x, y), Handlers) /\ mem[y] + n <= mem[x]
      BY <2>3 DEF LeadInv
    <3>2. n \in Nat /\ Credit(x, y)' = Credit(x, y)
      BY <2>1, <3>1, CreditType DEF Credit
    <3>3. y # k /\ mem'[y] = mem[y] /\ mem[x] <= mem'[x]
      <4>1. y # k /\ mem \in [Metrics -> Nat]
        BY <2>3 DEF Leads, Typed, TypeOK, Versions
      <4>. QED
        BY <1>n, <2>1, <4>1
    <3>4. mem'[y] + n <= mem'[x]
      BY <1>n, <3>1, <3>2, <3>3
    <3>. QED
      BY <2>1, <2>3, <3>1, <3>2, <3>4 DEF LeadInv
  <2>. QED
    BY <2>1, <2>2, <2>3, LeadOthers
<1>3. ASSUME NEW h \in Handlers, NEW b \in Batches, StartBatch(h, b)
      PROVE  LeadInv'
  <2>1. /\ UNCHANGED <<file, mem, snap>> /\ pc' = [pc EXCEPT ![h] = "batch"]
        /\ batch' = [batch EXCEPT ![h] = b]
    BY <1>3 DEF StartBatch
  <2>2. batch'[h] = b /\ \A g \in Handlers \ {h} : batch'[g] = batch[g]
    BY <2>1 DEF Typed, TypeOK
  <2>3. \A s \in Savers : pc'[s] \in {"open", "write", "rename"} => pc[s] = pc'[s]
    BY <2>1, Shapes
  <2>4. ASSUME NEW x \in Metrics, NEW y \in Metrics, Leads(x, y)
        PROVE  /\ \A g \in Handlers : Once(batch'[g], y)
               /\ \E n : IsSum(n, Credit(x, y)', Handlers) /\ mem'[y] + n <= mem'[x]
    <3>1. PICK n : IsSum(n, Credit(x, y), Handlers) /\ mem[y] + n <= mem[x]
      BY <2>4 DEF LeadInv
    <3>. DEFINE p == IF Owed(batch'[h], x, y) THEN 1 ELSE 0
                o == IF Owed(batch[h], x, y) THEN 1 ELSE 0
    <3>2. IsSum(n + p - o, Credit(x, y)', Handlers)
      BY <2>2, <3>1, CreditStep
    <3>3. p = 0 /\ o \in {0, 1} /\ n \in Nat
      BY <2>2, <2>4, <3>1, NothingOwed, CreditType
    <3>4. mem'[y] + (n + p - o) <= mem'[x]
      <4>. HIDE DEF p, o
      <4>. QED
        BY <1>n, <2>1, <3>1, <3>3
    <3>5. \A g \in Handlers : Once(batch'[g], y)
      BY <2>2, <2>4, NothingOwed DEF LeadInv
    <3>. QED
      BY <3>2, <3>4, <3>5
  <2>. QED
    BY <2>1, <2>3, <2>4, LeadOthers
<1>4. ASSUME NEW h \in Handlers, ApplyNext(h)
      PROVE  LeadInv'
  <2>1. /\ pc[h] = "batch" /\ UNCHANGED <<file, snap>>
        /\ mem' = [mem EXCEPT ![Head(batch[h])] = @ + 1]
        /\ batch' = [batch EXCEPT ![h] = Tail(@)]
        /\ pc' = pc \/ pc' = [pc EXCEPT ![h] = "idle"]
    BY <1>4 DEF ApplyNext
  <2>2. /\ h \in Savers /\ batch[h] \in Seq(Metrics) /\ batch[h] # <<>>
        /\ batch'[h] = Tail(batch[h]) /\ \A g \in Handlers \ {h} : batch'[g] = batch[g]
    BY <2>1 DEF Savers, Typed, TypeOK, BatchShape
  <2>3. \A s \in Savers : pc'[s] \in {"open", "write", "rename"} => pc[s] = pc'[s]
    BY <2>1, Shapes
  <2>4. ASSUME NEW x \in Metrics, NEW y \in Metrics, Leads(x, y)
        PROVE  /\ \A g \in Handlers : Once(batch'[g], y)
               /\ \E n : IsSum(n, Credit(x, y)', Handlers) /\ mem'[y] + n <= mem'[x]
    <3>1. PICK n : IsSum(n, Credit(x, y), Handlers) /\ mem[y] + n <= mem[x]
      BY <2>4 DEF LeadInv
    <3>. DEFINE p == IF Owed(batch'[h], x, y) THEN 1 ELSE 0
                o == IF Owed(batch[h], x, y) THEN 1 ELSE 0
                z == Head(batch[h])
    <3>2. IsSum(n + p - o, Credit(x, y)', Handlers)
      BY <2>2, <3>1, CreditStep
    <3>3. x # y /\ Once(batch[h], y) /\ n \in Nat
      BY <2>4, <3>1, CreditType DEF Leads, LeadInv
    <3>4. /\ Once(Tail(batch[h]), y)
          /\ z = x => ~Owed(batch[h], x, y)
          /\ z = y => Owed(batch[h], x, y) /\ ~Owed(Tail(batch[h]), x, y)
          /\ z \notin {x, y} => (Owed(batch[h], x, y) <=> Owed(Tail(batch[h]), x, y))
      BY <2>2, <3>3, OwedTail
    <3>5. /\ z = x => o = 0 /\ p \in {0, 1}
          /\ z = y => o = 1 /\ p = 0
          /\ z \notin {x, y} => o = p
          /\ o \in {0, 1}
      <4>. HIDE DEF z
      <4>. QED
        BY <2>2, <3>4
    <3>6. /\ mem'[x] = (IF z = x THEN mem[x] + 1 ELSE mem[x])
          /\ mem'[y] = (IF z = y THEN mem[y] + 1 ELSE mem[y])
      <4>1. mem \in [Metrics -> Nat]
        BY DEF Typed, TypeOK, Versions
      <4>. QED
        BY <2>1, <4>1
    <3>7. mem'[y] + (n + p - o) <= mem'[x]
      <4>. HIDE DEF p, o, z
      <4>. QED
        BY <1>n, <3>1, <3>3, <3>5, <3>6
    <3>8. \A g \in Handlers : Once(batch'[g], y)
      BY <2>2, <2>4, <3>4 DEF LeadInv
    <3>. QED
      BY <3>2, <3>7, <3>8
  <2>. QED
    BY <2>1, <2>3, <2>4, LeadOthers
<1>5. CASE Tick \/ StopTicker \/ Shutdown
  <2>1. /\ UNCHANGED <<mem, file, batch, snap>>
        /\ \A s \in Savers : pc'[s] \in {"open", "write", "rename"} => pc[s] = pc'[s]
    BY <1>5, Shapes DEF Tick, StopTicker, Shutdown, CallSave
  <2>2. \A x, y \in Metrics : Leads(x, y) =>
          /\ Disk'[y] <= Disk'[x]
          /\ \A s \in Savers : pc'[s] \in {"open", "write", "rename"} => snap'[s][y] <= snap'[s][x]
    BY <2>1, SameFile DEF LeadInv
  <2>. QED
    BY <2>1, <2>2, LeadSame
<1>6. CASE Crash
  <2>1. /\ mem' = Empty /\ batch' = [h \in Handlers |-> <<>>] /\ file' = file
        /\ pc' = [s \in Savers |-> "idle"]
    BY <1>6 DEF Crash, ProcessEnds
  <2>2. \A s \in Savers : pc'[s] \notin {"open", "write", "rename"}
    BY <2>1
  <2>3. ASSUME NEW x \in Metrics, NEW y \in Metrics, Leads(x, y)
        PROVE  /\ \A h \in Handlers : Once(batch'[h], y)
               /\ IsSum(0, Credit(x, y)', Handlers) /\ mem'[y] + 0 <= mem'[x]
    <3>1. \A h \in Handlers : batch'[h] = <<>>
      BY <2>1
    <3>2. \A h \in Handlers : Credit(x, y)'[h] = 0
      BY <2>3, <3>1, NothingOwed DEF Credit
    <3>3. mem'[y] + 0 <= mem'[x]
      BY <2>1 DEF Empty
    <3>. QED
      BY <2>3, <3>1, <3>2, <3>3, ZeroSum, NothingOwed
  <2>. QED
    BY <2>1, <2>2, <2>3, LeadOthers
<1>. QED
  BY <1>1, <1>2, <1>3, <1>4, <1>5, <1>6 DEF Requests

\* A counter that every batch updates before another metric stays ahead of it on
\* disk, though saves overlap batches, fail, are retried and cut off by crashes.
THEOREM LeadSurvivesSaves == Spec => []CounterLeads
<1>1. Init => LeadInv
  <2>. SUFFICES ASSUME Init PROVE LeadInv
    OBVIOUS
  <2>1. /\ \A h \in Handlers : batch[h] = <<>>
        /\ \A s \in Savers : pc[s] \notin {"open", "write", "rename"}
    BY DEF Init
  <2>2. \A m \in Metrics : mem[m] = 0 /\ Disk[m] = 0
    BY FileStorageAssumption DEF Init, Empty, Disk
  <2>3. \A x, y \in Metrics : mem[y] + 0 <= mem[x] /\ Disk[y] <= Disk[x]
    BY <2>2
  <2>. QED
    BY <2>1, <2>3, NoCredit DEF LeadInv
<1>2. Typed /\ Typed' /\ IInv /\ CountInv /\ CountInv' /\ LeadInv /\ [Next]_vars => LeadInv'
  <2>1. ASSUME LeadInv, UNCHANGED vars
        PROVE  LeadInv'
    <3>1. UNCHANGED <<mem, batch, pc, snap>> /\ Disk' = Disk
      BY <2>1, SameFile DEF vars, disk, save
    <3>2. \A x, y \in Metrics : Leads(x, y) =>
            /\ Disk'[y] <= Disk'[x]
            /\ \A s \in Savers : pc'[s] \in {"open", "write", "rename"} => snap'[s][y] <= snap'[s][x]
      BY <2>1, <3>1 DEF LeadInv
    <3>. QED
      BY <2>1, <3>1, <3>2, LeadSame
  <2>. QED
    BY <2>1, SavingLeads, OthersLead DEF Next
<1>3. LeadInv => CounterLeads
  BY DEF LeadInv, CounterLeads
<1>. QED
  BY <1>1, <1>2, <1>3, TypedAlways, Invariant, CountAlways, PTL DEF Spec

-----------------------------------------------------------------------------
(* With a store interval of 0 nothing stays unsaved.                       *)

\* What s has gathered is what memory holds.
Fresh(s) == \A m \in Metrics : Gathered(s, m) => snap[s][m] = mem[m]

\* Some handler is about to save what it has put in memory.
HandlerWaits == \E h \in Handlers : pc[h] = "lock"

\* Without batches, memory grows only by handlers that then save it: the snapshot
\* of the save that runs is up to date or another save follows, and so is the
\* file, unless the last save failed.
IdleInv ==
  /\ \A s \in Savers : pc[s] # "batch"
  /\ \A s \in Savers : pc[s] \in Critical => Fresh(s) \/ HandlerWaits
  /\ phase = "serving" /\ ~amnesia =>
       Disk = mem \/ ~lastSaveOK \/ \E h \in Handlers : pc[h] # "idle"

\* s gets into the critical section or goes on in it.
LEMMA CriticalIdle ==
  ASSUME Typed, IInv', IdleInv, NEW s \in Savers, pc[s] # "idle", pc'[s] \in Critical,
         \A t \in Savers \ {s} : pc'[t] = pc[t], Fresh(s)' \/ HandlerWaits',
         UNCHANGED <<phase, mem, file, amnesia, lastSaveOK>>
  PROVE  IdleInv'
<1>1. \A t \in Savers : pc'[t] # "batch"
  BY DEF IdleInv, Critical
<1>2. ASSUME NEW t \in Savers, pc'[t] \in Critical
      PROVE  t = s
  BY <1>2 DEF IInv, MutexInv
<1>3. (\E h \in Handlers : pc[h] # "idle") => \E h \in Handlers : pc'[h] # "idle"
  <2>1. pc'[s] # "idle"
    BY DEF Critical
  <2>. QED
    BY <2>1 DEF Savers
<1>4. (phase = "serving" /\ ~amnesia =>
         Disk = mem \/ ~lastSaveOK \/ \E h \in Handlers : pc[h] # "idle")'
  BY <1>3, SameFile DEF IdleInv
<1>. QED
  BY <1>1, <1>2, <1>4 DEF IdleInv

\* s returns.
LEMMA ReturnIdle ==
  ASSUME Typed, IInv, IdleInv, NEW s \in Savers, pc[s] \in Critical, NEW ok \in BOOLEAN,
         Return(s, ok), UNCHANGED <<phase, mem, amnesia>>,
         ok => Disk' = mem \/ HandlerWaits
  PROVE  IdleInv'
<1>. USE Shapes
<1>1. /\ pc' = [pc EXCEPT ![s] = ReturnToCaller(s, ok)] /\ lastSaveOK' = ok
      /\ ReturnToCaller(s, ok) \in {"idle", "done"}
  BY DEF Return, ReturnToCaller
<1>2. \A t \in Savers : pc'[t] # "batch" /\ pc'[t] \notin Critical
  <2>1. \A t \in Savers \ {s} : pc[t] \notin Critical
    BY DEF IInv, MutexInv
  <2>. QED
    BY <1>1, <2>1 DEF IdleInv, Critical
<1>3. HandlerWaits => \E h \in Handlers : pc'[h] # "idle"
  BY <1>1 DEF HandlerWaits, Critical, Savers
<1>. QED
  BY <1>1, <1>2, <1>3 DEF IdleInv

\* The steps of SaveToFile.
LEMMA SavingIdle ==
  ASSUME Typed, Typed', IInv, IInv', IdleInv, NEW s \in Savers, Saving(s)
  PROVE  IdleInv'
<1>. USE Shapes DEF save, disk, history
<1>u. UNCHANGED <<phase, mem>>
  BY SavingLeaves
<1>b. ASSUME NEW i, BeginAttempt(s, i)
      PROVE  pc'[s] \in Critical /\ Fresh(s)' /\ \A t \in Savers \ {s} : pc'[t] = pc[t]
  <2>1. pc'[s] = "gauges" /\ unread'[s] = Gauges /\ \A t \in Savers \ {s} : pc'[t] = pc[t]
    BY <1>b DEF BeginAttempt
  <2>. QED
    BY <2>1 DEF Fresh, Gathered, Critical
<1>e. ASSUME NEW e, SaveError(s, e), pc[s] \in Critical, UNCHANGED <<file, amnesia>>
      PROVE  IdleInv'
  <2>1. CASE BeginAttempt(s, attempt[s] + 1) /\ UNCHANGED lastSaveOK
    <3>1. pc[s] # "idle"
      BY <1>e DEF Critical
    <3>. QED
      BY <1>u, <1>e, <1>b, <2>1, <3>1, CriticalIdle
  <2>2. CASE Return(s, FALSE)
    BY <1>u, <1>e, <2>2, ReturnIdle
  <2>. QED
    BY <1>e, <2>1, <2>2 DEF SaveError
<1>1. CASE LockStore(s)
  <2>1. pc[s] = "lock" /\ BeginAttempt(s, 0) /\ UNCHANGED <<file, amnesia, lastSaveOK>>
    BY <1>1 DEF LockStore
  <2>. QED
    BY <1>u, <1>b, <2>1, CriticalIdle
<1>2. ASSUME NEW g \in Gauges, ReadGauge(s, g)
      PROVE  IdleInv'
  <2>1. /\ pc[s] = "gauges" /\ unread' = [unread EXCEPT ![s] = @ \ {g}]
        /\ snap' = [snap EXCEPT ![s][g] = mem[g]]
        /\ UNCHANGED <<file, pc, amnesia, lastSaveOK>>
    BY <1>2 DEF ReadGauge
  <2>2. Fresh(s) \/ HandlerWaits
    BY <2>1 DEF IdleInv, Critical
  <2>3. Fresh(s) => Fresh(s)'
    <3>. SUFFICES ASSUME Fresh(s), NEW m \in Metrics, Gathered(s, m)'
                  PROVE  snap'[s][m] = mem'[m]
      BY DEF Fresh
    <3>1. m = g \/ Gathered(s, m)
      BY <2>1 DEF Gathered
    <3>2. snap'[s] = [snap[s] EXCEPT ![g] = mem[g]] /\ snap[s] \in [Metrics -> Nat]
      BY <2>1 DEF Versions
    <3>. QED
      BY <1>u, <3>1, <3>2 DEF Fresh
  <2>. QED
    BY <1>u, <2>1, <2>2, <2>3, CriticalIdle DEF HandlerWaits, Critical
<1>3. CASE ReadCounters(s)
  <2>1. /\ pc[s] = "gauges" /\ unread[s] = {} /\ pc' = [pc EXCEPT ![s] = "open"]
        /\ snap' = [snap EXCEPT ![s] = [m \in Metrics |->
                                   IF m \in Counters THEN mem[m] ELSE snap[s][m]]]
        /\ UNCHANGED <<file, amnesia, lastSaveOK>>
    BY <1>3 DEF ReadCounters
  <2>2. Fresh(s) \/ HandlerWaits
    BY <2>1 DEF IdleInv, Critical
  <2>3. Fresh(s) => Fresh(s)'
    <3>. SUFFICES ASSUME Fresh(s), NEW m \in Metrics
                  PROVE  snap'[s][m] = mem'[m]
      BY DEF Fresh
    <3>1. m \notin Counters => Gathered(s, m)
      BY <2>1 DEF Gathered, Metrics
    <3>. QED
      BY <1>u, <2>1, <3>1 DEF Fresh
  <2>4. HandlerWaits => HandlerWaits'
    BY <2>1 DEF HandlerWaits, Savers
  <2>5. pc'[s] = "open" /\ \A t \in Savers \ {s} : pc'[t] = pc[t]
    BY <2>1
  <2>. QED
    BY <1>u, <2>1, <2>2, <2>3, <2>4, <2>5, CriticalIdle DEF Critical
<1>4. CASE OpenTemp(s) \/ WriteTemp(s)
  <2>1. /\ pc[s] \in {"open", "write"} /\ pc'[s] \in {"write", "rename"}
        /\ \A t \in Savers \ {s} : pc'[t] = pc[t]
        /\ UNCHANGED <<file, snap, amnesia, lastSaveOK>>
    BY <1>4 DEF OpenTemp, WriteTemp
  <2>2. Fresh(s) \/ HandlerWaits
    BY <2>1 DEF IdleInv, Critical
  <2>3. Fresh(s) => Fresh(s)'
    BY <1>u, <2>1 DEF Fresh, Gathered
  <2>4. HandlerWaits => HandlerWaits'
    BY <2>1 DEF HandlerWaits, Savers
  <2>. QED
    BY <1>u, <2>1, <2>2, <2>3, <2>4, CriticalIdle DEF Critical
<1>5. CASE WriteFails(s) \/ RenameFails(s)
  <2>1. /\ pc[s] \in Critical /\ UNCHANGED <<file, amnesia>>
        /\ \E e : SaveError(s, e)
    BY <1>5 DEF WriteFails, RenameFails, Critical
  <2>. QED
    BY <1>e, <2>1
<1>6. CASE RenameTemp(s)
  <2>1. pc[s] = "rename" /\ pc[s] \in Critical /\ Return(s, TRUE) /\ UNCHANGED amnesia
    BY <1>6 DEF RenameTemp, Critical
  <2>2. Disk' = snap[s]
    BY <1>6, SnapshotInMemory
  <2>3. Fresh(s) => snap[s] = mem
    <3>1. \A m \in Metrics : Gathered(s, m)
      BY <2>1 DEF Gathered
    <3>2. snap[s] \in [Metrics -> Nat] /\ mem \in [Metrics -> Nat]
      BY DEF Typed, TypeOK, Versions
    <3>. QED
      BY <3>1, <3>2 DEF Fresh
  <2>. QED
    BY <1>u, <2>1, <2>2, <2>3, ReturnIdle DEF IdleInv
<1>. QED
  BY <1>1, <1>2, <1>3, <1>4, <1>5, <1>6 DEF Saving

\* The others' steps, when there are no batches and every update saves at once.
LEMMA OthersIdle ==
  ASSUME Batches = {}, StoreInterval = 0, Typed, Typed', IInv, IdleInv,
         \/ Starting
         \/ \E h \in Handlers : Requests(h) \/ ApplyNext(h)
         \/ Tick \/ StopTicker \/ Shutdown
         \/ Crash
  PROVE  IdleInv'
<1>. USE Shapes, FileStorageAssumption DEF save, disk, history
<1>d. file = NoFile => Disk = Empty
  BY DEF Disk
<1>1. CASE Starting
  <2>1. /\ phase # "serving" /\ UNCHANGED <<file, pc>> /\ mem = Empty
    BY <1>1, StartingLeaves
  <2>2. \A s \in Savers : pc'[s] = "idle"
    BY <2>1 DEF IInv, QuietInv
  <2>3. phase' = "serving" /\ ~amnesia' => Disk' = mem'
    <3>1. CASE Boot
      BY <1>d, <2>1, <3>1, SameFile DEF Boot
    <3>2. CASE Load
      BY <2>1, <3>2, SameFile, RestoredIsDisk DEF Load
    <3>3. CASE LoadFails
      <4>1. PICK e : LoadError(e)
        BY <3>3 DEF LoadFails, NoMetricsFile
      <4>2. mem' = Empty /\ phase \in {"down", "loading", "serving"} /\ Disk' = Disk
        BY <2>1, <3>3, SameFile DEF LoadFails, Typed, TypeOK
      <4>3. CASE UNCHANGED phase
        BY <2>1, <4>3
      <4>4. CASE amnesia' = (amnesia \/ file # NoFile)
        BY <1>d, <4>2, <4>4
      <4>. QED
        BY <4>1, <4>3, <4>4 DEF LoadError
    <3>. QED
      BY <1>1, <3>1, <3>2, <3>3 DEF Starting
  <2>. QED
    BY <2>2, <2>3 DEF IdleInv, Critical
<1>2. ASSUME NEW h \in Handlers, NEW m \in Singles, UpdateMetric(h, m)
      PROVE  IdleInv'
  <2>1. pc' = [pc EXCEPT ![h] = "lock"] /\ h \in Savers
    BY <1>2 DEF UpdateMetric, SavesAtOnce, CallSave, Savers
  <2>2. HandlerWaits' /\ \A s \in Savers : pc'[s] # "batch"
    BY <2>1 DEF HandlerWaits, IdleInv
  <2>. QED
    BY <2>2 DEF IdleInv, HandlerWaits
<1>3. CASE Tick \/ StopTicker
  BY <1>3 DEF Tick, StopTicker
<1>4. CASE Shutdown
  <2>1. /\ pc[Stopper] = "idle" /\ pc' = [pc EXCEPT ![Stopper] = "lock"]
        /\ UNCHANGED <<phase, mem, file, unread, snap, amnesia, lastSaveOK>>
    BY <1>4 DEF Shutdown, CallSave
  <2>2. \A s \in Savers : pc'[s] # "batch" /\ (pc'[s] \in Critical => pc[s] = pc'[s])
    BY <2>1 DEF IdleInv, Critical
  <2>3. \A h \in Handlers : pc'[h] = pc[h]
    BY <2>1 DEF Savers
  <2>4. \A s \in Savers : pc'[s] \in Critical => (Fresh(s) => Fresh(s)')
    BY <2>1, <2>2 DEF Fresh, Gathered
  <2>5. HandlerWaits => HandlerWaits'
    BY <2>3 DEF HandlerWaits
  <2>6. (phase = "serving" /\ ~amnesia =>
           Disk = mem \/ ~lastSaveOK \/ \E h \in Handlers : pc[h] # "idle")'
    BY <2>1, <2>3, SameFile DEF IdleInv
  <2>. QED
    BY <2>2, <2>4, <2>5, <2>6 DEF IdleInv
<1>5. CASE Crash
  BY <1>5 DEF Crash, ProcessEnds, IdleInv, Critical
<1>6. ASSUME NEW h \in Handlers, ApplyNext(h)
      PROVE  FALSE
  BY <1>6 DEF ApplyNext, IdleInv, Savers
<1>. QED
  BY <1>1, <1>2, <1>3, <1>4, <1>5, <1>6 DEF Requests

\* With a store interval of 0 ("to save on each update", file_storage_test.go:20)
\* and no batch requests, which save nothing, all that is in memory is on disk
\* when no request is being served, if the last save to return succeeded.
THEOREM IdleIsSaved ==
  ASSUME Batches = {}
  PROVE  Spec => []IdleMeansSaved
<1>1. CASE StoreInterval = 0
  <2>1. Init => IdleInv
    <3>1. Init => \A s \in Savers : pc[s] = "idle"
      BY DEF Init
    <3>. QED
      BY <3>1 DEF Init, IdleInv, Critical
  <2>2. Typed /\ Typed' /\ IInv /\ IInv' /\ IdleInv /\ [Next]_vars => IdleInv'
    <3>1. ASSUME IdleInv, UNCHANGED vars
          PROVE  IdleInv'
      <4>1. UNCHANGED <<phase, mem, pc, unread, snap, amnesia, lastSaveOK>> /\ Disk' = Disk
        BY <3>1, SameFile DEF vars, disk, save, history
      <4>2. \A s \in Savers : Fresh(s)' <=> Fresh(s)
        BY <4>1 DEF Fresh, Gathered
      <4>. QED
        BY <3>1, <4>1, <4>2 DEF IdleInv, HandlerWaits
    <3>. QED
      BY <1>1, <3>1, SavingIdle, OthersIdle DEF Next
  <2>3. IdleInv => IdleMeansSaved
    BY DEF IdleInv, IdleMeansSaved
  <2>. QED
    BY <2>1, <2>2, <2>3, TypedAlways, Invariant, PTL DEF Spec
<1>2. CASE StoreInterval # 0
  <2>1. IdleMeansSaved
    BY <1>2 DEF IdleMeansSaved
  <2>. QED
    BY <2>1, PTL
<1>. QED
  BY <1>1, <1>2
=============================================================================
