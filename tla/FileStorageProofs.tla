------------------------- MODULE FileStorageProofs -------------------------
(***************************************************************************)
(* What FileStorage guarantees for every set of handlers, gauges, counters *)
(* and batches, every store interval and any number of updates, failing    *)
(* file operations, crashes and restarts: TLC's bounds are constants here  *)
(* and the proofs use nothing of them but their types.                     *)
(***************************************************************************)
EXTENDS FileStorage, FiniteSetTheorems, SequenceTheorems, TLAPS

-----------------------------------------------------------------------------
(* Types.  TypeOK needs to know who applies a batch and that some of it is *)
(* left, so that Head and Tail are defined.                                *)

BatchShape ==
  \A s \in Savers : pc[s] = "batch" => s \in Handlers /\ batch[s] # <<>>

Typed == TypeOK /\ BatchShape

\* A batch contains a metric a natural number of times.
LEMMA OccurrencesType ==
  ASSUME NEW b \in Seq(Metrics), NEW m \in Metrics
  PROVE  Occurrences(b, m) \in Nat
<1>1. IsFiniteSet(1..Len(b))
  BY FS_Interval
<1>2. IsFiniteSet({i \in 1..Len(b) : b[i] = m})
  BY <1>1, FS_Subset
<1>. QED
  BY <1>2, FS_CardinalityType DEF Occurrences

\* What is on disk is a version of every metric, whatever the file holds.
LEMMA DiskType == Disk \in Versions
BY DEF Disk, Versions, Empty

\* The larger of two versions, metric by metric, is a version.
LEMMA LargerType ==
  ASSUME NEW a \in Versions, NEW b \in Versions
  PROVE  Larger(a, b) \in Versions
BY DEF Larger, Versions

\* One more update of a metric leaves versions.
LEMMA IncrementType ==
  ASSUME NEW v \in Versions, NEW m \in Metrics
  PROVE  [v EXCEPT ![m] = @ + 1] \in Versions
BY DEF Versions

\* The empty memory is a version of every metric.
LEMMA EmptyType == Empty \in Versions
BY DEF Empty, Versions

\* Tail of a batch of several metrics leaves some of them.
LEMMA TailLeft ==
  ASSUME NEW b \in Seq(Metrics), b # <<>>, Len(b) # 1
  PROVE  Tail(b) # <<>>
<1>1. Len(b) \in Nat /\ Len(b) # 0
  BY EmptySeq
<1>2. Len(Tail(b)) = Len(b) - 1
  BY HeadTailProperties
<1>3. Len(Tail(b)) # 0
  BY <1>1, <1>2
<1>4. Tail(b) = <<>> => Len(Tail(b)) = 0
  BY EmptySeq
<1>. QED
  BY <1>3, <1>4

\* The steps of SaveToFile keep the types.
LEMMA SavingTyped ==
  ASSUME Typed, NEW s \in Savers, Saving(s)
  PROVE  Typed'
<1>. USE FileStorageAssumption, BackoffsAssumption
     DEF Typed, TypeOK, BatchShape, save, disk, history
<1>e. Empty \in Versions
  BY EmptyType
<1>l. Larger(promised, due[s]) \in Versions
  BY LargerType
<1>r. ASSUME NEW ok \in BOOLEAN, Return(s, ok), batch' = batch
      PROVE  /\ pc' \in [Savers -> {"idle", "batch", "lock", "gauges", "open", "write",
                                    "rename", "done", "exited"}]
             /\ storeMutex' \in Savers \cup {NoOne}
             /\ unread' \in [Savers -> SUBSET Gauges]
             /\ snap' \in [Savers -> Versions]
             /\ attempt' \in [Savers \cup {Main} -> 0..Backoffs]
             /\ due' \in [Savers -> Versions]
             /\ promised' \in Versions /\ lastSaveOK' \in BOOLEAN
             /\ BatchShape'
  BY <1>r, <1>e, <1>l DEF Return, Unlock, ReturnToCaller
<1>b. ASSUME NEW i \in 0..Backoffs, BeginAttempt(s, i), batch' = batch
      PROVE  /\ pc' \in [Savers -> {"idle", "batch", "lock", "gauges", "open", "write",
                                    "rename", "done", "exited"}]
             /\ unread' \in [Savers -> SUBSET Gauges]
             /\ snap' \in [Savers -> Versions]
             /\ attempt' \in [Savers \cup {Main} -> 0..Backoffs]
             /\ due' \in [Savers -> Versions]
             /\ BatchShape'
  BY <1>b, <1>e DEF BeginAttempt
<1>s. ASSUME NEW e, SaveError(s, e), batch' = batch
      PROVE  /\ pc' \in [Savers -> {"idle", "batch", "lock", "gauges", "open", "write",
                                    "rename", "done", "exited"}]
             /\ storeMutex' \in Savers \cup {NoOne}
             /\ unread' \in [Savers -> SUBSET Gauges]
             /\ snap' \in [Savers -> Versions]
             /\ attempt' \in [Savers \cup {Main} -> 0..Backoffs]
             /\ due' \in [Savers -> Versions]
             /\ promised' \in Versions /\ lastSaveOK' \in BOOLEAN
             /\ BatchShape'
  <2>1. CASE ShouldRetry(e, attempt[s]) /\ BeginAttempt(s, attempt[s] + 1)
             /\ UNCHANGED <<storeMutex, promised, lastSaveOK>>
    <3>1. attempt[s] + 1 \in 0..Backoffs
      BY <2>1 DEF ShouldRetry
    <3>2. attempt[s] + 1 \in 0..Backoffs /\ BeginAttempt(s, attempt[s] + 1)
      BY <2>1, <3>1
    <3>. QED
      BY <1>b, <1>s, <2>1, <3>2
  <2>2. CASE Return(s, FALSE)
    BY <1>r, <1>s, <2>2
  <2>. QED
    BY <1>s, <2>1, <2>2 DEF SaveError
<1>1. CASE LockStore(s)
  <2>1. 0 \in 0..Backoffs /\ BeginAttempt(s, 0) /\ batch' = batch
    BY <1>1 DEF LockStore
  <2>. QED
    BY <1>1, <1>b, <2>1 DEF LockStore
<1>2. ASSUME NEW g \in Gauges, ReadGauge(s, g)
      PROVE  Typed'
  BY <1>2 DEF ReadGauge, Versions, Metrics
<1>3. CASE ReadCounters(s)
  BY <1>3, ZenonT(30) DEF ReadCounters, Versions
<1>4. CASE OpenTemp(s)
  BY <1>4 DEF OpenTemp
<1>5. CASE WriteTemp(s)
  BY <1>5 DEF WriteTemp
<1>6. CASE WriteFails(s)
  <2>1. PICK e \in {FileBusy, FileFailed} : SaveError(s, e)
    BY <1>6 DEF WriteFails
  <2>. QED
    BY <1>6, <1>s, <2>1 DEF WriteFails, Fault
<1>7. CASE RenameTemp(s)
  BY <1>7, <1>r DEF RenameTemp
<1>8. CASE RenameFails(s)
  <2>1. PICK e \in {LinkBusy, LinkTimedOut} : SaveError(s, e)
    BY <1>8 DEF RenameFails
  <2>2. /\ tmp' \in Versions \cup {NoFile, Torn}
        /\ faults' \in Nat
        /\ UNCHANGED <<phase, mem, file, batch, stopped, issued, amnesia>>
    BY <1>8 DEF RenameFails, Fault
  <2>3. batch' = batch
    BY <2>2
  <2>. QED
    BY <1>s, <2>1, <2>2, <2>3
<1>. QED
  BY <1>1, <1>2, <1>3, <1>4, <1>5, <1>6, <1>7, <1>8 DEF Saving

\* So do the steps of everyone else.
LEMMA OthersTyped ==
  ASSUME Typed,
         \/ Starting
         \/ \E h \in Handlers : Requests(h) \/ ApplyNext(h)
         \/ Tick \/ StopTicker \/ Shutdown
         \/ Crash
  PROVE  Typed'
<1>. USE FileStorageAssumption, BackoffsAssumption
     DEF Typed, TypeOK, BatchShape, save, disk, history
<1>e. Empty \in Versions
  BY EmptyType
<1>1. CASE Boot
  BY <1>1 DEF Boot
<1>2. CASE Load
  <2>1. mem' \in Versions
    <3>1. Restored \in Versions
      <4>1. mem \in Versions
        OBVIOUS
      <4>. HIDE DEF Typed, TypeOK
      <4>. QED
        BY <4>1, DiskType DEF Restored, Versions
    <3>. QED
      BY <1>2, <3>1 DEF Load
  <2>. QED
    BY <1>2, <2>1 DEF Load
<1>3. CASE LoadFails
  <2>1. PICK e : LoadError(e)
    BY <1>3 DEF LoadFails, NoMetricsFile
  <2>2. phase' \in {"down", "loading", "serving"} /\ amnesia' \in BOOLEAN
    BY <2>1 DEF LoadError
  <2>3. attempt' \in [Savers \cup {Main} -> 0..Backoffs]
    BY <2>1 DEF LoadError, ShouldRetry
  <2>4. faults' \in Nat
    BY <1>3 DEF LoadFails, NoMetricsFile, Fault
  <2>5. UNCHANGED <<mem, disk, pc, batch, storeMutex, stopped, unread, snap, due,
                    issued, promised, lastSaveOK>>
    BY <1>3 DEF LoadFails
  <2>. QED
    BY <2>2, <2>3, <2>4, <2>5
<1>4. ASSUME NEW h \in Handlers, NEW m \in Singles, UpdateMetric(h, m)
      PROVE  Typed'
  <2>1. m \in Metrics /\ h \in Savers
    BY DEF Savers
  <2>2. issued' \in Versions /\ mem' \in Versions
    BY <1>4, <2>1, IncrementType DEF UpdateMetric
  <2>3. /\ UNCHANGED <<phase, file, tmp, batch, storeMutex, stopped, unread, snap,
                       attempt, promised, amnesia, lastSaveOK, faults>>
        /\ \/ UNCHANGED <<pc, due>>
           \/ pc' = [pc EXCEPT ![h] = "lock"] /\ due' = [due EXCEPT ![h] = mem']
    BY <1>4 DEF UpdateMetric, CallSave
  <2>4. due' \in [Savers -> Versions]
    BY <2>1, <2>2, <2>3
  <2>. QED
    BY <2>1, <2>2, <2>3, <2>4
<1>5. ASSUME NEW h \in Handlers, NEW b \in Batches, StartBatch(h, b)
      PROVE  Typed'
  <2>1. b \in Seq(Metrics) /\ b # <<>>
    OBVIOUS
  <2>2. \A m \in Metrics : Occurrences(b, m) \in Nat
    BY <2>1, OccurrencesType
  <2>3. issued' \in Versions
    <3>1. issued \in Versions /\ issued' = [m \in Metrics |-> issued[m] + Occurrences(b, m)]
      BY <1>5 DEF StartBatch
    <3>. HIDE DEF Typed, TypeOK
    <3>. QED
      BY <2>2, <3>1 DEF Versions
  <2>. QED
    BY <1>5, <2>1, <2>3 DEF StartBatch, Savers
<1>6. ASSUME NEW h \in Handlers, ApplyNext(h)
      PROVE  Typed'
  <2>1. h \in Savers /\ batch[h] \in Seq(Metrics) /\ batch[h] # <<>>
    BY <1>6 DEF ApplyNext, Savers
  <2>2. mem' \in Versions
    <3>1. Head(batch[h]) \in Metrics
      BY <2>1, HeadTailProperties
    <3>2. mem \in Versions /\ mem' = [mem EXCEPT ![Head(batch[h])] = @ + 1]
      BY <1>6 DEF ApplyNext
    <3>. HIDE DEF Typed, TypeOK
    <3>. QED
      BY <3>1, <3>2, IncrementType
  <2>3. batch' \in [Handlers -> Seq(Metrics)]
    BY <1>6, <2>1 DEF ApplyNext
  <2>4. Len(batch[h]) # 1 => Tail(batch[h]) # <<>>
    BY <2>1, TailLeft
  <2>5. BatchShape'
    BY <1>6, <2>1, <2>4 DEF ApplyNext
  <2>6. pc' \in [Savers -> {"idle", "batch", "lock", "gauges", "open", "write",
                           "rename", "done", "exited"}]
    BY <1>6, <2>1 DEF ApplyNext
  <2>. QED
    BY <1>6, <2>2, <2>3, <2>5, <2>6 DEF ApplyNext
<1>7. CASE Tick
  BY <1>7 DEF Tick, CallSave, Savers
<1>8. CASE StopTicker
  BY <1>8 DEF StopTicker, Savers
<1>9. CASE Shutdown
  BY <1>9 DEF Shutdown, CallSave, Savers
<1>10. CASE Crash
  <2>1. /\ mem' \in Versions /\ batch' \in [Handlers -> Seq(Metrics)]
        /\ snap' \in [Savers -> Versions] /\ due' \in [Savers -> Versions]
    BY <1>10, <1>e DEF Crash, ProcessEnds
  <2>2. /\ phase' = "down" /\ pc' = [s \in Savers |-> "idle"] /\ storeMutex' = NoOne
        /\ stopped' = FALSE /\ unread' = [s \in Savers |-> {}]
        /\ attempt' = [t \in Savers \cup {Main} |-> 0]
        /\ UNCHANGED <<file, tmp, issued, promised, amnesia>> /\ lastSaveOK' = TRUE
        /\ faults' \in Nat
    BY <1>10 DEF Crash, ProcessEnds
  <2>3. unread' \in [Savers -> SUBSET Gauges]
    BY <2>2
  <2>4. BatchShape'
    BY <2>2
  <2>5. /\ pc' \in [Savers -> {"idle", "batch", "lock", "gauges", "open", "write",
                               "rename", "done", "exited"}]
        /\ attempt' \in [Savers \cup {Main} -> 0..Backoffs]
    BY <2>2
  <2>6. /\ file' \in Versions \cup {NoFile, Torn} /\ tmp' \in Versions \cup {NoFile, Torn}
        /\ issued' \in Versions /\ promised' \in Versions /\ amnesia' \in BOOLEAN
        /\ lastSaveOK' \in BOOLEAN
    BY <2>2
  <2>. HIDE DEF Typed, BatchShape
  <2>7. TypeOK'
    BY <2>1, <2>2, <2>3, <2>5, <2>6
  <2>. QED
    BY <2>4, <2>7 DEF Typed
<1>. QED
  BY <1>1, <1>2, <1>3, <1>4, <1>5, <1>6, <1>7, <1>8, <1>9, <1>10
     DEF Starting, Requests

\* The types hold before the first start.
LEMMA TypedInit == Init => Typed
<1>. USE FileStorageAssumption, BackoffsAssumption
<1>1. ASSUME Init
      PROVE  TypeOK
  <2>1. mem \in Versions /\ issued \in Versions /\ promised \in Versions
    BY <1>1, EmptyType DEF Init
  <2>2. snap \in [Savers -> Versions] /\ due \in [Savers -> Versions]
    BY <1>1, EmptyType DEF Init
  <2>3. batch \in [Handlers -> Seq(Metrics)] /\ unread \in [Savers -> SUBSET Gauges]
    BY <1>1 DEF Init
  <2>4. attempt \in [Savers \cup {Main} -> 0..Backoffs]
    BY <1>1 DEF Init
  <2>. QED
    BY <1>1, <2>1, <2>2, <2>3, <2>4 DEF Init, TypeOK
<1>2. Init => BatchShape
  BY DEF Init, BatchShape
<1>. QED
  BY <1>1, <1>2 DEF Typed

\* Every step keeps the types.
LEMMA TypedStep == Typed /\ [Next]_vars => Typed'
<1>1. ASSUME Typed, Next
      PROVE  Typed'
  BY <1>1, SavingTyped, OthersTyped DEF Next
<1>2. ASSUME Typed, UNCHANGED vars
      PROVE  Typed'
  BY <1>2 DEF vars, save, disk, history, Typed, TypeOK, BatchShape
<1>. QED
  BY <1>1, <1>2

\* The two parts of Typed always hold.
LEMMA TypedAlways == Spec => []Typed
BY TypedInit, TypedStep, PTL DEF Spec

\* Every variable keeps its type, and no save ever makes more than
\* Backoffs + 1 attempts (retry.go:69).
THEOREM TypeCorrect == Spec => []TypeOK
<1>1. Typed => TypeOK
  BY DEF Typed
<1>. QED
  BY <1>1, TypedAlways, PTL

-----------------------------------------------------------------------------
(* The inductive invariant behind the durability of saves.                 *)

Critical == {"gauges", "open", "write", "rename"}

\* A goroutine is inside SaveToFile's critical section exactly while it holds
\* storeMutex.
MutexInv == \A s \in Savers : pc[s] \in Critical <=> storeMutex = s

\* Outside a serving process nothing runs and nothing is in memory.
QuietInv == phase # "serving" => mem = Empty /\ \A s \in Savers : pc[s] = "idle"

\* What memory held when a save was called, it still holds or has surpassed.
DueInv == \A s \in Savers : pc[s] \in Critical \cup {"lock"} => Covers(mem, due[s])

\* s has put m's value into its snapshot.
Gathered(s, m) ==
  \/ pc[s] \in {"open", "write", "rename"}
  \/ pc[s] = "gauges" /\ m \in Gauges /\ m \notin unread[s]

\* A gathered value is between what is due or on disk and what is in memory.
SnapInv ==
  \A s \in Savers, m \in Metrics : Gathered(s, m) =>
    /\ snap[s][m] <= mem[m] /\ due[s][m] <= snap[s][m]
    /\ ~amnesia => Disk[m] <= snap[s][m]

\* Nobody else touches the temporary file of a saver about to rename it.
TempInv == \A s \in Savers : pc[s] = "rename" => tmp = snap[s]

\* The disk is never ahead of the memory of a process that loaded it.
DiskInv == phase = "serving" /\ ~amnesia => Covers(mem, Disk)

IInv == /\ MutexInv /\ QuietInv /\ DueInv /\ SnapInv /\ TempInv /\ DiskInv
        /\ FileIntact /\ SavedDurable

\* What the leaves below use of the types.
LEMMA Shapes ==
  ASSUME Typed
  PROVE  /\ pc = [s \in Savers |-> pc[s]]
         /\ unread = [s \in Savers |-> unread[s]] /\ due = [s \in Savers |-> due[s]]
         /\ snap = [s \in Savers |-> snap[s]]
         /\ \A s \in Savers : snap[s] \in Versions
         /\ storeMutex \in Savers \cup {NoOne}
         /\ \A m \in Metrics :
              /\ mem[m] \in Nat /\ Disk[m] \in Nat /\ promised[m] \in Nat
              /\ \A s \in Savers : due[s][m] \in Nat /\ snap[s][m] \in Nat
<1>1. pc = [s \in Savers |-> pc[s]] /\ unread = [s \in Savers |-> unread[s]]
  BY DEF Typed, TypeOK
<1>2. due = [s \in Savers |-> due[s]] /\ snap = [s \in Savers |-> snap[s]]
  BY DEF Typed, TypeOK
<1>3. mem \in Versions /\ promised \in Versions /\ storeMutex \in Savers \cup {NoOne}
  BY DEF Typed, TypeOK
<1>4. \A s \in Savers : due[s] \in Versions /\ snap[s] \in Versions
  BY DEF Typed, TypeOK
<1>. QED
  BY <1>1, <1>2, <1>3, <1>4, DiskType DEF Versions

\* The parts of the invariant that hold whatever is on disk.
WorkInv == MutexInv /\ QuietInv /\ DueInv /\ SnapInv /\ TempInv

\* The holder of storeMutex returns from SaveToFile.
LEMMA ReturnSafe ==
  ASSUME Typed, IInv, NEW s \in Savers, pc[s] \in Critical, NEW ok \in BOOLEAN,
         Return(s, ok), UNCHANGED <<phase, mem>>
  PROVE  WorkInv'
<1>. USE Shapes, FileStorageAssumption
<1>. USE DEF IInv, MutexInv, Critical
<1>1. /\ pc' = [pc EXCEPT ![s] = ReturnToCaller(s, ok)] /\ storeMutex' = NoOne
      /\ due' = [due EXCEPT ![s] = Empty]
  BY DEF Return, Unlock
<1>2. pc'[s] \in {"idle", "done"}
  BY <1>1 DEF ReturnToCaller
<1>3. \A t \in Savers \ {s} : pc'[t] = pc[t] /\ pc[t] \notin Critical /\ due'[t] = due[t]
  BY <1>1
<1>4. \A t \in Savers : pc'[t] \notin Critical
  BY <1>2, <1>3
<1>5. MutexInv' /\ SnapInv' /\ TempInv'
  BY <1>1, <1>4 DEF SnapInv, TempInv, Gathered
<1>6. QuietInv'
  BY DEF QuietInv
<1>7. DueInv'
  BY <1>2, <1>3, <1>4 DEF DueInv, Covers
<1>. QED
  BY <1>5, <1>6, <1>7 DEF WorkInv

\* It takes a new snapshot, after a failure or because it has just got the lock.
LEMMA AttemptSafe ==
  ASSUME Typed, IInv, NEW s \in Savers, pc[s] \in Critical \cup {"lock"},
         NEW i, BeginAttempt(s, i), UNCHANGED <<phase, mem>>,
         storeMutex \in {s, NoOne}, storeMutex' = s
  PROVE  WorkInv'
<1>. USE Shapes, FileStorageAssumption
<1>. USE DEF IInv, MutexInv, Critical
<1>1. /\ pc' = [pc EXCEPT ![s] = "gauges"] /\ due' = due
      /\ unread' = [unread EXCEPT ![s] = Gauges]
  BY DEF BeginAttempt
<1>2. pc'[s] = "gauges" /\ unread'[s] = Gauges
  BY <1>1
<1>3. \A t \in Savers \ {s} : pc'[t] = pc[t] /\ pc[t] \notin Critical
  BY <1>1
<1>4. MutexInv'
  BY <1>2, <1>3
<1>5. SnapInv' /\ TempInv'
  BY <1>2, <1>3 DEF SnapInv, TempInv, Gathered
<1>6. QuietInv'
  BY DEF QuietInv
<1>7. DueInv'
  BY <1>1, <1>3 DEF DueInv, Covers
<1>. QED
  BY <1>4, <1>5, <1>6, <1>7 DEF WorkInv

\* Either way when an attempt fails; and a failed save promises nothing.
LEMMA ErrorSafe ==
  ASSUME Typed, IInv, NEW s \in Savers, pc[s] \in Critical,
         NEW e, SaveError(s, e), UNCHANGED <<phase, mem>>
  PROVE  WorkInv' /\ promised' = promised
<1>1. CASE BeginAttempt(s, attempt[s] + 1) /\ UNCHANGED <<storeMutex, promised, lastSaveOK>>
  <2>1. storeMutex = s /\ storeMutex' = s
    BY <1>1 DEF IInv, MutexInv
  <2>. QED
    BY <1>1, <2>1, AttemptSafe
<1>2. CASE Return(s, FALSE)
  BY <1>2, ReturnSafe DEF Return
<1>. QED
  BY <1>1, <1>2 DEF SaveError

\* While file, mem, phase and the promises stay, so does what relates them.
LEMMA DiskUnchanged ==
  ASSUME IInv, UNCHANGED <<phase, mem, file, promised, amnesia>>
  PROVE  Disk' = Disk /\ DiskInv' /\ FileIntact' /\ SavedDurable'
BY DEF IInv, DiskInv, FileIntact, SavedDurable, Disk, Covers, Empty

\* The steps of SaveToFile keep the invariant.
LEMMA SavingSafe ==
  ASSUME Typed, IInv, NEW s \in Savers, Saving(s)
  PROVE  IInv'
<1>. USE Shapes, FileStorageAssumption
<1>. USE DEF save, disk, history
<1>1. CASE LockStore(s)
  <2>1. /\ pc[s] = "lock" /\ BeginAttempt(s, 0) /\ storeMutex = NoOne /\ storeMutex' = s
        /\ UNCHANGED <<phase, mem, file, promised, amnesia>>
    BY <1>1 DEF LockStore, Unlocked
  <2>. QED
    BY <2>1, AttemptSafe, DiskUnchanged DEF IInv, WorkInv
<1>2. ASSUME NEW g \in Gauges, ReadGauge(s, g)
      PROVE  IInv'
  <2>1. /\ pc[s] = "gauges" /\ unread' = [unread EXCEPT ![s] = @ \ {g}]
        /\ snap' = [snap EXCEPT ![s][g] = mem[g]]
        /\ UNCHANGED <<phase, mem, file, tmp, pc, storeMutex, due, promised, amnesia>>
    BY <1>2 DEF ReadGauge
  <2>2. Disk' = Disk /\ DiskInv' /\ FileIntact' /\ SavedDurable'
    BY <2>1, DiskUnchanged
  <2>3. MutexInv' /\ QuietInv' /\ DueInv'
    BY <2>1 DEF IInv, MutexInv, QuietInv, DueInv, Covers
  <2>4. TempInv'
    BY <2>1 DEF IInv, TempInv
  <2>5. phase = "serving" /\ g \in Metrics
    BY <2>1 DEF IInv, QuietInv, Metrics
  <2>6. snap'[s][g] = mem[g] /\ due[s][g] <= mem[g] /\ (~amnesia => Disk[g] <= mem[g])
    BY <2>1, <2>5 DEF IInv, DueInv, DiskInv, Covers, Critical, Versions
  <2>7. ASSUME NEW t \in Savers, NEW m \in Metrics, Gathered(t, m)'
        PROVE  \/ t = s /\ m = g
               \/ Gathered(t, m) /\ snap'[t][m] = snap[t][m]
    BY <2>1, <2>7 DEF Gathered, Versions
  <2>8. SnapInv'
    BY <2>1, <2>2, <2>6, <2>7 DEF IInv, SnapInv
  <2>. QED
    BY <2>2, <2>3, <2>4, <2>8 DEF IInv
<1>3. CASE ReadCounters(s)
  <2>1. /\ pc[s] = "gauges" /\ unread[s] = {} /\ pc' = [pc EXCEPT ![s] = "open"]
        /\ snap' = [snap EXCEPT ![s] = [m \in Metrics |->
                                   IF m \in Counters THEN mem[m] ELSE snap[s][m]]]
        /\ UNCHANGED <<phase, mem, file, tmp, storeMutex, due, promised, amnesia, unread>>
    BY <1>3 DEF ReadCounters
  <2>2. Disk' = Disk /\ DiskInv' /\ FileIntact' /\ SavedDurable'
    BY <2>1, DiskUnchanged
  <2>3. MutexInv' /\ QuietInv' /\ DueInv'
    BY <2>1 DEF IInv, MutexInv, QuietInv, DueInv, Covers, Critical
  <2>4. TempInv'
    BY <2>1 DEF IInv, TempInv
  <2>5. phase = "serving"
    BY <2>1 DEF IInv, QuietInv
  <2>6. ASSUME NEW m \in Metrics
        PROVE  /\ snap'[s][m] <= mem[m] /\ due[s][m] <= snap'[s][m]
               /\ ~amnesia => Disk[m] <= snap'[s][m]
    <3>1. CASE m \in Counters
      BY <2>1, <2>5, <3>1 DEF IInv, DueInv, DiskInv, Covers, Critical
    <3>2. CASE m \notin Counters
      <4>1. Gathered(s, m) /\ snap'[s][m] = snap[s][m]
        BY <2>1, <3>2 DEF Gathered, Metrics
      <4>. QED
        BY <4>1 DEF IInv, SnapInv
    <3>. QED
      BY <3>1, <3>2
  <2>7. ASSUME NEW t \in Savers \ {s}, NEW m \in Metrics, Gathered(t, m)'
        PROVE  Gathered(t, m) /\ snap'[t] = snap[t]
    BY <2>1, <2>7 DEF Gathered
  <2>8. SnapInv'
    BY <2>1, <2>2, <2>6, <2>7 DEF IInv, SnapInv
  <2>. QED
    BY <2>2, <2>3, <2>4, <2>8 DEF IInv
<1>4. CASE OpenTemp(s) \/ WriteTemp(s)
  <2>1. /\ \/ pc[s] = "open" /\ pc' = [pc EXCEPT ![s] = "write"]
           \/ pc[s] = "write" /\ pc' = [pc EXCEPT ![s] = "rename"] /\ tmp' = snap[s]
        /\ UNCHANGED <<phase, mem, file, storeMutex, unread, snap, due, promised, amnesia>>
    BY <1>4 DEF OpenTemp, WriteTemp
  <2>2. Disk' = Disk /\ DiskInv' /\ FileIntact' /\ SavedDurable'
    BY <2>1, DiskUnchanged
  <2>3. MutexInv' /\ QuietInv' /\ DueInv'
    BY <2>1 DEF IInv, MutexInv, QuietInv, DueInv, Covers, Critical
  <2>4. \A t \in Savers \ {s} : pc'[t] = pc[t] /\ pc[t] # "rename"
    BY <2>1 DEF IInv, MutexInv, Critical
  <2>5. TempInv'
    BY <2>1, <2>4 DEF TempInv
  <2>6. \A t \in Savers, m \in Metrics : Gathered(t, m)' => Gathered(t, m)
    BY <2>1 DEF Gathered
  <2>7. SnapInv'
    BY <2>1, <2>2, <2>6 DEF IInv, SnapInv
  <2>. QED
    BY <2>2, <2>3, <2>5, <2>7 DEF IInv
<1>5. CASE WriteFails(s)
  <2>1. PICK e \in {FileBusy, FileFailed} : SaveError(s, e)
    BY <1>5 DEF WriteFails
  <2>2. pc[s] \in Critical /\ UNCHANGED <<phase, mem, file, amnesia>>
    BY <1>5 DEF WriteFails, Critical
  <2>3. WorkInv' /\ promised' = promised
    BY <2>1, <2>2, ErrorSafe
  <2>. QED
    BY <2>2, <2>3, DiskUnchanged DEF IInv, WorkInv
<1>6. CASE RenameFails(s)
  <2>1. PICK e \in {LinkBusy, LinkTimedOut} : SaveError(s, e)
    BY <1>6 DEF RenameFails
  <2>2. pc[s] \in Critical /\ UNCHANGED <<phase, mem, file, amnesia>>
    BY <1>6 DEF RenameFails, Critical
  <2>3. WorkInv' /\ promised' = promised
    BY <2>1, <2>2, ErrorSafe
  <2>. QED
    BY <2>2, <2>3, DiskUnchanged DEF IInv, WorkInv
<1>7. CASE RenameTemp(s)
  <2>1. /\ pc[s] = "rename" /\ file' = tmp /\ Return(s, TRUE)
        /\ UNCHANGED <<phase, mem, amnesia>>
    BY <1>7 DEF RenameTemp
  <2>2. WorkInv'
    BY <2>1, ReturnSafe DEF Critical
  <2>3. file' = snap[s] /\ file' \in Versions /\ Disk' = snap[s]
    BY <2>1 DEF IInv, TempInv, Disk
  <2>4. FileIntact'
    BY <2>3 DEF FileIntact
  <2>5. \A m \in Metrics : Gathered(s, m)
    BY <2>1 DEF Gathered
  <2>6. DiskInv'
    BY <2>1, <2>3, <2>5 DEF IInv, SnapInv, DiskInv, Covers
  <2>7. promised' = Larger(promised, due[s])
    BY <2>1 DEF Return
  <2>8. SavedDurable'
    BY <2>1, <2>3, <2>5, <2>7 DEF IInv, SnapInv, SavedDurable, Covers, Larger
  <2>. QED
    BY <2>2, <2>4, <2>6, <2>8 DEF IInv, WorkInv
<1>. QED
  BY <1>1, <1>2, <1>3, <1>4, <1>5, <1>6, <1>7 DEF Saving

\* Memory grows, or a save is called, or goroutines that do not save go on: no
\* snapshot, file or lock changes.
LEMMA UpdatesSafe ==
  ASSUME Typed, Typed', IInv, phase = "serving", Covers(mem', mem),
         \A s \in Savers :
           \/ pc'[s] = pc[s] /\ due'[s] = due[s]
           \/ pc[s] \notin Critical /\ pc'[s] \notin Critical \cup {"lock"}
           \/ pc[s] \notin Critical /\ pc'[s] = "lock" /\ due'[s] = mem',
         UNCHANGED <<phase, file, tmp, storeMutex, unread, snap, promised, amnesia>>
  PROVE  IInv'
<1>. USE Shapes, FileStorageAssumption
<1>1. \A m \in Metrics : mem'[m] \in Nat /\ mem[m] <= mem'[m]
  <2>1. mem' \in Versions
    BY DEF Typed, TypeOK
  <2>. QED
    BY <2>1 DEF Covers, Versions
<1>2. \A s \in Savers : pc'[s] \in Critical <=> pc[s] \in Critical
  BY DEF Critical
<1>3. \A s \in Savers : pc'[s] \in Critical => pc'[s] = pc[s] /\ due'[s] = due[s]
  BY DEF Critical
<1>4. MutexInv'
  BY <1>2 DEF IInv, MutexInv
<1>5. QuietInv'
  BY DEF QuietInv
<1>6. DueInv'
  <2>1. ASSUME NEW s \in Savers, pc'[s] \in Critical \cup {"lock"}
        PROVE  Covers(mem', due'[s])
    <3>1. CASE pc'[s] = pc[s] /\ due'[s] = due[s]
      BY <1>1, <2>1, <3>1 DEF IInv, DueInv, Covers
    <3>2. CASE pc'[s] = "lock" /\ due'[s] = mem'
      BY <1>1, <3>2 DEF Covers
    <3>. QED
      BY <2>1, <3>1, <3>2
  <2>. QED
    BY <2>1 DEF DueInv, Critical
<1>7. Disk' = Disk
  BY DEF Disk, Empty
<1>8. ASSUME NEW s \in Savers, NEW m \in Metrics, Gathered(s, m)'
      PROVE  Gathered(s, m) /\ due'[s] = due[s]
  BY <1>3, <1>8 DEF Gathered, Critical
<1>9. SnapInv'
  BY <1>1, <1>7, <1>8 DEF IInv, SnapInv
<1>10. TempInv'
  BY <1>3 DEF IInv, TempInv, Critical
<1>11. DiskInv'
  BY <1>1, <1>7 DEF IInv, DiskInv, Covers
<1>12. FileIntact' /\ SavedDurable'
  BY <1>7 DEF IInv, FileIntact, SavedDurable, Covers
<1>. QED
  BY <1>4, <1>5, <1>6, <1>9, <1>10, <1>11, <1>12 DEF IInv

\* A process that starts or ends: nobody saves.
LEMMA QuietSafe ==
  ASSUME Typed, Typed', IInv, UNCHANGED <<file, promised>>,
         \A s \in Savers : pc'[s] = "idle", storeMutex' = NoOne,
         phase' # "serving" => mem' = Empty,
         amnesia => amnesia',
         phase' = "serving" /\ ~amnesia' => Covers(mem', Disk)
  PROVE  IInv'
<1>. USE FileStorageAssumption
<1>1. Disk' = Disk
  BY DEF Disk, Empty
<1>2. MutexInv' /\ DueInv' /\ SnapInv' /\ TempInv'
  BY DEF MutexInv, DueInv, SnapInv, TempInv, Gathered, Critical
<1>3. QuietInv'
  BY DEF QuietInv, Empty
<1>4. DiskInv' /\ FileIntact' /\ SavedDurable'
  BY <1>1 DEF IInv, DiskInv, FileIntact, SavedDurable, Covers
<1>. QED
  BY <1>2, <1>3, <1>4 DEF IInv

\* One metric is updated once: memory grows.
LEMMA IncrementCovers ==
  ASSUME mem \in Versions, NEW m \in Metrics, mem' = [mem EXCEPT ![m] = @ + 1]
  PROVE  Covers(mem', mem)
BY DEF Covers, Versions

\* Every version covers itself.
LEMMA SameCovers ==
  ASSUME NEW v \in Versions
  PROVE  Covers(v, v)
BY DEF Covers, Versions

\* Loading the file into an empty memory makes memory what is on disk.
LEMMA RestoredIsDisk ==
  ASSUME mem = Empty
  PROVE  Restored = Disk
BY DiskType DEF Restored, Versions, Empty

\* The steps of everyone else keep the invariant.
LEMMA OthersSafe ==
  ASSUME Typed, Typed', IInv,
         \/ Starting
         \/ \E h \in Handlers : Requests(h) \/ ApplyNext(h)
         \/ Tick \/ StopTicker \/ Shutdown
         \/ Crash
  PROVE  IInv'
<1>. USE Shapes, FileStorageAssumption
<1>. USE DEF save, disk, history
<1>t. mem \in Versions /\ Covers(mem, mem) /\ phase \in {"down", "loading", "serving"}
  BY SameCovers DEF Typed, TypeOK
<1>q. ASSUME phase # "serving"
      PROVE  mem = Empty /\ storeMutex = NoOne /\ \A s \in Savers : pc[s] = "idle"
  BY <1>q DEF IInv, QuietInv, MutexInv, Critical
<1>d. ASSUME file = NoFile
      PROVE  Disk = Empty
  BY <1>d DEF Disk
<1>e. Covers(Empty, Empty)
  BY SameCovers, EmptyType
<1>1. CASE Boot
  <2>1. /\ phase = "down" /\ UNCHANGED <<mem, file, pc, storeMutex, promised>>
        /\ amnesia => amnesia'
        /\ phase' = "serving" /\ ~amnesia' => file = NoFile
    BY <1>1 DEF Boot
  <2>. QED
    BY <2>1, <1>q, <1>d, <1>e, QuietSafe
<1>2. CASE Load
  <2>1. /\ phase = "loading" /\ phase' = "serving" /\ mem' = Restored
        /\ UNCHANGED <<file, pc, storeMutex, promised, amnesia>>
    BY <1>2 DEF Load
  <2>2. Covers(mem', Disk)
    BY <2>1, <1>q, RestoredIsDisk, DiskType, SameCovers
  <2>. QED
    BY <2>1, <2>2, <1>q, QuietSafe
<1>3. CASE LoadFails
  <2>1. /\ phase = "loading" /\ UNCHANGED <<mem, file, pc, storeMutex, promised>>
    BY <1>3 DEF LoadFails
  <2>2. /\ amnesia => amnesia'
        /\ phase' = "serving" /\ ~amnesia' => file = NoFile
    <3>1. PICK e : LoadError(e)
      BY <1>3 DEF LoadFails, NoMetricsFile
    <3>2. CASE UNCHANGED <<phase, amnesia>>
      BY <2>1, <3>2
    <3>3. CASE amnesia' = (amnesia \/ file # NoFile)
      BY <3>3
    <3>. QED
      BY <3>1, <3>2, <3>3 DEF LoadError
  <2>. QED
    BY <2>1, <2>2, <1>q, <1>d, <1>e, QuietSafe
<1>4. ASSUME NEW h \in Handlers, NEW m \in Singles, UpdateMetric(h, m)
      PROVE  IInv'
  <2>1. /\ phase = "serving" /\ pc[h] = "idle" /\ mem' = [mem EXCEPT ![m] = @ + 1]
        /\ \/ UNCHANGED <<pc, due>>
           \/ pc' = [pc EXCEPT ![h] = "lock"] /\ due' = [due EXCEPT ![h] = mem']
        /\ UNCHANGED <<phase, file, tmp, storeMutex, unread, snap, promised, amnesia>>
    BY <1>4 DEF UpdateMetric, CallSave
  <2>2. Covers(mem', mem) /\ h \in Savers
    BY <2>1, <1>t, IncrementCovers DEF Savers
  <2>3. \A s \in Savers :
          \/ pc'[s] = pc[s] /\ due'[s] = due[s]
          \/ pc[s] \notin Critical /\ pc'[s] = "lock" /\ due'[s] = mem'
    BY <2>1, <2>2 DEF Critical
  <2>. QED
    BY <2>1, <2>2, <2>3, UpdatesSafe
<1>5. ASSUME NEW h \in Handlers, NEW b \in Batches, StartBatch(h, b)
      PROVE  IInv'
  <2>1. /\ phase = "serving" /\ pc[h] = "idle" /\ pc' = [pc EXCEPT ![h] = "batch"]
        /\ UNCHANGED <<phase, mem, file, tmp, storeMutex, unread, snap, due,
                       promised, amnesia>>
    BY <1>5 DEF StartBatch
  <2>2. \A s \in Savers :
          \/ pc'[s] = pc[s] /\ due'[s] = due[s]
          \/ pc[s] \notin Critical /\ pc'[s] \notin Critical \cup {"lock"}
    BY <2>1 DEF Critical
  <2>. QED
    BY <2>1, <2>2, <1>t, UpdatesSafe
<1>6. ASSUME NEW h \in Handlers, ApplyNext(h)
      PROVE  IInv'
  <2>1. /\ pc[h] = "batch" /\ mem' = [mem EXCEPT ![Head(batch[h])] = @ + 1]
        /\ pc' = [pc EXCEPT ![h] = "idle"] \/ pc' = pc
        /\ UNCHANGED <<phase, file, tmp, storeMutex, unread, snap, due,
                       promised, amnesia>>
    BY <1>6 DEF ApplyNext
  <2>2. h \in Savers /\ batch[h] \in Seq(Metrics) /\ batch[h] # <<>>
    BY <2>1 DEF Savers, Typed, TypeOK, BatchShape
  <2>3. Head(batch[h]) \in Metrics
    BY <2>2, HeadTailProperties
  <2>4. Covers(mem', mem) /\ phase = "serving"
    BY <2>1, <2>2, <2>3, <1>t, <1>q, IncrementCovers
  <2>5. \A s \in Savers :
          \/ pc'[s] = pc[s] /\ due'[s] = due[s]
          \/ pc[s] \notin Critical /\ pc'[s] \notin Critical \cup {"lock"}
    BY <2>1, <2>2 DEF Critical
  <2>. QED
    BY <2>1, <2>4, <2>5, UpdatesSafe
<1>7. CASE Tick \/ Shutdown
  <2>1. PICK s \in {Ticker, Stopper} : CallSave(s, mem) /\ pc[s] \notin Critical
    <3>1. CASE Tick
      BY <3>1 DEF Tick, Critical
    <3>2. CASE Shutdown
      BY <3>2 DEF Shutdown, Critical
    <3>. QED
      BY <1>7, <3>1, <3>2
  <2>2. /\ phase = "serving" /\ UNCHANGED <<phase, mem, file, tmp, storeMutex, unread,
                                           snap, promised, amnesia>>
    BY <1>7 DEF Tick, Shutdown
  <2>3. \A t \in Savers :
          \/ pc'[t] = pc[t] /\ due'[t] = due[t]
          \/ pc[t] \notin Critical /\ pc'[t] = "lock" /\ due'[t] = mem'
    BY <2>1, <2>2 DEF CallSave
  <2>. QED
    BY <2>2, <2>3, <1>t, UpdatesSafe
<1>8. CASE StopTicker
  <2>1. /\ phase = "serving" /\ pc[Ticker] = "idle" /\ pc' = [pc EXCEPT ![Ticker] = "exited"]
        /\ UNCHANGED <<phase, mem, file, tmp, storeMutex, unread, snap, due,
                       promised, amnesia>>
    BY <1>8 DEF StopTicker
  <2>2. \A s \in Savers :
          \/ pc'[s] = pc[s] /\ due'[s] = due[s]
          \/ pc[s] \notin Critical /\ pc'[s] \notin Critical \cup {"lock"}
    BY <2>1 DEF Critical
  <2>. QED
    BY <2>1, <2>2, <1>t, UpdatesSafe
<1>9. CASE Crash
  <2>1. /\ phase' = "down" /\ mem' = Empty /\ pc' = [s \in Savers |-> "idle"]
        /\ storeMutex' = NoOne /\ UNCHANGED <<file, promised, amnesia>>
    BY <1>9 DEF Crash, ProcessEnds
  <2>. QED
    BY <2>1, QuietSafe
<1>. QED
  BY <1>1, <1>2, <1>3, <1>4, <1>5, <1>6, <1>7, <1>8, <1>9 DEF Starting, Requests

\* The invariant holds before the first start.
LEMMA InvInit == Init => IInv
<1>1. ASSUME Init
      PROVE  IInv
  <2>1. Disk = Empty
    BY <1>1, FileStorageAssumption DEF Init, Disk
  <2>2. FileIntact
    BY <1>1, FileStorageAssumption DEF Init, FileIntact
  <2>3. SavedDurable /\ DiskInv
    BY <1>1, <2>1, EmptyType, SameCovers DEF Init, SavedDurable, DiskInv
  <2>4. MutexInv
    BY <1>1, FileStorageAssumption DEF Init, MutexInv, Critical
  <2>5. QuietInv /\ DueInv /\ SnapInv /\ TempInv
    BY <1>1 DEF Init, QuietInv, DueInv, SnapInv, TempInv, Gathered, Critical
  <2>. QED
    BY <2>2, <2>3, <2>4, <2>5 DEF IInv
<1>. QED
  BY <1>1

\* Every step keeps the invariant, given the types before and after it.
LEMMA InvStep == Typed /\ Typed' /\ IInv /\ [Next]_vars => IInv'
<1>1. ASSUME Typed, Typed', IInv, Next
      PROVE  IInv'
  BY <1>1, SavingSafe, OthersSafe DEF Next
<1>2. ASSUME IInv, UNCHANGED vars
      PROVE  IInv'
  <2>1. Disk' = Disk /\ DiskInv' /\ FileIntact' /\ SavedDurable'
    BY <1>2, DiskUnchanged DEF vars, disk, history
  <2>2. MutexInv' /\ QuietInv' /\ DueInv' /\ TempInv'
    BY <1>2 DEF vars, save, disk, IInv, MutexInv, QuietInv, DueInv, TempInv, Covers, Empty
  <2>3. \A s \in Savers, m \in Metrics : Gathered(s, m)' => Gathered(s, m)
    BY <1>2 DEF vars, save, Gathered
  <2>4. SnapInv'
    BY <1>2, <2>1, <2>3 DEF vars, save, history, IInv, SnapInv
  <2>. QED
    BY <2>1, <2>2, <2>4 DEF IInv
<1>. QED
  BY <1>1, <1>2

\* The inductive invariant holds: saves exclude each other, and a snapshot is
\* never older than the file nor newer than memory.
THEOREM Invariant == Spec => []IInv
BY TypedAlways, InvInit, InvStep, PTL DEF Spec

\* The metrics file never holds incomplete JSON (file_storage.go:85).
THEOREM FileStaysIntact == Spec => []FileIntact
<1>1. IInv => FileIntact
  BY DEF IInv
<1>. QED
  BY <1>1, Invariant, PTL

\* What a successful save stored stays stored, over any number of further
\* saves, failures and crashes, while every process could load the file.
THEOREM SavesAreDurable == Spec => []SavedDurable
<1>1. IInv => SavedDurable
  BY DEF IInv
<1>. QED
  BY <1>1, Invariant, PTL

\* Only a rename replaces the file, and by a snapshot that is not older.
LEMMA FileGrows ==
  ASSUME Typed, IInv, [Next]_vars, ~amnesia'
  PROVE  Covers(Disk', Disk)
<1>. USE Shapes DEF save, disk, history
<1>1. ASSUME file' = file
      PROVE  Covers(Disk', Disk)
  <2>1. Disk' = Disk
    BY <1>1 DEF Disk, Empty
  <2>. QED
    BY <2>1, DiskType, SameCovers
<1>2. ASSUME NEW s \in Savers, RenameTemp(s)
      PROVE  Covers(Disk', Disk)
  <2>1. pc[s] = "rename" /\ file' = tmp /\ UNCHANGED amnesia
    BY <1>2 DEF RenameTemp
  <2>2. Disk' = snap[s]
    BY <2>1 DEF IInv, TempInv, Disk
  <2>3. \A m \in Metrics : Gathered(s, m)
    BY <2>1 DEF Gathered
  <2>. QED
    BY <2>1, <2>2, <2>3 DEF IInv, SnapInv, Covers
<1>3. ASSUME NEW s \in Savers, Saving(s), ~RenameTemp(s)
      PROVE  file' = file
  BY <1>3 DEF Saving, LockStore, ReadGauge, ReadCounters, OpenTemp, WriteTemp,
              WriteFails, RenameFails
<1>4. CASE Starting
  BY <1>1, <1>4 DEF Starting, Boot, Load, LoadFails
<1>5. ASSUME NEW h \in Handlers, Requests(h) \/ ApplyNext(h)
      PROVE  file' = file
  BY <1>5 DEF Requests, UpdateMetric, StartBatch, ApplyNext
<1>6. CASE Tick \/ StopTicker \/ Shutdown \/ Crash
  BY <1>1, <1>6 DEF Tick, StopTicker, Shutdown, Crash, ProcessEnds
<1>7. CASE UNCHANGED vars
  BY <1>1, <1>7 DEF vars
<1>. QED
  BY <1>1, <1>2, <1>3, <1>4, <1>5, <1>6, <1>7 DEF Next

\* The file never goes back to an older version of a metric: no save overwrites
\* a later one (file_storage.go:87-88).
THEOREM FileNeverGoesBack == Spec => FileMonotone
<1>1. Typed /\ IInv /\ [Next]_vars => [~amnesia' => Covers(Disk', Disk)]_vars
  BY FileGrows
<1>. QED
  BY <1>1, TypedAlways, Invariant, PTL DEF Spec, FileMonotone

-----------------------------------------------------------------------------
(* FileStorage implements DurableStore.                                    *)

\* A step that changes neither memory nor file, of a process that goes on, is
\* none for the durable store.
LEMMA Stutters ==
  ASSUME UNCHANGED <<phase, mem, file, amnesia>>
  PROVE  UNCHANGED Abstract!vars
BY DEF Abstract!vars, Disk, Empty

\* A process begins to serve: either with what is on disk, or it forgets it.
LEMMA StartingImplements ==
  ASSUME Typed, IInv, Starting
  PROVE  Abstract!Forget \/ UNCHANGED Abstract!vars
<1>. USE FileStorageAssumption
<1>q. phase # "serving" => mem = Empty
  BY DEF IInv, QuietInv
<1>a. amnesia \in BOOLEAN
  BY DEF Typed, TypeOK
<1>d. file = NoFile => Disk = Empty
  BY DEF Disk
<1>s. ASSUME phase # "serving", phase' = "serving", file' = file, mem' = mem,
             amnesia' = (amnesia \/ file # NoFile)
      PROVE  Abstract!Forget \/ UNCHANGED Abstract!vars
  <2>1. Disk' = Disk /\ mem' = Empty
    BY <1>s, <1>q DEF Disk, Empty
  <2>2. CASE file = NoFile
    <3>1. amnesia' = amnesia
      BY <1>s, <1>a, <2>2
    <3>. QED
      BY <1>s, <1>d, <2>1, <2>2, <3>1 DEF Abstract!vars
  <2>3. CASE file # NoFile
    <3>1. amnesia' = TRUE
      BY <1>s, <2>3
    <3>. QED
      BY <1>s, <2>1, <3>1 DEF Abstract!Forget, Abstract!Empty, Empty
  <2>. QED
    BY <2>2, <2>3
<1>w. ASSUME phase # "serving", phase' # "serving", file' = file, amnesia' = amnesia
      PROVE  UNCHANGED Abstract!vars
  BY <1>w DEF Abstract!vars, Disk, Empty
<1>1. CASE Boot
  <2>1. phase = "down" /\ UNCHANGED <<mem, file>>
    BY <1>1 DEF Boot, disk
  <2>2. CASE Restore
    <3>1. phase' = "loading" /\ amnesia' = (amnesia \/ FALSE)
      BY <1>1, <2>2 DEF Boot
    <3>. QED
      BY <1>a, <1>w, <2>1, <3>1
  <2>3. CASE ~Restore
    <3>1. phase' = "serving" /\ amnesia' = (amnesia \/ file # NoFile)
      BY <1>1, <2>3 DEF Boot
    <3>. QED
      BY <1>s, <2>1, <3>1
  <2>. QED
    BY <2>2, <2>3
<1>2. CASE Load
  <2>1. /\ phase = "loading" /\ phase' = "serving" /\ mem' = Restored
        /\ UNCHANGED <<file, amnesia>>
    BY <1>2 DEF Load, disk, history
  <2>2. mem' = Disk /\ Disk' = Disk
    BY <1>q, <2>1, RestoredIsDisk DEF Disk, Empty
  <2>. QED
    BY <2>1, <2>2 DEF Abstract!vars
<1>3. CASE LoadFails
  <2>1. phase = "loading" /\ UNCHANGED <<mem, file>>
    BY <1>3 DEF LoadFails, disk
  <2>2. PICK e : LoadError(e)
    BY <1>3 DEF LoadFails, NoMetricsFile
  <2>3. CASE UNCHANGED <<phase, amnesia>>
    BY <1>w, <2>1, <2>3
  <2>4. CASE phase' = "serving" /\ amnesia' = (amnesia \/ file # NoFile)
    BY <1>s, <2>1, <2>4
  <2>. QED
    BY <2>2, <2>3, <2>4 DEF LoadError
<1>. QED
  BY <1>1, <1>2, <1>3 DEF Starting

\* Only the rename persists something.
LEMMA SavingImplements ==
  ASSUME Typed, IInv, IInv', NEW s \in Savers, Saving(s)
  PROVE  Abstract!Persist \/ UNCHANGED Abstract!vars
<1>. USE DEF save, disk, history
<1>1. CASE RenameTemp(s)
  <2>1. pc[s] = "rename" /\ UNCHANGED <<phase, mem, amnesia>>
    BY <1>1 DEF RenameTemp
  <2>2. phase = "serving"
    BY <2>1 DEF IInv, QuietInv
  <2>3. Disk' = snap[s] /\ snap[s] \in Versions
    BY <1>1, Shapes DEF RenameTemp, IInv, TempInv, Disk
  <2>4. \A m \in Metrics : Gathered(s, m)
    BY <2>1 DEF Gathered
  <2>5. Disk' \in Abstract!Versions
    BY <2>3 DEF Versions, Abstract!Versions
  <2>6. Abstract!Covers(mem, Disk') /\ (amnesia \/ Abstract!Covers(Disk', Disk))
    BY <2>3, <2>4 DEF IInv, SnapInv, Abstract!Covers
  <2>. QED
    BY <2>1, <2>2, <2>5, <2>6 DEF Abstract!Persist, Abstract!Covers
<1>2. CASE ~RenameTemp(s)
  <2>1. UNCHANGED <<phase, mem, file, amnesia>>
    BY <1>2 DEF Saving, LockStore, ReadGauge, ReadCounters, OpenTemp, WriteTemp,
                WriteFails, RenameFails
  <2>. QED
    BY <2>1, Stutters
<1>. QED
  BY <1>1, <1>2

\* Every step maps to a step of the durable store or to a stutter.
LEMMA StepImplements ==
  ASSUME Typed, IInv, IInv', [Next]_vars
  PROVE  [Abstract!Next]_(Abstract!vars)
<1>. USE DEF save, disk, history
<1>u. ASSUME NEW m \in Metrics, phase = "serving", mem' = [mem EXCEPT ![m] = @ + 1],
             UNCHANGED <<phase, file, amnesia>>
      PROVE  Abstract!Update(m)
  BY <1>u DEF Abstract!Update, Disk, Empty
<1>1. CASE Starting
  BY <1>1, StartingImplements DEF Abstract!Next
<1>2. ASSUME NEW s \in Savers, Saving(s)
      PROVE  [Abstract!Next]_(Abstract!vars)
  BY <1>2, SavingImplements DEF Abstract!Next
<1>3. ASSUME NEW h \in Handlers, NEW m \in Singles, UpdateMetric(h, m)
      PROVE  Abstract!Next
  <2>1. m \in Metrics /\ Abstract!Update(m)
    BY <1>3, <1>u, FileStorageAssumption DEF UpdateMetric
  <2>. QED
    BY <2>1 DEF Abstract!Next
<1>4. ASSUME NEW h \in Handlers, ApplyNext(h)
      PROVE  Abstract!Next
  <2>1. h \in Savers /\ pc[h] = "batch"
    BY <1>4 DEF ApplyNext, Savers
  <2>2. batch[h] \in Seq(Metrics) /\ batch[h] # <<>> /\ phase = "serving"
    BY <2>1 DEF Typed, TypeOK, BatchShape, IInv, QuietInv
  <2>3. Head(batch[h]) \in Metrics
    BY <2>2, HeadTailProperties
  <2>4. Abstract!Update(Head(batch[h]))
    BY <1>4, <1>u, <2>2, <2>3 DEF ApplyNext
  <2>. QED
    BY <2>3, <2>4 DEF Abstract!Next
<1>5. ASSUME NEW h \in Handlers, NEW b \in Batches, StartBatch(h, b)
      PROVE  UNCHANGED Abstract!vars
  BY <1>5, Stutters DEF StartBatch
<1>6. CASE Tick \/ StopTicker \/ Shutdown
  BY <1>6, Stutters DEF Tick, StopTicker, Shutdown
<1>7. CASE Crash
  <2>1. phase' = "down" /\ UNCHANGED <<file, amnesia>>
    BY <1>7 DEF Crash, ProcessEnds
  <2>2. Abstract!Crash
    BY <2>1 DEF Abstract!Crash, Disk, Empty
  <2>. QED
    BY <2>2 DEF Abstract!Next
<1>8. CASE UNCHANGED vars
  BY <1>8, Stutters DEF vars
<1>. QED
  BY <1>1, <1>2, <1>3, <1>4, <1>5, <1>6, <1>7, <1>8 DEF Next, Requests

\* The process and its file are a durable store: every step of handlers, saves,
\* crashes and restarts is one update, one save, one crash or nothing.
THEOREM ImplementsDurableStore == Spec => DurableStoreSpec
<1>1. Init => Abstract!Init
  BY FileStorageAssumption DEF Init, Abstract!Init, Abstract!Empty, Disk, Empty
<1>2. Typed /\ IInv /\ IInv' /\ [Next]_vars => [Abstract!Next]_(Abstract!vars)
  BY StepImplements
<1>. QED
  BY <1>1, <1>2, TypedAlways, Invariant, PTL DEF Spec, DurableStoreSpec, Abstract!Spec
=============================================================================
