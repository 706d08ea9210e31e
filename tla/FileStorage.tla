---------------------------- MODULE FileStorage ----------------------------
(***************************************************************************)
(* FileBackedStorage (internal/app/server/repository/file_storage.go) over *)
(* MemStorage (storage.go): the metrics in memory, the JSON file they are  *)
(* saved to through a temporary file, and the goroutines that update and   *)
(* save them: request handlers, periodicSave and Shutdown, with crashes,   *)
(* restarts and failing file operations.                                   *)
(*                                                                         *)
(* A metric's value is a version: what the n-th update of it leaves.  For  *)
(* a gauge that is the n-th string stored, for a counter the sum after n   *)
(* increments (of 1).  Version 0 is "absent".  The code never looks at a   *)
(* value except to add a delta, so versions tell apart all it can do.      *)
(* Gauges and counters live in maps of their own: their names are distinct *)
(* metrics even when the strings agree.                                    *)
(***************************************************************************)
EXTENDS Integers, Sequences, FiniteSets, Retry

CONSTANTS
  Handlers,        \* goroutines serving update requests
  Ticker,          \* the periodicSave goroutine
  Stopper,         \* the goroutine that calls Shutdown
  Main,            \* the main goroutine, which calls LoadFromFile
  NoOne,           \* storeMutex is free
  Gauges, Counters,
  Singles,         \* the metrics that single-metric requests update
  Batches,         \* the sequences of metrics that batch requests carry
  StoreInterval,   \* seconds; 0 saves on every update, > 0 periodically
  Restore,         \* load the file at start
  NoFile, Torn,    \* no such file; a file whose JSON is incomplete
  MaxUpdates,      \* bound: updates of one metric
  MaxFaults        \* bound: failing file operations

Metrics == Gauges \cup Counters
Savers == Handlers \cup {Ticker, Stopper}
Versions == [Metrics -> Nat]
Empty == [m \in Metrics |-> 0]

ASSUME FileStorageAssumption ==
  /\ IsFiniteSet(Handlers)
  /\ Gauges \cap Counters = {}
  /\ Singles \subseteq Metrics
  /\ Batches \subseteq Seq(Metrics) \ {<<>>}
  /\ StoreInterval \in Int
  /\ Restore \in BOOLEAN
  /\ {Ticker, Stopper, Main} \cap Handlers = {}
  /\ Ticker # Stopper /\ Main # Ticker /\ Main # Stopper
  /\ NoOne \notin Savers
  /\ NoFile \notin Versions /\ Torn \notin Versions /\ NoFile # Torn
  /\ MaxUpdates \in Nat /\ MaxFaults \in Nat

VARIABLES
  phase,       \* of the process: "down", "loading", "serving"
  mem,         \* MemStorage: gauges and counters
  file, tmp,   \* filePath and filePath.tmp
  pc,          \* where each goroutine is
  batch,       \* what a handler still has to apply of its batch
  storeMutex,  \* its holder
  stopped,     \* stopChan is closed
  unread,      \* SaveToFile: gauges sync.Map.Range has not visited yet
  snap,        \* SaveToFile: the MetricsData gathered so far
  attempt,     \* DoWithRetry: the attempt number i
  due,         \* history: the memory when SaveToFile was called
  issued,      \* history: updates requested, per metric
  promised,    \* history: what saves that returned nil have stored
  amnesia,     \* history: some process began without the file's metrics
  lastSaveOK,  \* history: the process's last save to return returned nil
  faults       \* bound: file operations that failed

save == <<unread, snap, attempt, due>>
disk == <<file, tmp>>
history == <<issued, promised, amnesia, lastSaveOK>>
vars == <<phase, mem, disk, pc, batch, storeMutex, stopped, save, history, faults>>

\* The metrics on disk: what a restart would find.
Disk == IF file \in Versions THEN file ELSE Empty

Larger(a, b) == [m \in Metrics |-> IF a[m] >= b[m] THEN a[m] ELSE b[m]]
Covers(a, b) == \A m \in Metrics : b[m] <= a[m]

(***************************************************************************)
(* Errors of the file operations.  os.ReadFile and os.WriteFile return     *)
(* PathErrors, os.Rename a LinkError, which IsRetriableFileError does not  *)
(* match; the errno inside each of them has net.Error's methods.           *)
(***************************************************************************)
FileBusy   == [is |-> {"os.PathError", "net.Error"}, timeout |-> FALSE, says |-> "busy"]
FileFailed == [is |-> {"os.PathError", "net.Error"}, timeout |-> FALSE, says |-> "other"]
LinkBusy   == [is |-> {"net.Error"}, timeout |-> FALSE, says |-> "busy"]
LinkTimedOut == [is |-> {"net.Error"}, timeout |-> TRUE, says |-> "temporarily"]
BadJSON    == [is |-> {}, timeout |-> FALSE, says |-> "other"]

Fault == faults < MaxFaults /\ faults' = faults + 1

Init ==
  /\ phase = "down"
  /\ mem = Empty
  /\ file = NoFile /\ tmp = NoFile
  /\ pc = [s \in Savers |-> "idle"]
  /\ batch = [h \in Handlers |-> <<>>]
  /\ storeMutex = NoOne
  /\ stopped = FALSE
  /\ unread = [s \in Savers |-> {}]
  /\ snap = [s \in Savers |-> Empty]
  /\ attempt = [t \in Savers \cup {Main} |-> 0]
  /\ due = [s \in Savers |-> Empty]
  /\ issued = Empty /\ promised = Empty
  /\ amnesia = FALSE
  /\ lastSaveOK = TRUE
  /\ faults = 0

-----------------------------------------------------------------------------
(* NewFileBackedStorage and LoadFromFile.                                  *)

\* The process starts: an empty MemStorage, then LoadFromFile if restore.
Boot ==
  /\ phase = "down"
  /\ phase' = IF Restore THEN "loading" ELSE "serving"
  /\ amnesia' = (amnesia \/ (~Restore /\ file # NoFile))
  /\ UNCHANGED <<mem, disk, pc, batch, storeMutex, stopped, save, issued,
                 promised, lastSaveOK, faults>>

\* Gauges are overwritten, counters added to what memory holds.
Restored == [m \in Metrics |-> IF m \in Gauges THEN Disk[m] ELSE mem[m] + Disk[m]]

Load ==
  /\ phase = "loading" /\ file \in Versions
  /\ mem' = Restored
  /\ phase' = "serving"
  /\ attempt' = [attempt EXCEPT ![Main] = 0]
  /\ UNCHANGED <<disk, pc, batch, storeMutex, stopped, unread, snap, due,
                 history, faults>>

\* Another attempt, or the process serves with an empty memory.
LoadError(e) ==
  \/ /\ ShouldRetry(e, attempt[Main])
     /\ attempt' = [attempt EXCEPT ![Main] = @ + 1]
     /\ UNCHANGED <<phase, amnesia>>
  \/ /\ ~ShouldRetry(e, attempt[Main])
     /\ attempt' = [attempt EXCEPT ![Main] = 0]
     /\ phase' = "serving"
     /\ amnesia' = (amnesia \/ file # NoFile)

NoMetricsFile ==
  \/ /\ file = NoFile /\ LoadError(FileFailed)
     /\ UNCHANGED faults
  \/ /\ file = Torn /\ LoadError(BadJSON)
     /\ UNCHANGED faults
  \/ /\ file \in Versions /\ Fault
     /\ \E e \in {FileBusy, FileFailed} : LoadError(e)

\* Faulty variant: the metrics are put in memory before the error is seen.
LoadFailsLate ==
  /\ phase = "loading"
  /\ NoMetricsFile
  /\ mem' = Restored
  /\ UNCHANGED <<disk, pc, batch, storeMutex, stopped, unread, snap, due,
                 issued, promised, lastSaveOK>>

LoadFails ==
  /\ phase = "loading"
  /\ NoMetricsFile
  /\ UNCHANGED <<mem, disk, pc, batch, storeMutex, stopped, unread, snap,
                 due, issued, promised, lastSaveOK>>

-----------------------------------------------------------------------------
(* SaveToFile, called by the goroutine s.                                  *)

CallSave(s, now) ==
  /\ pc' = [pc EXCEPT ![s] = "lock"]
  /\ due' = [due EXCEPT ![s] = now]

BeginAttempt(s, i) ==
  /\ pc' = [pc EXCEPT ![s] = "gauges"]
  /\ unread' = [unread EXCEPT ![s] = Gauges]
  /\ snap' = [snap EXCEPT ![s] = Empty]
  /\ attempt' = [attempt EXCEPT ![s] = i]
  /\ UNCHANGED due

\* Faulty variant: storeMutex is not waited for.
UnlockedAlways == TRUE

Unlocked == storeMutex = NoOne

LockStore(s) ==
  /\ pc[s] = "lock" /\ Unlocked
  /\ storeMutex' = s
  /\ BeginAttempt(s, 0)
  /\ UNCHANGED <<phase, mem, disk, batch, stopped, history, faults>>

\* GetAllGauges: sync.Map.Range visits the gauges one by one, in any order.
ReadGauge(s, g) ==
  /\ pc[s] = "gauges" /\ g \in unread[s]
  /\ unread' = [unread EXCEPT ![s] = @ \ {g}]
  /\ snap' = [snap EXCEPT ![s][g] = mem[g]]
  /\ UNCHANGED <<phase, mem, disk, pc, batch, storeMutex, stopped, attempt, due,
                 history, faults>>

\* GetAllCounters: all counters under MetricStorage's read lock; then Marshal.
ReadCounters(s) ==
  /\ pc[s] = "gauges" /\ unread[s] = {}
  /\ snap' = [snap EXCEPT ![s] = [m \in Metrics |->
                 IF m \in Counters THEN mem[m] ELSE snap[s][m]]]
  /\ pc' = [pc EXCEPT ![s] = "open"]
  /\ UNCHANGED <<phase, mem, disk, batch, storeMutex, stopped, unread, attempt,
                 due, history, faults>>

\* os.WriteFile creates or truncates the temporary file, then fills it.
OpenTemp(s) ==
  /\ pc[s] = "open"
  /\ tmp' = Torn
  /\ pc' = [pc EXCEPT ![s] = "write"]
  /\ UNCHANGED <<phase, mem, file, batch, storeMutex, stopped, save, history,
                 faults>>

\* Faulty variant: the counters are the live map, not a copy of it.
WriteTempLive(s) ==
  /\ pc[s] = "write"
  /\ \E live \in SUBSET Counters :
       tmp' = [m \in Metrics |-> IF m \in live THEN mem[m] ELSE snap[s][m]]
  /\ pc' = [pc EXCEPT ![s] = "rename"]
  /\ UNCHANGED <<phase, mem, file, batch, storeMutex, stopped, save, history,
                 faults>>

WriteTemp(s) ==
  /\ pc[s] = "write"
  /\ tmp' = snap[s]
  /\ pc' = [pc EXCEPT ![s] = "rename"]
  /\ UNCHANGED <<phase, mem, file, batch, storeMutex, stopped, save, history,
                 faults>>

\* Faulty variants: storeMutex stays locked after a failed save; the loop of
\* periodicSave ends after one.
UnlockAfterSuccess(s, ok) == IF ok THEN NoOne ELSE storeMutex
ReturnToCallerOrExit(s, ok) == IF ok THEN "idle" ELSE "exited"

Unlock(s, ok) == NoOne
ReturnToCaller(s, ok) == IF s = Stopper THEN "done" ELSE "idle"

\* SaveToFile returns nil (ok) or an error, which its callers only log.
Return(s, ok) ==
  /\ storeMutex' = Unlock(s, ok)
  /\ pc' = [pc EXCEPT ![s] = ReturnToCaller(s, ok)]
  /\ unread' = [unread EXCEPT ![s] = {}]
  /\ snap' = [snap EXCEPT ![s] = Empty]
  /\ attempt' = [attempt EXCEPT ![s] = 0]
  /\ due' = [due EXCEPT ![s] = Empty]
  /\ promised' = IF ok THEN Larger(promised, due[s]) ELSE promised
  /\ lastSaveOK' = ok

\* Faulty variant: the error of an attempt is dropped.
SaveErrorDropped(s, e) == Return(s, TRUE)

\* An attempt failed with e: take a new snapshot and try again, or give up.
SaveError(s, e) ==
  \/ /\ ShouldRetry(e, attempt[s])
     /\ BeginAttempt(s, attempt[s] + 1)
     /\ UNCHANGED <<storeMutex, promised, lastSaveOK>>
  \/ ~ShouldRetry(e, attempt[s]) /\ Return(s, FALSE)

\* os.WriteFile fails on opening or on writing; nobody removes the remains.
WriteFails(s) ==
  /\ pc[s] \in {"open", "write"}
  /\ Fault
  /\ \E e \in {FileBusy, FileFailed} : SaveError(s, e)
  /\ UNCHANGED <<phase, mem, disk, batch, stopped, issued, amnesia>>

RenameTemp(s) ==
  /\ pc[s] = "rename"
  /\ file' = tmp /\ tmp' = NoFile
  /\ Return(s, TRUE)
  /\ UNCHANGED <<phase, mem, batch, stopped, issued, amnesia, faults>>

\* The temporary file is removed; that error is ignored.
RenameFails(s) ==
  /\ pc[s] = "rename"
  /\ Fault
  /\ tmp' \in {tmp, NoFile}
  /\ \E e \in {LinkBusy, LinkTimedOut} : SaveError(s, e)
  /\ UNCHANGED <<phase, mem, file, batch, stopped, issued, amnesia>>

-----------------------------------------------------------------------------
(* Updates, periodicSave, Shutdown.                                        *)

\* Faulty variant: only the gauge update saves.
SavesAtOnceGauge(m) == StoreInterval = 0 /\ m \in Gauges

SavesAtOnce(m) == StoreInterval = 0

\* UpdateGaugeRaw or UpdateCounter for a single-metric request with a value
\* that parses (any other changes nothing).
UpdateMetric(h, m) ==
  /\ phase = "serving" /\ pc[h] = "idle" /\ issued[m] < MaxUpdates
  /\ issued' = [issued EXCEPT ![m] = @ + 1]
  /\ mem' = [mem EXCEPT ![m] = @ + 1]
  /\ IF SavesAtOnce(m) THEN CallSave(h, mem') ELSE UNCHANGED <<pc, due>>
  /\ UNCHANGED <<phase, disk, batch, storeMutex, stopped, unread, snap,
                 attempt, promised, amnesia, lastSaveOK, faults>>

Occurrences(b, m) == Cardinality({i \in 1..Len(b) : b[i] = m})

\* UpdateMetricsBatch is MemStorage's: it updates the embedded memory metric
\* by metric and calls none of FileBackedStorage's methods.
StartBatch(h, b) ==
  /\ phase = "serving" /\ pc[h] = "idle"
  /\ \A m \in Metrics : issued[m] + Occurrences(b, m) <= MaxUpdates
  /\ issued' = [m \in Metrics |-> issued[m] + Occurrences(b, m)]
  /\ batch' = [batch EXCEPT ![h] = b]
  /\ pc' = [pc EXCEPT ![h] = "batch"]
  /\ UNCHANGED <<phase, mem, disk, storeMutex, stopped, save, promised,
                 amnesia, lastSaveOK, faults>>

ApplyNext(h) ==
  /\ pc[h] = "batch"
  /\ mem' = [mem EXCEPT ![Head(batch[h])] = @ + 1]
  /\ batch' = [batch EXCEPT ![h] = Tail(@)]
  /\ pc' = IF Len(batch[h]) = 1 THEN [pc EXCEPT ![h] = "idle"] ELSE pc
  /\ UNCHANGED <<phase, disk, storeMutex, stopped, save, history, faults>>

\* periodicSave: select may take a pending tick even when stopChan is closed.
Tick ==
  /\ phase = "serving" /\ StoreInterval > 0 /\ pc[Ticker] = "idle"
  /\ CallSave(Ticker, mem)
  /\ UNCHANGED <<phase, mem, disk, batch, storeMutex, stopped, unread, snap,
                 attempt, history, faults>>

StopTicker ==
  /\ phase = "serving" /\ StoreInterval > 0 /\ pc[Ticker] = "idle" /\ stopped
  /\ pc' = [pc EXCEPT ![Ticker] = "exited"]
  /\ UNCHANGED <<phase, mem, disk, batch, storeMutex, stopped, save, history,
                 faults>>

\* Called once: closing stopChan again would panic.
Shutdown ==
  /\ phase = "serving" /\ pc[Stopper] = "idle"
  /\ stopped' = TRUE
  /\ CallSave(Stopper, mem)
  /\ UNCHANGED <<phase, mem, disk, batch, storeMutex, unread, snap, attempt,
                 history, faults>>

\* The process ends, at whatever point its goroutines are.
ProcessEnds ==
  /\ phase' = "down"
  /\ mem' = Empty
  /\ pc' = [s \in Savers |-> "idle"]
  /\ batch' = [h \in Handlers |-> <<>>]
  /\ storeMutex' = NoOne
  /\ stopped' = FALSE
  /\ unread' = [s \in Savers |-> {}]
  /\ snap' = [s \in Savers |-> Empty]
  /\ attempt' = [t \in Savers \cup {Main} |-> 0]
  /\ due' = [s \in Savers |-> Empty]
  /\ lastSaveOK' = TRUE
  /\ UNCHANGED <<disk, issued, promised, amnesia>>

Crash ==
  /\ phase # "down"
  /\ ProcessEnds
  /\ UNCHANGED faults

-----------------------------------------------------------------------------
Starting == Boot \/ Load \/ LoadFails

Saving(s) ==
  \/ LockStore(s)
  \/ \E g \in Gauges : ReadGauge(s, g)
  \/ ReadCounters(s)
  \/ OpenTemp(s) \/ WriteTemp(s) \/ WriteFails(s)
  \/ RenameTemp(s) \/ RenameFails(s)

Requests(h) ==
  \/ \E m \in Singles : UpdateMetric(h, m)
  \/ \E b \in Batches : StartBatch(h, b)

Next ==
  \/ Starting
  \/ \E s \in Savers : Saving(s)
  \/ \E h \in Handlers : Requests(h) \/ ApplyNext(h)
  \/ Tick \/ StopTicker \/ Shutdown
  \/ Crash

Spec == Init /\ [][Next]_vars

-----------------------------------------------------------------------------
(* Properties.                                                             *)

\* Every variable stays in its type; no save makes more than Backoffs + 1
\* attempts (retry.go:69).
TypeOK ==
  /\ phase \in {"down", "loading", "serving"}
  /\ mem \in Versions
  /\ file \in Versions \cup {NoFile, Torn} /\ tmp \in Versions \cup {NoFile, Torn}
  /\ pc \in [Savers -> {"idle", "batch", "lock", "gauges", "open", "write",
                        "rename", "done", "exited"}]
  /\ batch \in [Handlers -> Seq(Metrics)]
  /\ storeMutex \in Savers \cup {NoOne}
  /\ stopped \in BOOLEAN
  /\ unread \in [Savers -> SUBSET Gauges]
  /\ snap \in [Savers -> Versions]
  /\ attempt \in [Savers \cup {Main} -> 0..Backoffs]
  /\ due \in [Savers -> Versions]
  /\ issued \in Versions /\ promised \in Versions
  /\ amnesia \in BOOLEAN /\ lastSaveOK \in BOOLEAN
  /\ faults \in Nat

\* SaveToFile replaces the metrics file "atomically through a temporary file"
\* (file_storage.go:85): whatever saves run, fail or are cut off by a crash,
\* the file never holds incomplete JSON.
FileIntact == file # Torn

\* A save that returned nil stored every update made before it was called, and
\* neither later saves nor crashes and restarts take one of them back, as long
\* as every process could load the file.
SavedDurable == ~amnesia => Covers(Disk, promised)

\* The file never goes back to an older version of any metric: a save that
\* started earlier does not overwrite a later one (file_storage.go:87-88).
FileMonotone == [][~amnesia' => Covers(Disk', Disk)]_vars

\* A failed, retried or repeated load or save never applies an increment of a
\* counter twice (file_storage.go:51-78).
NeverOvercounts == \A c \in Counters : mem[c] <= issued[c]

\* The counter x leads y when only batches update y and each of them updates x
\* before it.
Leads(x, y) ==
  /\ x \in Counters /\ y \in Metrics \ (Singles \cup {x})
  /\ \A b \in Batches : \A j \in 1..Len(b) : b[j] = y =>
       /\ Occurrences(b, y) = 1
       /\ \E i \in 1..(j - 1) : b[i] = x

\* SaveToFile reads gauges first and all counters at once (file_storage.go:92-93),
\* so a file that has y's update from a batch also has x's, though the save runs
\* while the batch is applied.
CounterLeads == \A x, y \in Metrics : Leads(x, y) => Disk[y] <= Disk[x]

\* "storeInterval = 0 to save on each update" (file_storage_test.go:20): when no
\* request is being served, all that is in memory is on disk, updates included
\* whose own save failed and which were answered all the same
\* (file_storage.go:156): only the last save to return needs to have succeeded.
IdleMeansSaved ==
  /\ StoreInterval = 0 /\ phase = "serving" /\ ~amnesia /\ lastSaveOK
  /\ \A h \in Handlers : pc[h] = "idle"
  => Disk = mem

\* The process and the file together are a durable store: a process that does
\* not serve has what the next one will load.
Abstract == INSTANCE DurableStore WITH
  mem <- IF phase = "serving" THEN mem ELSE Disk,
  disk <- Disk

\* Every step of the implementation is a step of the durable store or none.
DurableStoreSpec == Abstract!Spec

\* periodicSave survives failing saves: an update reaches the file unless the
\* process ends or Shutdown stops the periodic saves first.
EventuallySaved ==
  \A m \in Metrics, v \in 1..MaxUpdates :
    phase = "serving" /\ StoreInterval > 0 /\ mem[m] >= v
      ~> Disk[m] >= v \/ phase = "down" \/ stopped

\* A goroutine that calls SaveToFile gets out of it, though others hold
\* storeMutex for attempts that fail and are retried.
SaveReturns ==
  \A s \in Savers : pc[s] = "lock" ~> pc[s] \in {"idle", "done"}
=============================================================================
