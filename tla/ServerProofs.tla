---------------------------- MODULE ServerProofs ----------------------------
(***************************************************************************)
(* The server process implements FileStorage, so that whatever the storage *)
(* promises holds of the process that is signalled, drains and exits; and  *)
(* its final save is complete.                                             *)
(***************************************************************************)
EXTENDS Server, FileCountsProofs

-----------------------------------------------------------------------------
(* Every step of the server is one of its storage, or none.                *)

\* No action of main.go goes round the storage's own.
LEMMA ServerStep == [ServerNext]_serverVars => [Next]_vars
<1>. SUFFICES ASSUME [ServerNext]_serverVars
              PROVE  Next \/ UNCHANGED vars
  OBVIOUS
<1>1. CASE Serve
  BY <1>1 DEF Serve, Next
<1>2. ASSUME NEW h \in Handlers, Request(h) \/ CloseIdle(h)
      PROVE  Next \/ UNCHANGED vars
  BY <1>2 DEF Request, CloseIdle, Next
<1>3. CASE Signal \/ DrainEnds
  BY <1>3 DEF Signal, DrainEnds
<1>4. CASE StorageShutdown
  BY <1>4 DEF StorageShutdown, Next
<1>5. CASE MainReturns \/ CrashServer
  BY <1>5 DEF MainReturns, CrashServer, Next
<1>6. CASE UNCHANGED serverVars
  BY <1>6 DEF serverVars
<1>. QED
  BY <1>1, <1>2, <1>3, <1>4, <1>5, <1>6 DEF ServerNext

\* main.go uses the storage as FileStorage allows: one Shutdown, requests only
\* while it serves; a return of main is no worse than a crash.
THEOREM ServerImplementsFileStorage == ServerSpec => Spec
<1>1. ServerInit => Init
  BY DEF ServerInit
<1>. QED
  BY <1>1, ServerStep, PTL DEF ServerSpec, Spec

\* What the storage's proofs establish holds in every state of the server.
LEMMA StorageInvariants == ServerSpec => [](Typed /\ IInv)
BY ServerImplementsFileStorage, TypedAlways, Invariant, PTL

\* So the file follows memory as the abstract durable store does, whatever the
\* signals, drains and exits.
THEOREM ServerIsDurableStore == ServerSpec => DurableStoreSpec
BY ServerImplementsFileStorage, ImplementsDurableStore, PTL

\* And it keeps what the storage promises while requests, periodic saves, the
\* drain and the final save overlap: the file is intact and never goes back, what
\* was saved stays, no update counts twice, and the order that a batch updates two
\* metrics in survives on disk (file_storage.go:49-125, storage.go:127-145).
THEOREM ServerKeepsPromises ==
  ServerSpec => /\ []FileIntact /\ []SavedDurable /\ []NeverOvercounts /\ []CounterLeads
                /\ FileMonotone
BY ServerImplementsFileStorage, FileStaysIntact, SavesAreDurable, NothingCountsTwice,
   LeadSurvivesSaves, FileNeverGoesBack, PTL

-----------------------------------------------------------------------------
(* The final save.                                                         *)

\* A closed connection has no request.
ClosedIdle == \A h \in Handlers \ open : pc[h] = "idle"

\* Only a drain that saw all connections closed counts as one.
DrainedInv == drained => open = {} /\ sig \in {"stopping", "saving"}

\* Only the signal goroutine shuts the storage down.
StopperInv == sig # "saving" => pc[Stopper] = "idle"

\* Nothing is updated any more while the final save is under way ...
FinalDue == drained /\ pc[Stopper] \in Critical \cup {"lock"} => due[Stopper] = mem

\* ... and it has stored all of memory when it is done.
FinalPromise ==
  drained /\ pc[Stopper] = "done" /\ faults = 0 => Covers(promised, mem)

ServerInv == ClosedIdle /\ DrainedInv /\ StopperInv /\ FinalDue /\ FinalPromise

\* What a saver's step in SaveToFile leaves alone, and what its return means.
LEMMA SaverStep ==
  ASSUME Typed, IInv, NEW s \in Savers, Saving(s)
  PROVE  /\ mem' = mem /\ pc[s] \in Critical \cup {"lock"}
         /\ \A t \in Savers \ {s} : pc'[t] = pc[t] /\ due'[t] = due[t]
         /\ Covers(promised', promised)
         /\ faults' \in {faults, faults + 1}
         /\ \/ pc'[s] \in Critical /\ due'[s] = due[s]
            \/ /\ pc'[s] = ReturnToCaller(s, TRUE)
               /\ Covers(promised', due[s]) \/ faults' = faults + 1
<1>. USE Shapes DEF save, disk, history, Critical
<1>p. promised \in Versions /\ due[s] \in Versions
  BY DEF Typed, TypeOK
<1>c. Covers(promised, promised) /\ Covers(Larger(promised, due[s]), promised)
      /\ Covers(Larger(promised, due[s]), due[s])
  BY <1>p DEF Covers, Larger, Versions
<1>b. ASSUME NEW i, BeginAttempt(s, i)
      PROVE  /\ pc'[s] = "gauges" /\ due'[s] = due[s]
             /\ \A t \in Savers \ {s} : pc'[t] = pc[t] /\ due'[t] = due[t]
  BY <1>b DEF BeginAttempt
<1>r. ASSUME NEW ok \in BOOLEAN, Return(s, ok)
      PROVE  /\ pc'[s] = ReturnToCaller(s, TRUE)
             /\ \A t \in Savers \ {s} : pc'[t] = pc[t] /\ due'[t] = due[t]
             /\ Covers(promised', promised) /\ (ok => Covers(promised', due[s]))
  BY <1>r, <1>c DEF Return, ReturnToCaller
<1>1. CASE LockStore(s)
  BY <1>1, <1>b, <1>c DEF LockStore
<1>2. CASE (\E g \in Gauges : ReadGauge(s, g)) \/ ReadCounters(s) \/ OpenTemp(s) \/ WriteTemp(s)
  BY <1>2, <1>c DEF ReadGauge, ReadCounters, OpenTemp, WriteTemp
<1>3. ASSUME NEW e, SaveError(s, e), Fault, mem' = mem, pc[s] \in Critical
      PROVE  /\ \A t \in Savers \ {s} : pc'[t] = pc[t] /\ due'[t] = due[t]
             /\ Covers(promised', promised) /\ faults' = faults + 1
             /\ \/ pc'[s] \in Critical /\ due'[s] = due[s]
                \/ pc'[s] = ReturnToCaller(s, TRUE)
  BY <1>3, <1>b, <1>r, <1>c DEF SaveError, Fault
<1>4. CASE WriteFails(s)
  BY <1>3, <1>4 DEF WriteFails
<1>5. CASE RenameTemp(s)
  BY <1>5, <1>r DEF RenameTemp
<1>6. CASE RenameFails(s)
  BY <1>3, <1>6 DEF RenameFails
<1>. QED
  BY <1>1, <1>2, <1>4, <1>5, <1>6 DEF Saving

\* A saver's step keeps the server's invariant: nobody else has work left when
\* the stopper saves.
LEMMA SavingKeeps ==
  ASSUME Typed, Typed', IInv, ServerInv, NEW s \in Savers, Saving(s), UNCHANGED server
  PROVE  ServerInv'
<1>. USE FileStorageAssumption DEF ServerInv, server, Savers, Critical
<1>1. /\ mem' = mem /\ pc[s] \in Critical \cup {"lock"}
      /\ \A t \in Savers \ {s} : pc'[t] = pc[t] /\ due'[t] = due[t]
      /\ Covers(promised', promised) /\ faults' \in {faults, faults + 1}
      /\ \/ pc'[s] \in Critical /\ due'[s] = due[s]
         \/ /\ pc'[s] = ReturnToCaller(s, TRUE)
            /\ Covers(promised', due[s]) \/ faults' = faults + 1
  BY SaverStep
<1>2. pc'[s] \in Critical \/ pc'[s] = IF s = Stopper THEN "done" ELSE "idle"
  BY <1>1 DEF ReturnToCaller
<1>3. ClosedIdle' /\ DrainedInv' /\ StopperInv'
  BY <1>1, <1>2 DEF ClosedIdle, DrainedInv, StopperInv
<1>4. FinalDue'
  <2>1. CASE s = Stopper
    BY <1>1, <2>1 DEF FinalDue, ReturnToCaller
  <2>2. CASE s # Stopper
    BY <1>1, <2>2 DEF FinalDue
  <2>. QED
    BY <2>1, <2>2
<1>5. faults' = 0 => faults = 0 /\ faults' = faults
  BY <1>1 DEF Typed, TypeOK
<1>6. FinalPromise'
  <2>1. CASE s = Stopper
    BY <1>1, <1>2, <1>5, <2>1 DEF FinalDue, FinalPromise
  <2>2. CASE s # Stopper
    <3>1. Covers(promised, mem) => Covers(promised', mem')
      <4>1. promised \in Versions /\ promised' \in Versions /\ mem \in Versions
        BY DEF Typed, TypeOK
      <4>. QED
        BY <1>1, <4>1 DEF Covers, Versions
    <3>. QED
      BY <1>1, <1>5, <2>2, <3>1 DEF FinalPromise
  <2>. QED
    BY <2>1, <2>2
<1>. QED
  BY <1>3, <1>4, <1>6

\* Every step of the server keeps it.
LEMMA ServerInvStep ==
  ASSUME Typed, Typed', IInv, ServerInv, [ServerNext]_serverVars
  PROVE  ServerInv'
<1>. USE FileStorageAssumption
         DEF ServerInv, ClosedIdle, DrainedInv, StopperInv, FinalDue, FinalPromise,
             Savers, Critical
<1>q. phase # "serving" => pc[Stopper] = "idle"
  BY DEF IInv, QuietInv
<1>h. ASSUME NEW h \in Handlers, pc[h] # "idle"
      PROVE  h \in open /\ ~drained
  BY <1>h
<1>1. CASE Starting /\ UNCHANGED server
  <2>1. /\ phase # "serving" /\ UNCHANGED <<pc, due, promised>>
        /\ UNCHANGED <<listening, open, sig, drained>>
    BY <1>1 DEF Starting, Boot, Load, LoadFails, save, history, server
  <2>. QED
    BY <1>q, <2>1
<1>2. ASSUME NEW s \in Savers, Saving(s) /\ UNCHANGED server
      PROVE  ServerInv'
  BY <1>2, SavingKeeps
<1>3. ASSUME NEW h \in Handlers, ApplyNext(h) /\ UNCHANGED server
      PROVE  ServerInv'
  <2>1. /\ pc[h] = "batch" /\ \A t \in Savers \ {h} : pc'[t] = pc[t]
        /\ UNCHANGED <<open, sig, drained>>
    BY <1>3, Shapes DEF ApplyNext, server
  <2>. QED
    BY <1>h, <2>1
<1>4. CASE (Tick \/ StopTicker) /\ UNCHANGED server
  <2>1. /\ UNCHANGED <<mem, promised, faults, open, sig, drained>>
        /\ \A t \in Savers \ {Ticker} : pc'[t] = pc[t] /\ due'[t] = due[t]
    BY <1>4, Shapes DEF Tick, StopTicker, CallSave, history, save, server
  <2>. QED
    BY <2>1
<1>5. ASSUME NEW h \in Handlers, Request(h)
      PROVE  ServerInv'
  <2>1. h \in open /\ UNCHANGED <<open, sig, drained>>
    BY <1>5 DEF Request, server
  <2>2. \A t \in Savers \ {h} : pc'[t] = pc[t]
    BY <1>5, Shapes DEF Request, Requests, UpdateMetric, StartBatch, CallSave
  <2>. QED
    BY <2>1, <2>2
<1>6. ASSUME NEW h \in Handlers, CloseIdle(h)
      PROVE  ServerInv'
  BY <1>6 DEF CloseIdle, vars, save, history
<1>7. CASE Signal
  BY <1>7 DEF Signal, vars, save, history
<1>8. CASE DrainEnds
  BY <1>8 DEF DrainEnds, NoConnection, vars, save, history
<1>9. CASE StorageShutdown
  <2>1. /\ sig' = "saving" /\ pc[Stopper] = "idle" /\ UNCHANGED <<mem, open, drained>>
        /\ pc' = [pc EXCEPT ![Stopper] = "lock"] /\ due' = [due EXCEPT ![Stopper] = mem]
    BY <1>9 DEF StorageShutdown, Shutdown, CallSave
  <2>2. /\ pc'[Stopper] = "lock" /\ due'[Stopper] = mem
        /\ \A t \in Savers \ {Stopper} : pc'[t] = pc[t]
    BY <2>1, Shapes
  <2>. QED
    BY <1>9, <2>1, <2>2 DEF StorageShutdown
<1>10. CASE MainReturns \/ CrashServer
  <2>1. /\ \A t \in Savers : pc'[t] = "idle"
        /\ drained' = FALSE
    BY <1>10 DEF MainReturns, CrashServer, Crash, ProcessEnds, Up
  <2>. QED
    BY <2>1
<1>11. CASE UNCHANGED serverVars
  BY <1>11 DEF serverVars, vars, server, save, history
<1>. QED
  BY <1>1, <1>2, <1>3, <1>4, <1>5, <1>6, <1>7, <1>8, <1>9, <1>10, <1>11
     DEF ServerNext, Serve

\* If every connection was closed before storage.Shutdown and no file operation
\* failed, the final save leaves on disk all that is in memory (main.go:131-137).
THEOREM FinalSaveIsComplete == ServerSpec => []FinalSaveComplete
<1>1. ServerInit => ServerInv
  BY FileStorageAssumption
     DEF ServerInit, Init, ServerInv, ClosedIdle, DrainedInv, StopperInv, FinalDue,
         FinalPromise, Savers, Critical
<1>2. Typed /\ IInv /\ ServerInv => FinalSaveComplete
  <2>. SUFFICES ASSUME Typed, IInv, ServerInv, drained, pc[Stopper] = "done",
                       phase = "serving", faults = 0, ~amnesia
                PROVE  Disk = mem
    BY DEF FinalSaveComplete
  <2>1. Covers(promised, mem) /\ Covers(Disk, promised) /\ Covers(mem, Disk)
    BY DEF ServerInv, FinalPromise, IInv, SavedDurable, DiskInv
  <2>2. Disk \in Versions /\ mem \in Versions
    BY DiskType DEF Typed, TypeOK
  <2>3. ASSUME NEW m \in Metrics
        PROVE  Disk[m] = mem[m]
    <3>1. mem[m] <= promised[m] /\ promised[m] <= Disk[m] /\ Disk[m] <= mem[m]
      BY <2>1 DEF Covers
    <3>2. mem[m] \in Nat /\ Disk[m] \in Nat /\ promised[m] \in Nat
      BY Shapes
    <3>. QED
      BY <3>1, <3>2
  <2>. QED
    BY <2>2, <2>3 DEF Versions
<1>. QED
  BY <1>1, <1>2, ServerInvStep, StorageInvariants, PTL DEF ServerSpec
=============================================================================
