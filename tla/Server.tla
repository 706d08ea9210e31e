------------------------------- MODULE Server -------------------------------
(***************************************************************************)
(* cmd/server/main.go over a FileBackedStorage: the HTTP server, the       *)
(* goroutine that waits for a signal and the main goroutine, from a start  *)
(* to a graceful shutdown.  http.Server.Shutdown closes the listener, which*)
(* makes ListenAndServe return in main, and then waits for the connections *)
(* that are still active; when main returns, the process ends.             *)
(***************************************************************************)
EXTENDS FileStorage

VARIABLES
  listening,   \* the server's listener is open
  open,        \* the handlers whose connection is open
  sig,         \* the signal goroutine
  drained      \* history: Shutdown saw every connection closed

server == <<listening, open, sig, drained>>
serverVars == <<vars, server>>

Up == /\ listening' = TRUE /\ open' = Handlers
      /\ sig' = "waiting" /\ drained' = FALSE

ServerInit ==
  /\ Init
  /\ listening = TRUE /\ open = Handlers /\ sig = "waiting" /\ drained = FALSE

Serve ==
  /\ \/ Starting
     \/ \E s \in Savers : Saving(s)
     \/ \E h \in Handlers : ApplyNext(h)
     \/ Tick \/ StopTicker
  /\ UNCHANGED server

\* A request arrives on a connection, or the handler of one gets to work.
Request(h) == h \in open /\ Requests(h) /\ UNCHANGED server

\* SIGINT or SIGTERM once the server runs: srv.Shutdown closes the listener.
Signal ==
  /\ phase = "serving" /\ sig = "waiting"
  /\ sig' = "draining" /\ listening' = FALSE
  /\ UNCHANGED <<vars, open, drained>>

\* Shutdown closes the connections that have become idle.
CloseIdle(h) ==
  /\ sig = "draining" /\ h \in open /\ pc[h] = "idle"
  /\ open' = open \ {h}
  /\ UNCHANGED <<vars, listening, sig, drained>>

\* Faulty variant: active connections are not waited for.
NoConnectionAlways == TRUE

NoConnection == open = {}

\* srv.Shutdown returns nil, or after 5 seconds the error of its context.
DrainEnds ==
  /\ sig = "draining"
  /\ drained' = NoConnection
  /\ sig' = "stopping"
  /\ UNCHANGED <<vars, listening, open>>

\* Faulty variant: the error of srv.Shutdown ends the goroutine.
StorageShutdownIfDrained ==
  /\ sig = "stopping" /\ drained
  /\ Shutdown
  /\ sig' = "saving"
  /\ UNCHANGED <<listening, open, drained>>

\* storage.Shutdown, whatever srv.Shutdown returned.
StorageShutdown ==
  /\ sig = "stopping"
  /\ Shutdown
  /\ sig' = "saving"
  /\ UNCHANGED <<listening, open, drained>>

\* ListenAndServe has returned ErrServerClosed: so does main, at once.
MainReturns ==
  /\ phase = "serving" /\ ~listening
  /\ Crash
  /\ Up

CrashServer == Crash /\ Up

ServerNext ==
  \/ Serve
  \/ \E h \in Handlers : Request(h) \/ CloseIdle(h)
  \/ Signal \/ DrainEnds \/ StorageShutdown \/ MainReturns
  \/ CrashServer

ServerSpec == ServerInit /\ [][ServerNext]_serverVars

\* The runtime runs every goroutine that can run and the ticker keeps ticking;
\* sync.Mutex hands the lock over to a waiter that has waited for long; the
\* signal goroutine's context ends the drain.
\* Nothing makes a signal arrive, a request come or main return.
ServerFairness ==
  /\ WF_serverVars(Starting /\ UNCHANGED server)
  /\ \A s \in Savers : /\ WF_serverVars(Saving(s) /\ UNCHANGED server)
                      /\ SF_serverVars(LockStore(s) /\ UNCHANGED server)
  /\ \A h \in Handlers : WF_serverVars(ApplyNext(h) /\ UNCHANGED server)
  /\ WF_serverVars(Tick /\ UNCHANGED server)
  /\ WF_serverVars(DrainEnds)
  /\ WF_serverVars(StorageShutdown)

ServerFairSpec == ServerSpec /\ ServerFairness

-----------------------------------------------------------------------------
(* Properties.                                                             *)

\* If the process lives until storage.Shutdown has saved, after every
\* connection was closed, then the file has all that is in memory: neither a
\* request nor a periodic save that is still running can come after the final
\* save (main.go:131-137, file_storage.go:144-148).
FinalSaveComplete ==
  /\ drained /\ pc[Stopper] = "done" /\ phase = "serving"
  /\ faults = 0 /\ ~amnesia
  => Disk = mem

\* After a signal the final save is made and ends, though connections may stay
\* active, saves fail and storeMutex is contended, unless the process ends first
\* (main.go:128-137).
FinalSaveEnds ==
  sig = "draining" ~> pc[Stopper] = "done" \/ phase = "down"

\* "Shutdown stops the background saves and performs a final save"
\* (file_storage.go:144): a process that ends in main's return, with no file
\* operation failing and no crash, leaves all it had in memory on disk.
CleanExitKeepsUpdates ==
  [][MainReturns /\ faults = 0 /\ ~amnesia => Covers(Disk, mem)]_serverVars
=============================================================================
