# hobrusmetrics in TLA+

A verification of the metrics server and agent of this repository: TLA+ modules
for the parts that keep state, TLC runs that check them on small instances, and
TLAPS proofs of every safety and action property of those runs, for every value
of the constants.

    tlc -config file_sync.cfg MCServer           # a run of the table below
    tlapm FileStorageProofs.tla                  # the proofs
                                                 # likewise Sums, FileCountsProofs,
                                                 # ServerProofs, PostgresProofs,
                                                 # ServiceProofs, HttpProofs, AgentProofs

## 1. The system

An agent collects runtime metrics and posts them in batches; a server keeps
them: gauges (the last value counts) and counters (deltas are added up).

    collectors -> Metrics -> reporter -> sendCh -> workers (Sender, DoWithRetry)
                                                      |  HTTP, gzip, HashSHA256
        hash / gzip / JSON middleware, handlers  <----+
              |
        MetricsService
              |
        Storage = MemStorage | FileBackedStorage | PostgresStorage
                                  |                     |
                     file + file.tmp (DoWithRetry)   table metrics (DoWithRetry)

| Component (source) | State | Operations | What is hard | What makes it correct |
|---|---|---|---|---|
| Retry (`internal/pkg/retry`) | attempt number | `DoWithRetry` | which errors are temporary; the bound on attempts; callers keep their lock | at most `len(backoffIntervals)+1` attempts |
| Memory storage (`repository/storage.go`) | `gauges` (sync.Map), `counters` (map under RWMutex) | single and batch updates, reads of one or all | a batch and a read of all are not atomic; int64 sums wrap around | no update is lost or doubled |
| File-backed storage (`repository/file_storage.go`) | the above; the file and its `.tmp`; `storeMutex`; `stopChan` | load, save, update, `periodicSave`, `Shutdown` | saves race with updates and each other; failures, retries, crashes half-way | the file is never torn, never goes back, holds what successful saves stored |
| Server (`cmd/server/main.go`) | listener, connections, signal goroutine | start, signal, drain with timeout, final save, main's return | three goroutines decide when the process ends | a clean exit leaves memory on disk |
| PostgreSQL storage (`repository/postgres_storage.go`) | table `metrics`, `mu` | upserts of one metric or a batch, reads | retries under the lock, answers lost after a commit, one row for either type | successful deltas stay, none is doubled, everyone is answered |
| Service, handlers, JSON (`service`, `handlers`, `middleware/json.go`) | none of their own | six routes, each a few storage calls | update and read-back are separate; the page is made of two reads | an answer is true, current and complete |
| Hash middleware (`middleware/hash.go`) | the buffered response | check and decompression of requests, signing of responses | shares decompression with gzip; the signature must be over what is sent | only requests as their clients wrote them reach a handler; the signature fits |
| Gzip middleware (`middleware/gzip.go`) | a pool of `gzip.Writer`s | decompression of requests, compression of responses | writers pass from request to request | a response is its own handler's, complete |
| Agent, collector, sender (`internal/app/agent`) | `Metrics.Data`, `sendCh`, workers | two collections, snapshot, offer, post with retry | duplicates by retry, overtaking between workers, a full channel | each report is applied, boundedly often and nearly in order |
| logging, configuration, models, staticlint, build info, test helpers, pool (`db.go`) | none that is shared, or external | | | not modelled, see section 8 |

`PROJECT.json` lists every component with its status and every hazard with its
line and the properties that cover it.

## 2. Modules

| Module | Models | Correspondence |
|---|---|---|
| `Retry` | `DoWithRetry` | an error is what the predicates can see of it (types in its chain, `Timeout`, part of its text); `ShouldRetry(e, i)` is the loop's decision after attempt `i`. `Backoffs` is `len(backoffIntervals)` |
| `FileStorage` (extends `Retry`) | `FileBackedStorage` over `MemStorage` | `phase` is the process, `mem` the two maps, `file` and `tmp` the two paths; `pc[s]` is where handler, ticker or stopper `s` is: waiting for `storeMutex`, in `Range` over the gauges, before or after `WriteFile` truncates, before `Rename`. One action per step between which another goroutine or a crash can come |
| `DurableStore` | an abstraction, no code | memory is updated one metric at a time; the disk follows and never goes back; a crash resets memory to the disk |
| `Server` (extends `FileStorage`) | `main`, the signal goroutine, `http.Server.Shutdown` | requests only arrive on open connections; `Signal`, `CloseIdle`, `DrainEnds`, `StorageShutdown`, `MainReturns` |
| `Postgres` (extends `Retry`) | `PostgresStorage` behind service and handlers | `table` is the table, `mu` the writer; a statement or transaction is one step of the external database; path, JSON and batch updates, reads and the listing differ in the storage calls they make |
| `Service` | `MetricsService`, handlers and JSON middleware over `MemStorage` | `gauges` and `counters` are the two maps; `at[h]`, `todo[h]`, `result[h]` are a handler's place in its route, the items it has still to apply or read, and the answer so far. Each access of a map is a step |
| `Http` (extends `Service`) | the router: hash and gzip middleware around the handlers | a body is what was done to it: how often a request is compressed; of a response the pieces written, each with the number of the request it belongs to. `pool` and `writer` are `gzipWriterPool`, `buffer` is `hashResponseWriter.body`, `rest[h]` what deferred functions and middleware have still to do after the handler, in their order |
| `Agent` (extends `Retry`) | agent, collector, sender; the server and the network as seen from there | `data`, `sendCh`, `worker`, `attempt` are the agent's; `net` and `answers` hold requests and answers under way; a broken connection may leave its request with the server. The server applies a batch (200), refuses it (400), fails to store it (also 400, as `updateBatchHandler` answers every error), or something between answers 500 |
| `MCServer`, `MCPostgres`, `MCHttp`, `MCAgent` | instances for TLC | model values, the batches and requests that clients send, symmetry |
| `Sums` | lemmas about sums and two's complement | section 6 |
| `FileStorageProofs` (extends `FileStorage`), `FileCountsProofs` (extends `FileStorageProofs`, `Sums`) | theorems and proofs | section 6 |
| `ServerProofs` (extends `Server`, `FileCountsProofs`) | theorems and proofs | section 6 |
| `PostgresProofs` (extends `Postgres`, `Sums`) | theorems and proofs | section 6 |
| `ServiceProofs` (extends `Service`, `Sums`), `HttpProofs` (extends `Http`, `ServiceProofs`) | theorems and proofs | section 6 |
| `AgentProofs` (extends `Agent`) | theorems and proofs | section 6 |

`FileStorage` is always run as part of `Server`, whose steps are its steps
(theorem `ServerImplementsFileStorage`). `Service` and `Postgres` model the same
routes over different storages: over memory every map access interleaves, while
over PostgreSQL what matters is the lock, the retries and the table's single row
for both types, so neither is an instance of the other.

A metric's value is abstracted to its *version* in `FileStorage`: the number of
updates that made it (for a counter incremented by 1 that is its value; for a
gauge it names the n-th string stored). Storage code never looks at a value but
to add a delta, so versions tell apart everything it can do, and "older than" is
an order on them. In `Postgres` counters are integers, because the database
rejects what is out of range and Go wraps around; gauges are parsing strings or
the empty string. In `Service` counters are int64 with a small `MaxInt` and wrap
around; a gauge is a string that parses, one of which is NaN. In `Agent` a report is its number, and `PollCount` stands for
all metrics collected in one poll.

Variables marked *history* in the modules (`due`, `issued`, `promised`,
`amnesia`, `lastSaveOK`, `drained`, `asked`, `lost`, `mustList`, `fate`,
`overtaken`, `seen`, `existed`, `number`, `applied`, `unstored`, `done`,
`delivered`) do not
influence any step; they only record what properties speak about. `amnesia`
becomes true when a process starts serving without the metrics of an existing
file, by `Restore = FALSE` or since loading failed: the code logs a warning and
the next save replaces that file. Durability is therefore promised only while
`~amnesia`; the abstract store has the step as `Forget`.

Operators under the comment "Faulty variant" are not used by the specifications:
they are what plausible bugs would make of the definition below them, and
`PROJECT.json` pairs each with the property that notices it.

## 3. Runs

| Run | Checks | Shows | Distinct states |
|---|---|---|---|
| `file_sync` | `TypeOK`, `FileIntact`, `SavedDurable`, `NeverOvercounts`, `IdleMeansSaved`, `FileMonotone` | saving on every update (interval 0), two handlers, two failing file operations, any number of crashes and restarts | 1 466 000 |
| `file_sync_batch` | `IdleMeansSaved`, violated | batches are not saved at interval 0 | |
| `server_shutdown` | `FinalSaveComplete`, `SavedDurable`, `CounterLeads`, `DurableStoreSpec` | a signal in the middle of requests, batches and periodic saves; the order of a batch survives a save that overlaps it; refinement of `DurableStore` | 2 467 000 |
| `server_live` | `EventuallySaved`, `SaveReturns`, `FinalSaveEnds` | liveness with two failing operations, crashes and a signal | 29 000 |
| `server_exit` | `CleanExitKeepsUpdates`, violated | main returns before the final save | |
| `pg_requests` | `TypeOK`, `NothingLost`, `NothingInvented`, `ListedUnlessFlipped`, `AnswersHonest`, `EveryUpdateAnswered` | all kinds of requests on two names, failing calls and rows, lost answers, BIGINT's limit | 410 000 |
| `pg_class08` | `Class08Retried`, violated | a connection exception of PostgreSQL is not retried | |
| `pg_gauge` | `GaugesParse`, violated | a gauge without a value becomes the empty string | |
| `http_requests` | `TypeOK`, `SumsExact`, `AnswersCurrent`, `AnswersComplete`, `ResponseIntact`, `SignedAsSent`, `Admitted` | all routes over memory, with and without key, compressed, signed, forged or malformed, pooled and private gzip writers | 3 444 000 |
| `agent_reports` | `TypeOK`, `AppliedBounded`, `OvertakingBounded`, `ReportApplied`, `ReportsFinish` | three reports, two workers, two failures of calls or of the storage | 124 000 |
| `agent_signed` | `ReportApplied`, violated | signatures never match; a refusal counts as success | |
| `agent_pollcount` | `PollsNotOvercounted`, violated | cumulative `PollCount` sent as a delta | |

The violated properties state what a comment or a test of the repository says;
`PROJECT.json` ("findings") quotes the line and names the code that disagrees.
In short:

- `file_storage.go:155`: only the overridden single updates save at once;
  `POST /updates/` reaches the embedded `MemStorage` and saves nothing.
- `cmd/server/main.go:145`: `ListenAndServe` returns as soon as `srv.Shutdown`
  begins, `main` returns and ends the process, so the final save is a race.
- `retry.go:40`: `IsRetriablePGError` looks for the `PgError` of pgconn v1, the
  storage gets that of pgx v5.
- `postgres_storage.go:183`: `override` is written and never read.
- `sender.go:175` against `hash.go:53`: base64 over the JSON, hex over the
  compressed body.
- `collector.go:63` against `storage.go:44`: an absolute count is added up.

Two more things in the code that a passing run has to be read with:

- **What is signed.** The comment at `cmd/server/main.go:87-88` says that the
  order of the middlewares was chosen "чтобы подпись вычислялась от
  распакованного тела", so that the signature is computed of the unpacked body.
  The code does the opposite in that order: `HashRequestMiddleware` hashes the
  body as it came over the network and unpacks it afterwards (`hash.go:45-63`),
  and `HashResponseMiddleware` hashes what the gzip middleware inside it has
  written (`hash.go:114-119`). `hash.go:22-24`, `hash.go:89-90` and
  `hash_test.go:39` ("Compute signature over compressed bytes") say what the code
  does. The modules follow the code; `SignedAsSent` and `Admitted` hold it to what
  `hash.go` and its test say, and are no evidence for the comment. The sender
  follows the comment (`sender.go:175` signs before it compresses), which is one
  of the two reasons why `agent_signed` fails.
- **What counts as delivered.** `updateBatchHandler` answers every error of the
  service with 400, one of the storage included (`handlers.go:105-108`), and the
  sender takes every status below 500 for a success (`sender.go:80`). A report
  whose batch PostgreSQL could not store, after its own retries, is therefore
  neither applied nor sent again, with or without keys. `StorageFails` is that
  step. `ReportApplied` excepts just these reports (`unstored`): a report that
  counts as delivered was applied, or the storage failed on it.

## 4. Bounds

Unbounded behaviour is cut off by guards on counters that are constants:
`MaxUpdates` per metric, `MaxFaults`, `MaxRequests`, `MaxPolls`, `MaxReports`.
Crashes are not bounded. `Backoffs` is 1 in the runs (3 in the source): there is
then a first, a repeated and a last attempt, all the loop distinguishes.

- `file_sync`: two handlers and, with the ticker and the stopper, up to four
  goroutines that save. A save that overwrites another needs two savers and two
  versions; a torn temporary file, a failing write and a retry of it need two
  faults. The gauge and the counter behave differently in a snapshot and in a
  load, so one of each is present.
- `server_shutdown`: two connections, one of which may be busy with a batch
  while the other closes; after a crash or main's exit the next process starts
  from what the last one left.
- `server_live`: liveness is checked without symmetry and with one handler. The
  store interval is not 0, so only the ticker and the stopper save and compete
  for `storeMutex`; handlers compete for it too in `file_sync`.
- `pg_requests`: four requests by two handlers let others run between an
  update and its read-back, or between the two queries of a page, and change
  the type again; `MaxInt = 3` makes the sum of two batches overflow.
- `http_requests`: three requests by two handlers let a gzip writer serve one
  request, return to the pool and serve another while a third is under way;
  `MaxInt = 1` makes two increments wrap around. There is one writer for each
  handler, and a pool that has been emptied makes new ones of those not in use.
- `agent_reports`: three reports fill the channel (2) and a worker; two faults
  are one more than the attempts of one report allow to be retried. A failing
  storage is a fault, too.

Every action fires in some passing run. Deadlock is not checked, because each
instance really stops: its updates, requests or reports are used up.

## 5. Fairness

- `ServerFairSpec`: a goroutine that can go on does (weak fairness of start, of
  each saver and of each batch) and the ticker keeps ticking (weak fairness of
  `Tick`). Acquiring `storeMutex` is strongly fair: `sync.Mutex` switches to its
  starvation mode and hands the lock to a waiter of more than 1 ms. The signal
  goroutine goes on after a signal (`DrainEnds` by its context of 5 seconds,
  `StorageShutdown`). Nothing is assumed of requests, of the signal, of main's
  return, of faults or crashes; faults are finitely many, since a disk that
  always fails saves nothing.
- `Postgres.FairSpec`: each handler goes on when it can. A database call
  returns, which the code leaves to the driver (it sets no timeout).
- `Agent.FairSpec`: goroutines go on, the server handles what it has received.
  The client has no timeout, so without this a worker may wait forever.
  Collecting and reporting need no fairness: the property speaks of reports
  that were taken.

`Http` states no liveness: its handlers wait for nobody, and only for locks that
are held for one map access.

## 6. Proofs

For all sets of handlers, names, batches, requests and gzip writers, every
interval and rate limit, every size of an int64, every number of updates,
reports, faults, crashes and backoffs:

| Module | Theorem | States |
|---|---|---|
| `FileStorageProofs` | `TypeCorrect` | `Spec => []TypeOK` |
| | `Invariant` | `Spec => []IInv` |
| | `FileStaysIntact` | `Spec => []FileIntact` |
| | `SavesAreDurable` | `Spec => []SavedDurable` |
| | `FileNeverGoesBack` | `Spec => FileMonotone` |
| | `ImplementsDurableStore` | `Spec => DurableStoreSpec` |
| `FileCountsProofs` | `NothingCountsTwice` | `Spec => []NeverOvercounts` |
| | `LeadSurvivesSaves` | `Spec => []CounterLeads` |
| | `IdleIsSaved` | `Spec => []IdleMeansSaved`, if `Batches = {}` |
| `ServerProofs` | `ServerImplementsFileStorage` | `ServerSpec => Spec` |
| | `ServerIsDurableStore` | `ServerSpec => DurableStoreSpec` |
| | `ServerKeepsPromises` | of `ServerSpec`: the properties above |
| | `FinalSaveIsComplete` | `ServerSpec => []FinalSaveComplete` |
| `PostgresProofs` | `PostgresTypeCorrect` | `Spec => []TypeOK` |
| | `PostgresInvariant` | `Spec => []PInv` |
| | `PostgresAnswersHonest` | `Spec => AnswersHonest` |
| | `PostgresListsAll` | `Spec => []ListedUnlessFlipped` |
| | `UpdatesStay` | `Spec => []NothingLost`, if `NonNegative` and `Fitting` |
| | `RetriesCountOnce` | `Spec => []NothingInvented`, if `NonNegative` |
| `HttpProofs` | `HttpTypes` | `HttpSpec => []TypeOK` |
| | `CountersHoldSums` | `HttpSpec => []SumsExact` |
| | `AnswersAreCurrent` | `HttpSpec => []AnswersCurrent` |
| | `AnswersAreComplete` | `HttpSpec => []AnswersComplete` |
| | `ResponsesAreIntact` | `HttpSpec => []ResponseIntact` |
| | `ResponsesAreSigned` | `HttpSpec => []SignedAsSent` |
| | `OnlyBadOnesAreRefused` | `HttpSpec => []Admitted` |
| `AgentProofs` | `AgentTypes` | `Spec => []TypeOK` |
| | `RetriesAreBounded` | `Spec => []AppliedBounded` |
| | `OvertakingIsBounded` | `Spec => []OvertakingBounded` |
| | `DeliveredIsApplied` | `Spec => []ReportApplied`, if `HashAccepted` |
| | `SignedIsNeverApplied` | with a key on both sides, and the server's not "none", no report is ever applied |

They use only the assumptions that the modules name, which TLC evaluates on every
run of the module, and whose bounds are natural numbers: `FileStorageAssumption`
(the names of goroutines differ, gauges and counters are different metrics,
batches are non-empty sequences of metrics), `PostgresAssumption` (the unlocked
state is no handler, requests are well formed, a number is neither empty nor
missing), `ServiceAssumption` and `HttpAssumption` (requests are what a client
can send, a missing value and a string that does not parse are no numbers, NaN
is a gauge's value, there is a gzip writer for each handler), `AgentAssumption`
and `BackoffsAssumption`. Where many handlers share a sum, they are finitely
many.

Five theorems have a hypothesis of their own, which the properties need:

- `IdleIsSaved` takes an instance without batch requests. With them
  `IdleMeansSaved` is false, which is the finding of `file_sync_batch`.
- `NonNegative`: deltas in requests are not negative. The properties compare
  sums by `<=`, so with negative deltas they would say nothing sensible; the
  agent sends none. `Fitting`: the deltas of one name in one request add up to an
  int64. Go wraps around when it adds them (`postgres_storage.go:180`), and
  promised deltas would be lost. The instance of `pg_requests` satisfies both.
- `DeliveredIsApplied` takes `HashAccepted`, that the server accepts what the
  sender signs, which is so when the agent has no key, or the server none or the
  key "none" (`hash.go:28`). Otherwise it is false (finding of `agent_signed`),
  and `SignedIsNeverApplied`, for an agent's key and any server's key but "none",
  says how thoroughly.

**`Sums`.** A sum over a set of handlers is defined by a relation, `IsSum(s, f,
S)`: there is a table of the sums over all subsets of `S` that adds up element by
element. It exists for `f = 0` (`ZeroSum`), follows when one summand changes
(`SumStep`), and over a finite set has the sign of its summands (`SumSign`); that
is all the proofs need, and none of it is an induction over the set. Running
sums over a sequence are likewise tables (`UpTo`); that the recursive functions
`Deltas`, `MeantUpTo` and `DeltasUpTo` of the models are such tables is shown by
the least index at which they would not be (`Least`, `UpToExists`, `UpToSign`).
`Wrapped` is two's complement for any width: `WrappedSum` says that it may be
taken at each addition or once at the end.

**`FileStorageProofs`.** None of the properties is inductive by itself.
`FileIntact` depends on what a saver about to rename finds in the temporary
file, hence on nobody else having touched it, hence on mutual exclusion.
`SavedDurable` depends on a snapshot being no older than the file it replaces.
`IInv` is the conjunction of

- `MutexInv`: exactly the holder of `storeMutex` is inside the critical section;
- `QuietInv`: a process that does not serve runs nothing and has an empty memory;
- `DueInv`: memory still has what it had when a pending save was called;
- `SnapInv`: each value gathered by a saver lies between both what is due and
  what is on disk and what is in memory (this is where the non-atomic snapshot
  is dealt with: it is a statement per metric);
- `TempInv`: before the rename the temporary file is the saver's snapshot;
- `DiskInv`: a process that loaded the file never has less than the disk;
- `FileIntact` and `SavedDurable` themselves.

TLC checked `IInv` on the instances of the runs, as it did `IdleInv`, `PInv`,
`LInv`, `StageInv`, `CurrentInv`, `CompleteInv`, `PipeInv` and `AgentInv` below;
the others speak of sums, which are defined for the prover.

The layout: type lemmas (`Typed` adds to `TypeOK` that batches in progress are
non-empty); `SavingSafe` (the steps of `SaveToFile`, with `ReturnSafe`, `AttemptSafe` and `ErrorSafe` for its ways out)
and `OthersSafe` for everyone else; `InvStep` joins them. `FileNeverGoesBack`
and `ImplementsDurableStore` are step properties that follow from the invariant:
only a rename changes the file, and it installs a snapshot that `SnapInv` puts
between the old file and memory, which is `Persist`; a load maps to a stutter,
since the abstract memory of a process that does not serve is the disk.

**`FileCountsProofs`.** `NeverOvercounts` rests on `CountInv`: what is in memory
and what is left of every batch in progress was asked for, and so was what is on
disk. A load that is repeated after a failure starts from nothing, since the code
applies a file only after all of it has parsed. `CounterLeads` rests on
`LeadInv`: y is behind x by one for each batch that has done its x and not yet
its y (`Owed`), in memory by a sum over the handlers, and on disk and in a
finished snapshot without it. The snapshot gets this because it reads all
counters at once and after the gauges: when it reads x it has read y already, or
reads both together. `IdleMeansSaved` rests on `IdleInv`: the snapshot of the
save that runs is still what memory holds, or a handler waits for `storeMutex`
to save what came since, and so is the file unless the last save failed.

**`ServerProofs`.** Each step of `ServerNext` is a step of `Next` or changes
none of the storage's variables (`ServerStep`), so what is proved of `Spec`
holds of the server. `FinalSaveComplete` needs `ServerInv`: a closed connection
has no request, and the drain counts only if all are closed, so from then on
nobody updates memory (`ClosedIdle`, `DrainedInv`); the stopper saves only after
the drain (`StopperInv`); hence what is due to it is all of memory (`FinalDue`),
and once its save has ended without a fault all of memory is promised
(`FinalPromise`). `SavedDurable` and `DiskInv` then put the disk between what is
promised and memory, which are equal. `ServerKeepsPromises` carries the
storage's theorems over to the process that is signalled, drains and exits.

**`PostgresProofs`.** `TypeOK` needs that PostgreSQL refuses sums outside BIGINT
(`Accepted`, `UpdatedType`) and that the last of a batch's values exists
(`LastIndex`). `AnswersHonest` needs `PInv`, for each handler: `Shape`, where it
is fits its request and exactly the holder of `mu` writes; `FateInv`, an update
is not known to have happened before its call returned, and has happened when a
gauge or a batch is read back; `Visible`, what a JSON update stored is found
until somebody else touches its name, which is what makes 500 honest. Each step
of a handler keeps its own part and says the truth if it answers (`Kept`, by
`StartKeeps`, `WritingKeeps`, `ReadingKeeps`); the others' part is disturbed by
a commit only (`OthersKeep`). `ListedUnlessFlipped` needs `LInv`: no update
removes a row, and between the two queries of a page a name it has to show is
collected or is a counter, since one that changes its type is dropped.

`NothingLost` and `NothingInvented` are about what the steps of one handler do to
table and history (`StepCounts`): nothing (`Uncounted`), a request comes
(`Asked`), its update takes effect and is known to (`Counted`) or not
(`Forgotten`). An update adds at most what its request means, and just that if it
fits (`DeltaMeant`, `CommitCounts`), so that `NothingLost` is inductive.
`NothingInvented` is not: it needs `Balance`, that a name's column and the deltas
of all requests that still wait to write (`Pending`, a sum over the handlers) are
together at most what was asked for and what lost answers may count again
(`lost`, per name). A request's share is in the second part until the update
takes effect and in the first from then on; only a lost answer leaves it in both,
and just that adds its share to `lost`.

**`ServiceProofs` and `HttpProofs`.** The router decides which requests reach a
handler and what is done afterwards, so the lemmas about the storage are stated
for the steps of a router by what they do to the service's variables
(`ServiceMoves`), and hold for `HttpSpec`. `SumsExact` needs `CountsUp`: each
counter and the deltas that handlers have yet to apply to it (`Left`, a sum over
the handlers) make up what was asked for, modulo 2^64; an `Apply` moves one item
from the one to the other. `AnswersCurrent` needs that what a handler has read,
and all that is in memory while it reads, is among what it has seen
(`CurrentOf`); `AnswersComplete` that what it applied is stored and stays
(nothing is ever removed from the maps), and what it has read is in its answer
(`CompleteOf`). For the response, `PipeInv` says for every handler what deferred
functions are still to run (`Ahead`), where all that was written so far is -
sent, held back for the signature, or signed and sent (`Flow`) - and that a
writer still to be closed is its own and holds back just what its handler wrote
(`HoldsBack`); `Exclusive`, that such a writer is neither in the pool nor
another's, is what returning it before closing it would break. `Admitted` is
inductive with the types, by cases of how often a body is compressed and who
decompresses it (`Unpacked`).

**`AgentProofs`.** `AgentInv` joins the types (with `QueueInv`: the channel holds
the reports offered and not yet taken, in their order), `HoldInv` (no two workers
have the same report), `PlaceInv`, `CountInv` and `AnswerInv`. `CountInv` counts
how often a report was applied together with its requests that are still on
their way, which a server may yet apply though their connection broke: this is at
most the number of attempts, and that at most the number of failed calls and one
more. `OvertakingBounded` follows from `PlaceInv`: since a report was taken some
worker has held none that is older (the one that took it), so the older reports
that are still to be applied are held by the others, one each, fewer than
`RateLimit`. `AnswerInv` ties an answer on its
way to what was applied: where signatures are accepted, the report of
an answer below 500 was applied or is one of `unstored`.

## 7. Only model-checked

- Liveness (`EventuallySaved`, `SaveReturns`, `FinalSaveEnds`,
  `EveryUpdateAnswered`, `ReportsFinish`): fairness and ENABLED are not within
  the prover's reach.
- `RawValue`, the last of a batch's values, is only shown to be one of them: that
  it is the right one matters to no property.

Every other property of a passing run is stated by a theorem.

## 8. Not modelled

- Values: number formatting and parsing, the template, JSON, gzip and HMAC as
  algorithms. A signature is a record of key, bytes signed and encoding, which
  is all that decides whether two agree. A handler writes its answer in one
  piece (the template writes several, one after the other, by one goroutine).
- SQL as text: `UpdateMetricsBatch` puts the batch together as one
  statement with ids and values spliced into quoted literals
  (`postgres_storage.go:204-213`). The model has the effect of that statement on
  the rows it names, for ids and values that are ordinary names and numbers.
- Requests that are refused before any call (no name, no type, an empty batch)
  beyond one kind of malformed body; clients that break off while they read.
- The choice of the storage at start (`main.go:34-75`): it is made once, before
  anything runs, by conditions that nothing changes later. `/ping` and pprof,
  logging, configuration (read once, its values are constants), connection pool
  limits (writers hold an exclusive lock).
- Power loss: a rename that reaches the disk before the data it names. Crashes
  are of the process; what it has written stays written.
- `Sender.Send`, which only tests and benchmarks call; `staticlint`; test helpers.

## 9. Plan

Done: `Retry`, `FileStorage`, `DurableStore` and the refinement, `Server`,
`Postgres`, `Service`, `Http`, `Agent` with their runs; the proofs of section 6.

Next:

1. A composition of `Agent` with `Server` on one report's worth of data: what
   reaches the disk of what the agent took, end to end.
2. An abstract specification of a counter store (asked, added, added again for a
   lost answer, answered) that `Postgres` implements: `Balance` and `StepCounts`
   are the refinement's invariant and its step.
3. `ServiceProofs` over the file-backed storage: a batch's answer and the save
   that overlaps it.
