# TLA+ models of the NYC property resolver

The service resolves New York City addresses to properties (a BBL and its set
of BINs), ingests the ECB violations of every known BIN from the city's open
data (Socrata), and answers "which violations does this property have, and when
was that last checked?".  The hard part is the ingestion: several processes may
execute it, any of them may die or lose its lock at any await, the source
changes underneath, and what is published must nevertheless be a consistent
snapshot.  These modules state what that machinery promises, check it on small
instances with TLC and prove the most important parts with TLAPS.

## The system

| Component | State | Operations | Correct when |
|---|---|---|---|
| Run lifecycle (`ingestion-run.repository.ts`, migrations) | `ingestion_runs` | create, seal initialisation, start, persist end watermark, terminalise | runs are serialised; terminal is final; watermark and seal are set once |
| Executor (`ingestion.service.ts`, `ingestion-runner.service.ts`) | local variables of an `async` call chain | start or resume a run, batch loop, publication handoff | every active run is eventually decided; no run mixes two source states |
| Initialisation (`ingestion-initialization.service.ts`) | snapshot and batch definitions | read BINs, partition, store and seal, acquire start watermark | the snapshot is one state of the properties |
| Batch processor (`batch-processor.service.ts`, `raw-staging.service.ts`) | `ingestion_batches`, `ecb_violation_staging` | attempt, fetch page, stage row, complete, fail, page limit | a COMPLETED batch is completely staged; the attempt budget holds |
| Lock and authority (`ingestion-lock.service.ts`) | advisory-lock session, `IngestionExecutionAuthority` | acquire, release, lose | who lost the session stops writing |
| Terminal publication (`terminal-publication.service.ts`) | run status, failed coverage | one transaction under the run's row lock | a failure does not erase the last success |
| Accepted publication (`accepted-publication.service.ts`, `successful-coverage.service.ts`, `live-state.repository.ts`) | run status, coverage, `ecb_violations` | one transaction: promote, reconcile, coverage, COMPLETED | live violations are the latest accepted scan |
| Property identity (`property-identity.service.ts`) | `properties`, `property_bins`, coverage | create, replace the effective BIN set | coverage never outlives the BIN set it was established for |
| Resolution and bulk registration | none of their own | resolve an address, register many BBLs | a partly failed request leaves consistent properties |
| Raw evidence and staging (`raw-staging.service.ts`, `normalization.service.ts`) | `ecb_violation_raw`, `ecb_violation_staging` | identify, store the raw version, validate, normalise, stage | evidence is kept and never changes; a candidate derives from it |
| Resolver algorithms (`property-resolver.service.ts`, `footprint-validation.ts`, `condo-resolution.service.ts`) | the local variables of one request | resolve a BBL, many BBLs, an address | all buildings of the parcel and no others; no answer where the evidence is ambiguous; every route agrees |
| City data clients (`clients/*.client.ts`) | none | page, group and refuse rows of PLUTO, footprints, the condominium tables, GeoSearch | no row that the request asked for is lost |
| Socrata request executor | concurrency limiter, timers | execute with timeout and retries | slots are bounded; a retry does not race what it replaces |
| Scheduler and worker process (`workers/`) | current execution, timer, exit code | tick, stop, shut down | single flight; stop waits; lost authority exits non-zero |
| Query API (`db/*-query.repository.ts`, `routes/`) | none; the client holds the cursor | keyset pages of a property, of the portfolio, of updates | no unchanged row skipped or repeated; rows and coverage are of one moment; polling by update time misses nothing |
| Configuration, logging; parsing of response texts | none | | |
| Development harness and scripts (`harness/`, `scripts/`) | worktrees, task state, reports | | separate tooling |

Interactions: the scheduler or the CLI calls the runner, which acquires the
lock session and hands the executor an authority object; the executor calls
initialisation, the batch processor and one of the two publication services;
these write through Prisma connections that are **not** the lock session.
Resolver requests change `properties`, `property_bins` and coverage at any time,
and meet the ingestion only in the snapshot and in the publication
transactions, which lock the property rows.  Readers take no lock at all: they meet
publications and BIN changes between two pages and, in the property listing,
between the statements of one page.

What is hard: an authority check is synchronous and precedes an await, so a
call may take effect after the session is gone and a successor is at work;
a crash may fall between any two writes; resuming trusts what was persisted;
the budget of attempts is checked and spent by different calls; identifiers
change between the snapshot and the publication; what one listing says
spans many requests and many publications.  `PROJECT.json` lists every
hazard at its line.

## Modules

- **`RunLifecycle`** is the abstract specification: status, seal and start
  watermark of every run, and the five transitions a reader of `ingestion_runs`
  may see.
- **`EcbIngestion`** is the detailed one: any number of worker processes over
  the shared tables.  `pc[w]` names the call worker `w` is awaiting, `loc[w]`
  holds the local variables of its call chain, `auth[w]` its authority object,
  `lock` the session that really holds the advisory lock.  One action is the
  completion of one awaited call: its database effect, then the synchronous
  code up to the next await, authority assertions included
  (`GotoIfAuthorized`).  Publication transactions are two awaits, the validated
  body under the run's row lock (`FailTx`, `AcceptTx`) and the COMMIT
  (`FailCommit`, `AcceptCommit`); other writers of the run's row wait for them
  (`RunRowLocked`).  The environment changes the source, kills processes, ends
  lock sessions with or without the client noticing, and fails HTTP and
  database calls.
- **`EcbCoverage`** is the data side across runs: BIN sets and identifier
  versions, the snapshot taken by two SELECTs, the scan, and the publication of
  coverage and live violations.  The order of one run's internal calls is
  `EcbIngestion`'s business; here a run is scanned in one step and then accepted
  or rejected.  `EcbIngestion`'s `AcceptedIsSourceSnapshot` is what justifies
  that step: what an accepted run staged is one state of the source, unless a lost
  session lets finding 1 happen.
- **`SocrataExecutor`** is the request executor below them.  A logical call
  (`pc`, `attempt`, `requestCalls`) schedules jobs, one per attempt; a job is in
  the limiter's `queue`, in one of its `slots`, and its `operation` (the fetch)
  lives on independently of the `outcome` its caller awaits.  `StartJob`,
  `Timeout`, `OperationSettles`, `Abort`, `Resume`, `Retry` and `Stop` are the
  synchronous stretches between two awaits or timers.
- **`IngestionWorker`** is the processes above them: the scheduler's timer,
  `currentExecution` and `stop()`, the worker's `shutdown` with its exit code and
  signal handlers, the manual command, and the lock service they lease from.
  What an execution does between taking the lock and giving it back is one
  step (`Work`) with any outcome; its content is `EcbIngestion`'s.
- **`PropertyIdentity`** is the abstract specification of the identity tables: a
  property is registered once, its version counts the changes of its BIN set,
  which never becomes empty again, and an input is mapped once, a BBL to itself.
- **`PropertyRegistration`** is the detailed one: concurrent requests for one
  address or BBL and for many BBLs at once.  `pc[r]` is the call a request
  awaits; each input goes through `FindProperty`, `CreateProperty`,
  `LockProperty`, `ApplyBinSet` and `PersistInput`, which commit one by one, and
  `Fail` may end the request before any of them.  `Resolve` is every answer the
  city's data sets may give.
- **`RawStaging`** is one row's way from a fetched page to a candidate
  (`RefuseTransport`, `PersistRaw`, `UpsertStaging`), which `EcbIngestion` has as
  one write.  Workers keep pages in memory while the source changes, while they
  lose their authority and while the next run starts; each call may fail before
  or after it commits (`RawFails`, `StagingFails`).
- **`SourceClients`** is what the clients of the city's data sets return for a
  request: pages, grouping per BBL, rows they refuse, surplus rows.  The data sets
  are a constant, a member of `Cities`.
- **`ParcelResolution`** composes them: a request asks for one BBL (`AskBbl`), for
  many (`AskBulk`) or for an address (`AskAddress`), and `outcome` is what each of
  its inputs resolved to.  `ResolveLot`, `ResolveUnit`, `ResolveInBulk` and
  `ResolveAddress` are the routes, errors in the order in which the code raises them.  `PropertyRegistration`'s `Resolve` stands for any of
  its answers.
- **`ViolationPages`** is the query API and its client.  `ReadPage` and
  `AnswerPage` are the statements of one request - the property listing reads in
  one transaction and the others in one statement -, `AfterCursor` the WHERE clause
  that continues a listing, `PublishScan` and `ChangeBins` what happens between.
  `delivered`, `settled`, `moments` and `watched` record the history the
  properties speak of.
- **`MC...`** modules instantiate each of them for TLC.
- **`EcbIngestionProofs`, `EcbCoverageProofs`, `SocrataExecutorProofs`,
  `IngestionWorkerProofs`, `PropertyRegistrationProofs`, `RawStagingProofs`,
  `ParcelResolutionProofs`, `ViolationPagesProofs`** hold the theorems.

Abstractions.  A row of the source is its index and the source state it was
read in; a batch is a number; identifiers are model values.  `completed_at` and
`last_error` are written together with the status and carry nothing more;
metrics and error texts are left out.  The raw-version insert and the staging
upsert of a row are one write (`RawStaging` separates them).  A failed database call has no effect and raises;
if the write that marks a batch failed fails, the execution ends.  The exit of a
process that lost its authority is the release of its session.  A new
execution starts afresh, whichever process it runs in.

Operators named `x_y` next to a definition `x` (`mayStart_unguarded`,
`reconciled_skipped`, ...) are forms of it with a plausible bug; `PROJECT.json`
pairs each with the property that detects it.

## Runs

| Run | Instance | Question |
|---|---|---|
| `ingestion_crash` | 2 workers, 1 run, 1 batch of up to 3 pages, 2 attempts, source grows from 1 to 2 rows, 3 faults among crash, HTTP and database failures | Is what is accepted exactly the source at the start watermark?  Is a completed batch completely staged, the budget kept, a failure never without a failed batch? |
| `ingestion_handover` | 2 workers, 2 runs of 2 batches, 3 attempts, any single fault but an unnoticed loss | Do the tables serialise runs and keep the lifecycle of `RunLifecycle` when two workers believe to hold the lock?  Does a successor's decision stand while its predecessor's last call lands late?  Is a rejection justified by the source? |
| `ingestion_liveness` | page limit of 2 that the grown source exceeds, any single fault, a terminal HTTP error and an unnoticed loss included | Is every active run eventually terminal?  Does an accepted run miss no row of its source and hold no older one? |
| `ingestion_stale_resume` | crash and lost session, 2 faults, 3 attempts | Finding 1 |
| `coverage` | 1 property, 2 BINs, 1 violation, 3 runs, 3 versions, 2 source changes | Does coverage speak of the current version and of a run that ended that way?  Is the last success kept?  Are live violations the latest accepted scan of their BIN? |
| `coverage_torn_snapshot` | 1 run | Finding 2 |
| `executor` | 2 calls (one with a signal), 2 slots, 2 retries; requests may never settle | Are requests in flight bounded, counters exact, late answers dropped, and requests sent only for callers that still wait?  Does every call end? |
| `worker` | 1 worker, 1 command, 2 executions each | Are exit codes honest, is the pool closed last, is a lease released only by its execution?  Does a shutdown end the process, is every execution forgotten? |
| `registration` | any 3 of 3 requests for one input and 1 bulk request; 2 BBLs, 1 address; a parcel has no BIN, one, or another | Is what is answered stored, also by requests that a later call aborts?  Does a call that finds a mapping answer with the one that stays, whatever earlier calls still do?  Do found BINs stay?  Do the tables implement `PropertyIdentity`? |
| `staging` | 2 workers, 2 runs, 2 sources, 2 source changes; a row is undated, refused by validation, or has no key | Is every candidate derivable from stored evidence, an error right about what it says is stored, evidence never replaced, and the staging of an unchanged source current, whoever is still writing? |
| `resolution` | 2 lots, 1 unit and 1 billing lot; data sets with missing, surplus, malformed and shared rows; pages of 1 row, 3 pages, chunks of 2 keys; 7 answers of GeoSearch | Does a resolution have all buildings of its parcel and no others?  Do the single and the bulk route agree, is a bulk request refused only for an input, is an address that fits two parcels refused? |
| `query` | 3 rows, dated and undated; 1 further run, 1 BIN change, 1 source update; 2 listings in pages of 1 | Are pages in order, unchanged rows delivered once, answers of one moment?  Does the update feed miss nothing?  Does a listing end? |

A type invariant or strengthened invariant that is proved for every instance is
not run again.

Why the bounds suffice.  Two workers are needed for every race over the lock and
a third would only wait.  One source change distinguishes before and after; the
code compares watermarks for equality only.  Two attempts reach the budget, three
allow a reopened batch to be fetched again.  A page of one row makes every
boundary case of `rows < pageSize` and of the page limit.  Three crashes allow
one per attempt and one in the handoff.  `MaxLosses` limits the runs with
lost sessions to one, because with two the code does lose a property (below);
`faults` counts both the faults and, among them, the sessions lost, which
`AttemptBudget` and the theorems refer to.
Three runs give a newer success, a failure after it and a third publication; a
violation that moves twice visits another BIN and returns or disappears.
Two calls with three attempts each have more requests than the two slots, so
attempts wait for slots that requests of callers long gone still hold.  A second
execution of a process is what may overlap with, or follow, the first.
Two requests meet in every race over one property or input; the bulk request adds
an order of inputs and results of part of them.  A later call needs two others that
race before and after its lookup, hence three of them, and `ThreeRequests` bounds
the requests made to three.  Two BBLs let an address be
resolved differently by two requests, and two BINs give a change, an equal set
and an empty one.

In `staging`, two source changes let a row change again while a worker holds the
previous version in memory, and two runs let that worker be of the earlier run.
In `resolution`, a page of one row and three pages put one, two and three rows on
every side of the page limit, a chunk of two keys splits three, and each data set
is present with one row, with none, with two that compete, and with one that does
not parse.  In `query`, pages of one row make every row a boundary, the
NULL boundary included; a second listing is one that resumes the update feed;
five pages are more than three rows need.  Larger limits and more rows are the
proofs' business.

Fairness of `ingestion_liveness`: weak fairness of every worker's step -
awaited calls carry timeouts and so complete or fail, and the scheduler's
interval timer starts an idle worker again - and of noticing a dead socket.
Faults and source changes are not fair, and their number is bounded because no
program terminates a run in an environment that never stops failing it.  The
identities of runs are a bound: when none is left a worker finds no run to create
and releases the lock.

Fairness of the other runs.  `executor` assumes that the event loop runs ready
continuations, expired timers and the limiter's next job, and nothing of the
requests: fetches may hang for ever.  `EveryCallSettles` therefore leaves one
way out, a limiter whose slots are all held by such requests for good; the code
has that limit, because a timeout does not free the slot.  `worker` assumes that
a process whose awaited calls return goes on; ticks, signals and faults are
never assumed to happen.  `registration`, `staging` and
`resolution` check safety only: a request or a worker may stop anywhere.  `query`
assumes that a client which has a next page asks for it and that the server
answers, and nothing of runs, BIN changes or the source; that a listing ends is
due to the order alone, which new rows cannot lengthen behind the cursor.  It ends when every request is answered, as do the runs whose cfg
turns the deadlock check off.

## Proofs

For every set of workers, runs, BINs, properties and violations and every value
of the bounds, from the named assumptions of the modules only:

- `EcbIngestionProofs`: `TypeCorrect`, `RunsSerialised` (`[]OneActiveRun`) and
  `IngestionImplementsLifecycle` (`Spec => RL!RLSpec`).  None of these is
  inductive.  `IInv` adds `WorkerConsistent` - which run, seal, batch, watermark
  or decision a worker relies on at each call, and that a publication about to
  commit still finds the run it validated -, `RunConsistent` - the columns of
  one row agree - and `OneCommitPerRun`, the exclusion by row lock.  The proof
  classifies steps by what they touch: `LocalStep` (own variables), `LockStep`
  (opens a transaction), `RunStep` (writes one run); `RunWriter` shows that each
  of the six writes is one lifecycle transition.  Nothing is assumed about the
  advisory lock: the lifecycle survives its loss because of the unique index,
  the guarded updates and the row lock.
  `RejectionsAreJustified` holds of the same executors: `WatermarkInv` says that a
  run keeps its start watermark once begun and that no worker is ahead of the
  source, so two watermarks that differ mean that the source moved.
- The same module, whatever sessions are lost, noticed or not:
  `CompletedBatchesAreStaged`, `AcceptedRowsCurrent` (`AcceptedRowsAreCurrent`) and
  `AttemptsAreBounded`.  `CoverInv` does not ask who holds the lock.  Of a run it
  says that no staged row is older than its start watermark and that, while the
  source stands still, every staged row is the source's and a COMPLETED batch has
  all of them (`StagedRows`); of any worker in an attempt, how far it has come as
  long as the source stands still: the rows before `l.next` are staged, a page
  that is not full is the last (`Progress`).  Two executors of one batch then write
  the same rows, and neither can undo the other's.  Once the source moves
  `Progress` claims nothing; what was staged by then stays covered (`Covers`), and an
  end watermark equal to the start one cannot be read any more.  `BudgetInv` bounds
  the workers that execute without the lock (`Stale`) by the sessions lost, and the
  attempts of a batch by its budget plus one for each of them that has found budget
  and not spent it.
- The same module, until a session is lost (every other fault allowed: crashes,
  failed HTTP and database calls): `AcceptedRunsAreSnapshots`, stated with
  `faults.losses = 0 =>`, and `FailuresAreBatchFailures`, an action property and
  therefore under `MaxLosses = 0`.  `Exclusion` makes the executor the holder of the
  lock, so that of two workers one rests.  `SnapshotInv` adds that a run with equal
  watermarks is complete and exact (`RunData`) and that the executor hands over what
  it validated (`HandoffInv`).  Both theorems need their assumption: finding 1 for the
  first; for the second, a worker that loses its session between incrementing the
  attempt and storing RUNNING reopens the batch its successor has just failed, in
  time for the decision FAILED to find none that is.
- The same module, for at most one lost session, noticed: `AcceptedRunsAreFrozen`.
  With one loss there is one executor without the lock at most (`OneLate`, from
  `BudgetInv`), and it asserts its authority before the next call, so what it may
  still write is the call in flight.  `FrozenInv` says what that is (`LateInv`): an end
  watermark equal to the start one, or one that shows that the source has moved, of
  a run whose end nobody has measured yet; such a run is `Doomed` never to be
  accepted (`DoomedStays`).  The holder of the lock does not work on a run that is
  being accepted (`HeldInv`), and until the loss the one executor has not measured a
  run that it is still working on (`ResumeInv`), which is what makes the late
  watermark harmless (`LossInv`).  With a second loss, or one that is not noticed, the
  property is false (below).
- `EcbCoverageProofs`: `TypeCorrect`, `CoverageNamesItsRun`
  (`[]CoverageReflectsRun`, inductive with the types, because an ended run's
  status and snapshot never change), `LastSuccessIsEarned` (needs
  `UnregisteredIsBlank`, so that creating a property overwrites nothing) and
  `LiveStateIsLatestScan` (needs that runs are queued in the order of their
  numbers - `RunsInOrder`, `NoGaps` - and that a run stages only BINs of its
  snapshot - `StagedIsScanned`).
- `SocrataExecutorProofs`: `TypeCorrect`, `ConcurrencyBound`, `MetricsCorrect`
  and `NoRequestAfterCancellation`.  `IInv` adds `SlotInv` (the slots are the live
  operations and never too many), `QueueInv` (a queued job is its caller's
  latest, unsent and occurs once), `CallInv` (attempts a call has not reached are
  untouched) and `CountInv` (`requestCalls` counts what the call has sent).
  `LateAnswersAreDropped` (`ReturnedValueIsCurrent`) adds `ValueInv`: a value is that
  of an operation that settled before its attempt was cancelled.
  `SingleSlotRetriesWait` is a corollary of `ConcurrencyBound`: with a concurrency
  of one a cancelled request never runs beside its retry (`RetryRunsAlone`).
- `IngestionWorkerProofs`: `TypeCorrect`, `ExitCodeIsHonest`,
  `PoolOutlivesExecutions` and `LeaseIsOwn`.  Everything rests on `SingleFlight`:
  the execution in progress is the one the scheduler remembers.  `StopInv`
  carries that through a shutdown, `LeaseInv` ties the lease to it, and
  `ScheduledCode` and `ManualCode` relate outcomes to exit codes.

- `PropertyRegistrationProofs`: `TypeCorrect`, `AnswersAreStored`,
  `LaterCallsAgree` (`LaterCallsGetTheMapping`), `FoundBinsStay` and
  `RegistrationImplementsIdentity`.  `ReqInv(r)`
  says what request `r` relies on at each call, in terms of facts about the tables
  that no other request undoes (`DbGrows`) and of the row it has locked; so one
  lemma, `KeptInvariant`, covers every other request's step, and each action is
  examined for its own request only.
- `RawStagingProofs`: `TypeCorrect`, `CandidatesAreDerivable`,
  `EvidenceIsRetained`, `UnchangedSourceStaged` and `EvidenceNeverChanges`.
  `VersionInv` (what a worker holds, what is stored and what the source says agree
  wherever source id and update time do) makes the key of a raw version identify
  its content; `StageInv` says that a worker about to stage has stored evidence,
  `FreshInv` that no candidate or fetched row of a run predates what the source
  said when the run started, unless the source has moved since.
- `ParcelResolutionProofs`: `EvidenceIsComplete` and `AddressesAreUnambiguous`.
  Requests are single steps, so the invariant (`RequestInv`) is what each answer
  satisfies, and the work is in the lemmas about the lookups: `LotEvidence` and
  `CondoEvidence` relate queries, grouping and validation to what the rows say
  themselves, `SingleRow` what `MatchCount` found, `SelectionIsUnanimous` what
  survives GeoSearch's narrowing.  `RoutesGiveTheSame` (`RoutesAgree`) and
  `RefusalsAreJustified` (`RefusedForAnInput`) compare a bulk request with its inputs
  asked for alone, and so the rows of a chunk with those of its keys.  `CoverBound`
  bounds a set by the parts that cover it, through an injection into keys and
  numbers instead of a sum; `PlutoAgrees` and `CrowdedKey` follow.  They need finitely
  many BBLs and a lookup that may read more than one row (`BblsAssumption`,
  `LimitsAssumption`).  `TypeCorrect` adds that no placeholder BIN and no identifier
  that did not parse gets into an outcome.
- `ViolationPagesProofs`: `TypeCorrect`, `CursorMatchesOrder` (the WHERE clause
  selects exactly what the ORDER BY puts after the cursor), `PagesFollowTheOrder`,
  `ListingsAreComplete` and `AnswersAreConsistent`, for any limit and number of rows.
  The keys are totally ordered, so a page is a lower end of what matches and has a
  last row; `PageInv` has what was delivered before the cursor, and `SettledInv`
  that an unchanged row is either delivered, once, or still beyond the cursor.
  `FeedIsComplete` (`FeedMissesNoUpdate`) rests on `FeedInv`: there are times c, d
  and m such that the last accepted run saw the source at c, the one in progress at d
  (`Store`), and what the listing in progress may miss was updated after m, while
  everything the client gets from it was updated by m (`Client`).  m is the c of
  the moment the first page was read; a publication moves c to d and puts only
  rows newer than c beside it, which the next `updatedSince` still asks for.  Each
  of c and d is one source state because `StartScan` takes a scan as one; of real
  runs that is `AcceptedRunsAreSnapshots`, which needs that no session is lost.  An
  accepted run that mixes two states (finding 1) may publish a new row beside an
  older one whose update it missed; the client then asks for what is newer than both,
  and the run and the theorem say nothing of that.

Only model-checked: liveness, which is out of the prover's reach
(`ActiveRunTerminates`, `EveryCallSettles`, `ShutdownCompletes`,
`ExecutionIsForgotten`, `ListingEnds`).

## Findings

1. **A resume trusts a stale end watermark** (`ingestion_stale_resume`).  A worker
   loses its session while its first write of an attempt is in flight; the
   successor completes the batch and persists an end watermark equal to the
   start; the late write then reopens the batch.  It is fetched again after the
   source moved, and a crash before the new end watermark is persisted leaves the
   old, equal one.  `isPersistedRunReadyForPublication` believes it and publishes
   rows of the new source state as a snapshot of the old one.
2. **The snapshot may be torn** (`coverage_torn_snapshot`).  BINs and identifier
   versions are read by two SELECTs.  A BIN change in between puts the old BINs
   under the new version; the version guard of the publication then passes and the
   property is CHECKED although its current BIN was not scanned.

Two statements that do not hold as written, for which no run is kept:

- **One answer for one input.**  `resolver.md:27-28` says "same normalized input ->
  same stored property mapping".  Two requests that look an address up before either
  has stored it may be answered differently by GeoSearch.  The upsert of the second
  (`property-input.service.ts:58`) updates nothing, but its caller answers with the
  property it has resolved itself (`property-resolver.service.ts:438`), not with the
  one the stored row names.  What holds is what `storage.md:311` says of later calls:
  whoever finds the mapping answers with it, and it never changes
  (`LaterCallsGetTheMapping`).  `AnswerIsStored` therefore compares BBL inputs with
  their mapping.
- **A retry never beside its own request.**  The comment of `runAttempt`
  (`socrata-request-executor.ts:464-467`) says that a cancelled request can never run
  concurrently with its own retry.  A timed-out attempt keeps its slot until its fetch
  settles, but its retry takes any other; the default concurrency is ten.  With one
  slot the comment is right (`SingleSlotRetriesWait`); with more, what holds is that
  the requests in flight stay within the slots (`ConcurrencyBound`) and that the late
  answer is dropped (`LateAnswersAreDropped`).

Known limits of the ingestion.  After a session that the server ended and the
client has not noticed, or after two lost sessions, a late end watermark can reach
a COMPLETED run (`update()` has no status guard), so `AcceptedRunFrozen` is checked
and proved for one noticed loss; a fencing token is the remedy `ingestion-lifecycle.md`
names.  What holds of runs under any number of losses of either kind is
`RunsSerialised`, `RejectionsAreJustified`, `IngestionImplementsLifecycle`,
`CompletedBatchesAreStaged` and `AcceptedRowsCurrent`: an accepted run may mix two source
states, but it is never short of a row and never behind its start watermark.
Two stretches have no authority check before
their write, between the BIN read and the initialisation transaction
(`ingestion-initialization.service.ts:175`) and between reading a batch and
incrementing its attempt (`batch-processor.service.ts:170`); the model has them so.
A loss noticed after the last assertion of an execution leaves its published
outcome, and only EXECUTION_AUTHORITY_LOST shuts the worker down
(`scheduler.ts:179`), so such a worker carries on with its next tick.

Known limits of resolution.  The condominium clients map `AbortError` to their
timeout code, but `AbortSignal.timeout` raises a `TimeoutError`; a timeout
therefore surfaces as a failed request.  Footprints none of which parses are an
error when asked for alone and no building in bulk, the one difference
`RoutesAgree` grants besides the page limit.  PLUTO's bulk query multiplies
its limit instead of paging, so `CitiesAssumption` bounds the rows of a BBL by two:
with more, against the data set's key, the bulk route would lose rows that the
single one reads, and `RoutesAgree` does not speak of that.  Bulk
condominium pages are ordered by a key that rows share, which is only right while
the data set stands still.  One candidate with an invalid BBL among GeoSearch's
narrowed ones refuses the address, and an address without a unit designation
that GeoSearch places on a unit's lot is treated as an ordinary lot.

Known limits of registration.  The loser of a creation race gets the database's
unique-constraint error, and in a bulk request that ends the whole request after
part of it was stored; no document says how such a request is answered, and what
was stored is complete.  A resolution that finds no valid BIN leaves an earlier
BIN set in place, and of two that find different ones the last to commit wins,
whichever asked the city first.

## Not modelled

- Text: address normalisation, unit designations, BBL and BIN parsing, and the
  wording of errors.  What the models take from them is whether a text is
  accepted; the functions are pure and table-driven.
- `socrata.client.ts` beyond what the executor runs for it: building the query
  and checking the shape of the response, whose failures are failed calls.
- The data sets of the city as they change during one resolution, a source that
  changes twice within the granularity of its watermark (a second), and two
  versions of a row within one millisecond.
- In `ViolationPages` a run takes its snapshot in one step (`EcbCoverage` has the
  two statements) and a client keeps its filters while it follows a cursor.
- Configuration, logging and the rendering of rows: no state of their own.
- The development harness and the acceptance scripts: tooling around the service,
  not part of it.

What a next step would add: that coverage which is CHECKED was scanned unless the
snapshot was torn, as a theorem beside finding 2; the parsers and the address
normaliser as operators over token sequences, checked against their tables; and the
snapshot of `EcbCoverage` and of `ViolationPages` composed with the batches of
`EcbIngestion` instead of taken in one step.
