----------------------------- MODULE EcbIngestion -----------------------------
(***************************************************************************)
(* Execution of ECB ingestion runs by several worker processes: the        *)
(* runner, the executor, initialisation, the batch processor and the two   *)
(* publication services, over the tables ingestion_runs,                   *)
(* ingestion_batches and ecb_violation_staging, and the advisory-lock      *)
(* session that is a worker's authority to execute.                        *)
(*                                                                         *)
(* A worker is a JavaScript process that is suspended in at most one       *)
(* await: pc[w] names the call it is waiting for.  An action is the        *)
(* completion of that call: its effect on the database, then the           *)
(* synchronous code up to the next await.  An authority check is therefore *)
(* made when a call is ISSUED, and the session may be lost before the call *)
(* takes effect.                                                           *)
(***************************************************************************)
EXTENDS Naturals, FiniteSets

CONSTANTS
  Workers,       \* worker processes (scheduler workers and CLI invocations)
  NoWorker,      \* nobody holds the advisory lock
  Runs,          \* identities of ingestion runs; a bound on how many are created
  NoRun,         \* the absence of a run
  MaxBatches,    \* bound: batches the live BIN set partitions into
  MaxAttempts,   \* MAX_BATCH_ATTEMPTS_PER_RUN
  MaxPages,      \* SOCRATA_MAX_PAGES_PER_BATCH
  PageSize,      \* SOCRATA_PAGE_SIZE
  MaxRows,       \* bound: rows the source holds for one batch
  MaxWatermark,  \* bound: states the source dataset goes through
  RowCount,      \* RowCount[b][v]: rows of batch b in source state v
  FaultKinds,    \* faults the environment may inject, see AllFaultKinds
  MaxFaults,     \* bound: faults in a behaviour
  MaxLosses      \* bound: lock sessions lost in a behaviour

AllFaultKinds == {"crash", "loss", "silentLoss", "http", "httpTerminal", "db"}

ASSUME WorkersAssumption == NoWorker \notin Workers
ASSUME RunsAssumption == NoRun \notin Runs
ASSUME BoundsAssumption ==
  /\ {MaxBatches, MaxRows, MaxFaults, MaxLosses} \subseteq Nat
  /\ {MaxAttempts, MaxPages, PageSize, MaxWatermark} \subseteq Nat \ {0}
ASSUME RowCountAssumption ==
  RowCount \in [1..MaxBatches -> [1..MaxWatermark -> 0..MaxRows]]
ASSUME FaultsAssumption == FaultKinds \subseteq AllFaultKinds

VARIABLES
  \* the database
  run,        \* run[r]: the row of ingestion_runs
  batch,      \* batch[r][b]: the row of ingestion_batches
  staged,     \* staged[r][b][i]: source state row i was staged from, 0 if absent
  published,  \* published[r]: the staged rows run r promoted to live state
  lock,       \* worker whose session holds the dataset's advisory lock
  \* the Socrata dataset
  source,     \* rowsUpdatedAt of the source, as the number of its state
  \* the worker processes
  pc,         \* pc[w]: the call w awaits
  auth,       \* auth[w]: w's IngestionExecutionAuthority
  loc,        \* loc[w]: the local variables of w
  faults      \* number of faults injected, and of sessions lost, so far

dbVars  == <<run, batch, staged, published>>
vars    == <<run, batch, staged, published, lock, source, pc, auth, loc, faults>>

-----------------------------------------------------------------------------
(* Types and initial state *)

Active   == {"QUEUED", "RUNNING"}
Terminal == {"COMPLETED", "FAILED", "SOURCE_CHANGED"}

Watermarks == 1..MaxWatermark
BatchIds   == 1..MaxBatches
RowMaps    == [BatchIds -> [1..MaxRows -> 0..MaxWatermark]]
NoRows     == [b \in BatchIds |-> [i \in 1..MaxRows |-> 0]]

RunRecords ==
  [status  : {"ABSENT"} \cup Active \cup Terminal,
   init    : BOOLEAN,            \* initialization_complete
   batches : 0..MaxBatches,      \* expected_batch_count
   startWm : 0..MaxWatermark,    \* source_watermark_at_start, 0 when NULL
   endWm   : 0..MaxWatermark]    \* source_watermark_at_end, 0 when NULL

BatchRecords ==
  [status   : {"PENDING", "RUNNING", "COMPLETED", "FAILED"},
   attempts : Nat]

(* Calls that change the database, apart from those of a transaction that  *)
(* checks authority itself before it commits.                              *)
WriteCalls ==
  {"createRun", "initTx", "startTx", "incrementAttempt", "setRunning",
   "stageRow", "updateProgress", "markCompleted", "markFailed",
   "markExhausted", "markPageLimit", "persistEnd"}

ReadCalls ==
  {"findActive", "initFind", "loadBins", "startMetadata", "resumeList",
   "readyList", "resumeMetadata", "listBatches", "findBatch", "fetchPage",
   "endMetadata"}

PublishCalls == {"failTx", "failCommit", "acceptTx", "acceptCommit"}

Calls == {"idle", "lock", "release"} \cup ReadCalls \cup WriteCalls \cup PublishCalls

Locals ==
  [run      : Runs \cup {NoRun},  \* the run being executed
   batches  : 0..MaxBatches,      \* size of the snapshot loaded for initTx
   ready    : BOOLEAN,            \* the RUNNING run found had equal watermarks
   batch    : 0..MaxBatches,      \* the batch being processed
   pages    : Nat,                \* pagesFetched of this attempt
   next     : Nat,                \* next row of the fetched page to stage
   last     : Nat,                \* last row of the fetched page
   wm       : 0..MaxWatermark,    \* metadata or page read from the source
   decision : {"NONE", "FAILED", "SOURCE_CHANGED"},
   live     : RowMaps]            \* rows promoted by an uncommitted publication

IdleLocals ==
  [run |-> NoRun, batches |-> 0, ready |-> FALSE, batch |-> 0, pages |-> 0, next |-> 0,
   last |-> 0, wm |-> 0, decision |-> "NONE", live |-> NoRows]

TypeOK ==
  /\ run \in [Runs -> RunRecords]
  /\ batch \in [Runs -> [BatchIds -> BatchRecords]]
  /\ staged \in [Runs -> RowMaps]
  /\ published \in [Runs -> RowMaps]
  /\ lock \in Workers \cup {NoWorker}
  /\ source \in Watermarks
  /\ pc \in [Workers -> Calls]
  /\ auth \in [Workers -> {"none", "held", "revoked"}]
  /\ loc \in [Workers -> Locals]
  /\ faults \in [injected : 0..MaxFaults, losses : 0..MaxLosses]

Init ==
  /\ run = [r \in Runs |-> [status |-> "ABSENT", init |-> FALSE, batches |-> 0,
                            startWm |-> 0, endWm |-> 0]]
  /\ batch = [r \in Runs |-> [b \in BatchIds |-> [status |-> "PENDING", attempts |-> 0]]]
  /\ staged = [r \in Runs |-> NoRows]
  /\ published = [r \in Runs |-> NoRows]
  /\ lock = NoWorker
  /\ source = 1
  /\ pc = [w \in Workers |-> "idle"]
  /\ auth = [w \in Workers |-> "none"]
  /\ loc = [w \in Workers |-> IdleLocals]
  /\ faults = [injected |-> 0, losses |-> 0]

-----------------------------------------------------------------------------
(* Control flow of a worker *)

ActiveRuns == {r \in Runs : run[r].status \in Active}
Batches(r) == 1..run[r].batches

MyRun(w)   == run[loc[w].run]
MyBatch(w) == batch[loc[w].run][loc[w].batch]

checkAuthorized(w) == auth[w] = "held"

Goto(w, call) == pc' = [pc EXCEPT ![w] = call]

(* assertAuthorized, then the next call: without authority the error       *)
(* unwinds execute() to its finally block, which releases the lock.        *)
GotoIfAuthorized(w, call) ==
  Goto(w, IF checkAuthorized(w) THEN call ELSE "release")

(* The completion of a call that leaves the database alone. *)
Reads(w, call) == pc[w] = call /\ UNCHANGED <<run, batch, staged, published, lock, source, auth, faults>>

(* The completion of a call of w that updates only the tables named. *)
Awaits(w, call) == pc[w] = call /\ UNCHANGED <<lock, source, auth, faults>>

(* Another worker's publication transaction holds the run's row lock. *)
RunRowLocked(r, w) ==
  \E v \in Workers \ {w} : pc[v] \in {"failCommit", "acceptCommit"} /\ loc[v].run = r

-----------------------------------------------------------------------------
(* Lock session: EcbIngestionLockService, IngestionExecutionAuthority *)

(* The scheduler's timer or the CLI calls the runner's execute(). *)
StartExecution(w) ==
  /\ pc[w] = "idle"
  /\ Goto(w, "lock")
  /\ UNCHANGED <<dbVars, lock, source, auth, loc, faults>>

(* pg_try_advisory_lock on a fresh session: a worker that does not get the *)
(* lock reports ACTIVE_EXECUTOR and is done.                               *)
Acquire(w) ==
  /\ pc[w] = "lock"
  /\ IF lock = NoWorker
       THEN /\ lock' = w
            /\ auth' = [auth EXCEPT ![w] = "held"]
            /\ Goto(w, "findActive")
       ELSE /\ Goto(w, "idle")
            /\ UNCHANGED <<lock, auth>>
  /\ UNCHANGED <<dbVars, source, loc, faults>>

(* The runner's finally block: deactivate, unlock, end the session.  After *)
(* a lost session the process exits instead, with the same outcome here.   *)
Release_lockKept(w) ==
  /\ pc[w] = "release"
  /\ Goto(w, "idle")
  /\ auth' = [auth EXCEPT ![w] = "none"]
  /\ loc' = [loc EXCEPT ![w] = IdleLocals]
  /\ UNCHANGED <<dbVars, lock, source, faults>>

Release(w) ==
  /\ pc[w] = "release"
  /\ Goto(w, "idle")
  /\ auth' = [auth EXCEPT ![w] = "none"]
  /\ lock' = IF lock = w THEN NoWorker ELSE lock
  /\ loc' = [loc EXCEPT ![w] = IdleLocals]
  /\ UNCHANGED <<dbVars, source, faults>>

-----------------------------------------------------------------------------
(* executeWithAuthority: choose the run, queue and initialise it *)

FindActive(w) ==
  /\ Reads(w, "findActive")
  /\ IF ActiveRuns = {}
       THEN IF \E r \in Runs : run[r].status = "ABSENT"
              THEN GotoIfAuthorized(w, "createRun") /\ UNCHANGED loc
              ELSE Goto(w, "release") /\ UNCHANGED loc   \* bound: no identity left
       ELSE \E r \in ActiveRuns :
              /\ loc' = [loc EXCEPT ![w].run = r,
                                    ![w].ready = run[r].endWm = run[r].startWm]
              /\ GotoIfAuthorized(w, IF run[r].status = "QUEUED" THEN "initFind"
                                                                  ELSE "resumeList")

(* The partial unique index refuses a second active run of the dataset. *)
mayCreate_noIndex == TRUE
mayCreate == ActiveRuns = {}

CreateQueuedRun(w) ==
  /\ Awaits(w, "createRun")
  /\ IF mayCreate /\ \E r \in Runs : run[r].status = "ABSENT"
       THEN \E r \in Runs :
              /\ run[r].status = "ABSENT"
              /\ run' = [run EXCEPT ![r].status = "QUEUED"]
              /\ loc' = [loc EXCEPT ![w].run = r]
              /\ GotoIfAuthorized(w, "initFind")
       ELSE Goto(w, "release") /\ UNCHANGED <<run, loc>>
  /\ UNCHANGED <<batch, staged, published>>

(* initializeAndStartRun: a run that another executor started meanwhile is *)
(* executed as it is, a terminal one is an error.                          *)
InitFind(w) ==
  /\ Reads(w, "initFind")
  /\ CASE MyRun(w).status = "RUNNING" -> GotoIfAuthorized(w, "listBatches")
       [] MyRun(w).status = "QUEUED" /\ ~MyRun(w).init -> GotoIfAuthorized(w, "loadBins")
       [] MyRun(w).status = "QUEUED" /\ MyRun(w).init -> GotoIfAuthorized(w, "startMetadata")
       [] OTHER -> Goto(w, "release")
  /\ UNCHANGED loc

(* The live BINs are read outside the transaction; here, only how many     *)
(* batches they make.                                                      *)
LoadBins(w) ==
  /\ Reads(w, "loadBins")
  /\ \E n \in 0..MaxBatches : loc' = [loc EXCEPT ![w].batches = n]
  /\ Goto(w, "initTx")

(* Snapshot, batch definitions and the initialisation seal in one          *)
(* transaction; the triggers and the sealed flag refuse a second one.      *)
InitTx(w) ==
  /\ Awaits(w, "initTx")
  /\ ~RunRowLocked(loc[w].run, w)
  /\ IF MyRun(w).init
       THEN Goto(w, "release") /\ UNCHANGED run
       ELSE /\ run' = [run EXCEPT ![loc[w].run].init = TRUE,
                                  ![loc[w].run].batches = loc[w].batches]
            /\ GotoIfAuthorized(w, "startMetadata")
  /\ UNCHANGED <<batch, staged, published, loc>>

StartMetadata(w) ==
  /\ Reads(w, "startMetadata")
  /\ loc' = [loc EXCEPT ![w].wm = source]
  /\ GotoIfAuthorized(w, "startTx")

(* The start watermark and RUNNING, if the run is still QUEUED. *)
mayStart_unguarded(r) == run[r].init
mayStart(r) == run[r].status = "QUEUED" /\ run[r].init /\ run[r].startWm = 0

StartTx(w) ==
  /\ Awaits(w, "startTx")
  /\ ~RunRowLocked(loc[w].run, w)
  /\ IF mayStart(loc[w].run)
       THEN /\ run' = [run EXCEPT ![loc[w].run].status = "RUNNING",
                                  ![loc[w].run].startWm = loc[w].wm]
            /\ GotoIfAuthorized(w, "listBatches")
       ELSE Goto(w, "release") /\ UNCHANGED run
  /\ UNCHANGED <<batch, staged, published, loc>>

-----------------------------------------------------------------------------
(* executeWithAuthority: resume a RUNNING run *)

Exhausted(b) == b.status = "FAILED" /\ b.attempts >= MaxAttempts

AllCompleted(r) == \A b \in Batches(r) : batch[r][b].status = "COMPLETED"

Decide(w, decision) == loc' = [loc EXCEPT ![w].decision = decision]

(* A persisted exhausted batch decides FAILED at once; a run whose equal   *)
(* end watermark was persisted goes on to the readiness check; any other   *)
(* run must prove that the source has not moved.                           *)
ResumeList(w) ==
  /\ Reads(w, "resumeList")
  /\ IF \E b \in Batches(loc[w].run) : Exhausted(batch[loc[w].run][b])
       THEN Decide(w, "FAILED") /\ GotoIfAuthorized(w, "failTx")
       ELSE /\ UNCHANGED loc
            /\ IF loc[w].ready THEN Goto(w, "readyList")
                               ELSE GotoIfAuthorized(w, "resumeMetadata")

(* isPersistedRunReadyForPublication: publish without asking the source. *)
ReadyList(w) ==
  /\ Reads(w, "readyList")
  /\ GotoIfAuthorized(w, IF AllCompleted(loc[w].run) THEN "acceptTx" ELSE "resumeMetadata")
  /\ UNCHANGED loc

(* rejectResumeOnWatermarkMismatch. *)
sourceMatches_endWatermark(r) == source = run[r].endWm
sourceMatches(r) == source = run[r].startWm

ResumeMetadata(w) ==
  /\ Reads(w, "resumeMetadata")
  /\ IF sourceMatches(loc[w].run)
       THEN GotoIfAuthorized(w, "listBatches") /\ UNCHANGED loc
       ELSE Decide(w, "SOURCE_CHANGED") /\ GotoIfAuthorized(w, "failTx")

-----------------------------------------------------------------------------
(* processPersistedBatches *)

Incomplete(r) == {b \in Batches(r) : batch[r][b].status # "COMPLETED"}

ListBatches(w) ==
  LET r == loc[w].run
  IN /\ Reads(w, "listBatches")
     /\ IF Incomplete(r) = {}
          THEN GotoIfAuthorized(w, "endMetadata") /\ UNCHANGED loc
          ELSE \E b \in Incomplete(r) :
                 /\ \A c \in Incomplete(r) : b <= c
                 /\ IF Exhausted(batch[r][b])
                      THEN Decide(w, "FAILED") /\ GotoIfAuthorized(w, "failTx")
                      ELSE /\ loc' = [loc EXCEPT ![w].batch = b]
                           /\ GotoIfAuthorized(w, "findBatch")

-----------------------------------------------------------------------------
(* EcbBatchProcessorService: one logical attempt of a batch *)

(* A write of w to the batch it processes. *)
WritesBatch(w, call, record) ==
  /\ Awaits(w, call)
  /\ batch' = [batch EXCEPT ![loc[w].run][loc[w].batch] = record]
  /\ UNCHANGED <<run, staged, published>>

budgetSpent_offByOne(b) == b.attempts > MaxAttempts
budgetSpent(b) == b.attempts >= MaxAttempts

(* The attempt budget is checked on the row read here, and nothing checks  *)
(* authority between this read and the two writes that follow it.          *)
FindBatch(w) ==
  /\ Reads(w, "findBatch")
  /\ CASE MyBatch(w).status = "COMPLETED"     -> GotoIfAuthorized(w, "listBatches")
       [] MyBatch(w).status # "COMPLETED"
            /\ budgetSpent(MyBatch(w))        -> Goto(w, "markExhausted")
       [] OTHER                               -> Goto(w, "incrementAttempt")
  /\ UNCHANGED loc

(* The budget is exhausted: the batch and with it the run fail. *)
MarkExhausted_statusKept(w) ==
  /\ WritesBatch(w, "markExhausted", MyBatch(w))
  /\ Decide(w, "FAILED")
  /\ GotoIfAuthorized(w, "failTx")

MarkExhausted(w) ==
  /\ WritesBatch(w, "markExhausted", [MyBatch(w) EXCEPT !.status = "FAILED"])
  /\ Decide(w, "FAILED")
  /\ GotoIfAuthorized(w, "failTx")

IncrementAttempt(w) ==
  /\ WritesBatch(w, "incrementAttempt", [MyBatch(w) EXCEPT !.attempts = @ + 1])
  /\ Goto(w, "setRunning")
  /\ UNCHANGED loc

(* An attempt starts at the first page whatever an earlier one fetched. *)
SetRunning_pagesKept(w) ==
  /\ WritesBatch(w, "setRunning", [MyBatch(w) EXCEPT !.status = "RUNNING"])
  /\ GotoIfAuthorized(w, "fetchPage")
  /\ UNCHANGED loc

SetRunning(w) ==
  /\ WritesBatch(w, "setRunning", [MyBatch(w) EXCEPT !.status = "RUNNING"])
  /\ loc' = [loc EXCEPT ![w].pages = 0]
  /\ GotoIfAuthorized(w, "fetchPage")

(* One page of the batch's rows as the source has them now; the offset     *)
(* counts the full pages fetched so far.                                   *)
FetchPage(w) ==
  LET offset == loc[w].pages * PageSize
      rows   == RowCount[loc[w].batch][source]
      end    == IF rows <= offset THEN offset
                ELSE IF rows <= offset + PageSize THEN rows ELSE offset + PageSize
  IN /\ Reads(w, "fetchPage")
     /\ loc' = [loc EXCEPT ![w].pages = @ + 1, ![w].next = offset + 1,
                           ![w].last = end, ![w].wm = source]
     /\ GotoIfAuthorized(w, IF offset < end THEN "stageRow" ELSE "updateProgress")

(* The staging upsert replaces what an earlier attempt staged for the row; *)
(* authority is checked before each row.                                   *)
StageRow(w) ==
  /\ Awaits(w, "stageRow")
  /\ staged' = [staged EXCEPT ![loc[w].run][loc[w].batch][loc[w].next] = loc[w].wm]
  /\ loc' = [loc EXCEPT ![w].next = @ + 1]
  /\ IF loc[w].next = loc[w].last THEN Goto(w, "updateProgress")
                                  ELSE GotoIfAuthorized(w, "stageRow")
  /\ UNCHANGED <<run, batch, published>>

(* A short page ends the batch; a full one may be the last page allowed. *)
isTerminalPage_fullToo(l) == l.last <= l.pages * PageSize
isTerminalPage(l) == l.last < l.pages * PageSize

UpdateProgress(w) ==
  /\ Awaits(w, "updateProgress")
  /\ CASE isTerminalPage(loc[w]) -> GotoIfAuthorized(w, "markCompleted")
       [] ~isTerminalPage(loc[w]) /\ loc[w].pages >= MaxPages -> Goto(w, "markPageLimit")
       [] OTHER -> GotoIfAuthorized(w, "fetchPage")
  /\ UNCHANGED <<dbVars, loc>>

MarkCompleted(w) ==
  /\ WritesBatch(w, "markCompleted", [MyBatch(w) EXCEPT !.status = "COMPLETED"])
  /\ GotoIfAuthorized(w, "listBatches")
  /\ UNCHANGED loc

(* A failed page or row leaves the batch to be retried. *)
MarkFailed(w) ==
  /\ WritesBatch(w, "markFailed", [MyBatch(w) EXCEPT !.status = "FAILED"])
  /\ GotoIfAuthorized(w, "listBatches")
  /\ UNCHANGED loc

(* FAILED_PAGE_LIMIT fails the run, whatever is left of the budget. *)
MarkPageLimit(w) ==
  /\ WritesBatch(w, "markPageLimit", [MyBatch(w) EXCEPT !.status = "FAILED"])
  /\ Decide(w, "FAILED")
  /\ GotoIfAuthorized(w, "failTx")

-----------------------------------------------------------------------------
(* finalizePublicationHandoff *)

EndMetadata_cached(w) ==
  /\ Reads(w, "endMetadata")
  /\ loc' = [loc EXCEPT ![w].wm = MyRun(w).startWm]
  /\ GotoIfAuthorized(w, "persistEnd")

EndMetadata(w) ==
  /\ Reads(w, "endMetadata")
  /\ loc' = [loc EXCEPT ![w].wm = source]
  /\ GotoIfAuthorized(w, "persistEnd")

(* The end watermark is persisted before it is compared. *)
PersistEnd(w) ==
  /\ Awaits(w, "persistEnd")
  /\ ~RunRowLocked(loc[w].run, w)
  /\ run' = [run EXCEPT ![loc[w].run].endWm = loc[w].wm]
  /\ IF loc[w].wm = MyRun(w).startWm
       THEN GotoIfAuthorized(w, "acceptTx") /\ UNCHANGED loc
       ELSE Decide(w, "SOURCE_CHANGED") /\ GotoIfAuthorized(w, "failTx")
  /\ UNCHANGED <<batch, staged, published>>

-----------------------------------------------------------------------------
(* Publication transactions.  Each validates the run under its row lock,   *)
(* asserts authority after every await and once more before COMMIT; the    *)
(* commit itself is a second await, after the last assertion.              *)

(* TerminalPublicationService: SOURCE_CHANGED needs a RUNNING run. *)
mayFail(r, decision) ==
  \/ run[r].status = "RUNNING" /\ run[r].init /\ run[r].startWm # 0
  \/ run[r].status \in Active /\ decision = "FAILED"

FailTx(w) ==
  /\ Reads(w, "failTx")
  /\ ~RunRowLocked(loc[w].run, w)
  /\ IF mayFail(loc[w].run, loc[w].decision) THEN GotoIfAuthorized(w, "failCommit")
                                             ELSE Goto(w, "release")
  /\ UNCHANGED loc

FailCommit(w) ==
  /\ Awaits(w, "failCommit")
  /\ run' = [run EXCEPT ![loc[w].run].status = loc[w].decision]
  /\ Goto(w, "release")
  /\ UNCHANGED <<batch, staged, published, loc>>

(* AcceptedPublicationService: lockAndValidateRun. *)
mayAccept(r) ==
  /\ run[r].status = "RUNNING"
  /\ run[r].init
  /\ run[r].startWm # 0
  /\ run[r].endWm = run[r].startWm
  /\ AllCompleted(r)

(* The staged rows of the run are promoted inside the transaction; a run   *)
(* found COMPLETED is a no-op, any other invalid one an error.             *)
AcceptTx(w) ==
  /\ Reads(w, "acceptTx")
  /\ ~RunRowLocked(loc[w].run, w)
  /\ IF mayAccept(loc[w].run) /\ checkAuthorized(w)
       THEN /\ loc' = [loc EXCEPT ![w].live = staged[loc[w].run]]
            /\ Goto(w, "acceptCommit")
       ELSE UNCHANGED loc /\ Goto(w, "release")

AcceptCommit(w) ==
  /\ Awaits(w, "acceptCommit")
  /\ run' = [run EXCEPT ![loc[w].run].status = "COMPLETED"]
  /\ published' = [published EXCEPT ![loc[w].run] = loc[w].live]
  /\ Goto(w, "release")
  /\ UNCHANGED <<batch, staged, loc>>

-----------------------------------------------------------------------------
(* The environment: the source moves, processes and sessions die, calls fail *)

(* The city republishes the dataset; rowsUpdatedAt moves with it. *)
SourceChange ==
  /\ source < MaxWatermark
  /\ source' = source + 1
  /\ UNCHANGED <<dbVars, lock, pc, auth, loc, faults>>

MayFault(kind) == kind \in FaultKinds /\ faults.injected < MaxFaults

Fault(kind) ==
  /\ MayFault(kind)
  /\ faults' = [faults EXCEPT !.injected = @ + 1]

(* w's lock session ends under it. *)
LosesSession(w, kind) ==
  /\ MayFault(kind)
  /\ faults.losses < MaxLosses
  /\ faults' = [injected |-> faults.injected + 1, losses |-> faults.losses + 1]
  /\ lock = w
  /\ auth[w] = "held"
  /\ lock' = NoWorker

(* The process dies: its session ends, an open transaction rolls back. *)
Crash(w) ==
  /\ Fault("crash")
  /\ pc[w] # "idle"
  /\ Goto(w, "idle")
  /\ auth' = [auth EXCEPT ![w] = "none"]
  /\ lock' = IF lock = w THEN NoWorker ELSE lock
  /\ loc' = [loc EXCEPT ![w] = IdleLocals]
  /\ UNCHANGED <<dbVars, source>>

(* The lock session dies and the client's error or end event revokes the   *)
(* authority and aborts; the call in flight still takes effect.            *)
SessionLoss(w) ==
  /\ LosesSession(w, "loss")
  /\ auth' = [auth EXCEPT ![w] = "revoked"]
  /\ UNCHANGED <<dbVars, source, pc, loc>>

(* The server ends the session and the client does not know yet ... *)
SilentSessionLoss(w) ==
  /\ LosesSession(w, "silentLoss")
  /\ UNCHANGED <<dbVars, source, pc, auth, loc>>

(* ... until its socket reports it. *)
NoticeLoss(w) ==
  /\ auth[w] = "held"
  /\ lock # w
  /\ auth' = [auth EXCEPT ![w] = "revoked"]
  /\ UNCHANGED <<dbVars, lock, source, pc, loc, faults>>

(* A Socrata request fails after its retries: a metadata failure unwinds   *)
(* execute(), a page failure fails the attempt.                            *)
HttpFailure(w) ==
  /\ Fault("http")
  /\ \/ pc[w] \in {"startMetadata", "resumeMetadata", "endMetadata"} /\ Goto(w, "release")
     \/ pc[w] = "fetchPage" /\ GotoIfAuthorized(w, "markFailed")
  /\ UNCHANGED <<dbVars, lock, source, auth, loc>>

(* Metadata the client classifies as not retryable ends the run, but only  *)
(* while its start watermark is being read.                                *)
HttpTerminalFailure(w) ==
  /\ Fault("httpTerminal")
  /\ pc[w] = "startMetadata"
  /\ Decide(w, "FAILED")
  /\ GotoIfAuthorized(w, "failTx")
  /\ UNCHANGED <<dbVars, lock, source, auth>>

(* A database call fails and changes nothing: inside the attempt's try the *)
(* batch is marked failed, anywhere else the error unwinds execute().      *)
AttemptCalls == {"stageRow", "updateProgress", "markCompleted", "markPageLimit"}
HttpCalls    == {"startMetadata", "resumeMetadata", "endMetadata", "fetchPage"}

DbFailure(w) ==
  /\ Fault("db")
  /\ pc[w] \in Calls \ (HttpCalls \cup {"idle", "release"})
  /\ CASE pc[w] \in AttemptCalls -> GotoIfAuthorized(w, "markFailed")
       [] pc[w] = "lock"         -> Goto(w, "idle")
       [] OTHER                  -> Goto(w, "release")
  /\ UNCHANGED <<dbVars, lock, source, auth, loc>>

-----------------------------------------------------------------------------
(* The specification *)

Step(w) ==
  \/ StartExecution(w) \/ Acquire(w) \/ Release(w)
  \/ FindActive(w) \/ CreateQueuedRun(w) \/ InitFind(w) \/ LoadBins(w)
  \/ InitTx(w) \/ StartMetadata(w) \/ StartTx(w)
  \/ ResumeList(w) \/ ReadyList(w) \/ ResumeMetadata(w)
  \/ ListBatches(w) \/ FindBatch(w) \/ MarkExhausted(w) \/ IncrementAttempt(w)
  \/ SetRunning(w) \/ FetchPage(w) \/ StageRow(w) \/ UpdateProgress(w)
  \/ MarkCompleted(w) \/ MarkFailed(w) \/ MarkPageLimit(w)
  \/ EndMetadata(w) \/ PersistEnd(w)
  \/ FailTx(w) \/ FailCommit(w) \/ AcceptTx(w) \/ AcceptCommit(w)

Environment(w) ==
  \/ Crash(w) \/ SessionLoss(w) \/ SilentSessionLoss(w) \/ NoticeLoss(w)
  \/ HttpFailure(w) \/ HttpTerminalFailure(w) \/ DbFailure(w)

Next ==
  \/ SourceChange
  \/ \E w \in Workers : Step(w) \/ Environment(w)

(* Every awaited call completes, the timer of an idle worker fires again,  *)
(* and a dead socket is eventually noticed.  Nothing else is fair.         *)
Fairness == \A w \in Workers : WF_vars(Step(w)) /\ WF_vars(NoticeLoss(w))

Spec     == Init /\ [][Next]_vars
FairSpec == Spec /\ Fairness

-----------------------------------------------------------------------------
(* Properties *)

RowsAt(b, v) == [i \in 1..MaxRows |-> IF i <= RowCount[b][v] THEN v ELSE 0]

(* At most one run of the dataset is active, even when an executor whose   *)
(* session was lost still has createQueuedRun in flight.                   *)
OneActiveRun == \A r, s \in ActiveRuns : r = s

(* What an accepted run promoted is exactly the source as it stood at the  *)
(* run's start watermark: every row of every batch, no row of another      *)
(* source state, whatever attempts, crashes and resumes lie in between.    *)
AcceptedIsSourceSnapshot ==
  \A r \in Runs : run[r].status = "COMPLETED" =>
    \A b \in BatchIds :
      published[r][b] = IF b \in Batches(r) THEN RowsAt(b, run[r].startWm)
                                            ELSE [i \in 1..MaxRows |-> 0]

(* rows holds every row that the source had at the start watermark of r,   *)
(* and none that was read before r started.                                *)
Covers(r, rows) ==
  \A b \in Batches(r), i \in 1..MaxRows :
    \/ rows[b][i] \in run[r].startWm..source
    \/ rows[b][i] = 0 /\ RowsAt(b, run[r].startWm)[i] = 0

(* Whatever sessions are lost, noticed or not: what an accepted run        *)
(* promoted misses no row of the source it was started for and holds no    *)
(* older one.  Late writes can only have made some of its rows newer.      *)
AcceptedRowsAreCurrent ==
  \A r \in Runs : run[r].status = "COMPLETED" => Covers(r, published[r])

(* While the source has not moved since the run started, a COMPLETED batch *)
(* has all its rows staged: completion is never recorded for an attempt    *)
(* that skipped a page or a row.                                           *)
CompletedBatchIsStaged ==
  \A r \in Runs : run[r].status = "RUNNING" /\ source = run[r].startWm =>
    \A b \in Batches(r) :
      batch[r][b].status = "COMPLETED" => staged[r][b] = RowsAt(b, source)

(* No batch gets more logical attempts than MAX_BATCH_ATTEMPTS_PER_RUN,    *)
(* although the budget is checked and spent in separate calls; executors   *)
(* that lost their session overspend it by one attempt per lost session at *)
(* most.                                                                   *)
AttemptBudget ==
  \A r \in Runs, b \in BatchIds : batch[r][b].attempts <= MaxAttempts + faults.losses

(* An accepted run is never written again: an end watermark that a         *)
(* superseded executor still has in flight cannot contradict the watermark *)
(* the run was accepted at.                                                *)
AcceptedRunFrozen ==
  [][\A r \in Runs : run[r].status = "COMPLETED" => run'[r] = run[r]]_vars

(* A RUNNING run is failed only while one of its batches is failed; with   *)
(* every batch retried to completion the run is never failed.              *)
FailureHasFailedBatch ==
  [][\A r \in Runs :
       run[r].status = "RUNNING" /\ run'[r].status = "FAILED" =>
         \E b \in Batches(r) : batch[r][b].status = "FAILED"]_vars

(* A run rejected as SOURCE_CHANGED really saw the source move.            *)
RejectionHasCause ==
  \A r \in Runs : run[r].status = "SOURCE_CHANGED" => run[r].startWm < source

(* Every run that becomes active reaches a terminal state: crashes, lost   *)
(* sessions and failed calls, once they stop, leave nothing stuck.         *)
ActiveRunTerminates ==
  \A r \in Runs : run[r].status \in Active ~> run[r].status \in Terminal

(* The run lifecycle is what RunLifecycle promises. *)
RL == INSTANCE RunLifecycle WITH
        status  <- [r \in Runs |-> run[r].status],
        sealed  <- [r \in Runs |-> run[r].init],
        startWm <- [r \in Runs |-> run[r].startWm]

ImplementsRunLifecycle == RL!RLSpec
=============================================================================
