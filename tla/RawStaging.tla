------------------------------- MODULE RawStaging -------------------------------
(***************************************************************************)
(* How a fetched source row becomes evidence and a candidate: the raw      *)
(* version of the row is stored first, under its source id and its         *)
(* :updated_at, and never replaced; then the row is validated and          *)
(* normalised, and staged for the run, the last one winning                *)
(* (raw-staging.service.ts, called row by row by the batch processor).     *)
(*                                                                         *)
(* A worker keeps a page in memory while the source changes, while it      *)
(* loses its authority and another worker takes the run over, and while a  *)
(* further run starts; its database call then still commits.  Any call may *)
(* fail, before or after it commits, and any worker may die.               *)
(*                                                                         *)
(* Which pages make up a batch, and when a run is accepted, is             *)
(* EcbIngestion; here a page is any set of the source's rows.              *)
(***************************************************************************)
EXTENDS Naturals, FiniteSets

CONSTANTS
  Workers,
  NoWorker,
  Sources,     \* source ids
  Contents,    \* what the source may say in a row
  MaxRuns,     \* bound: runs
  MaxClock     \* bound: source update times (:updated_at)

(* A field is well formed (OK), missing or blank (NULL), or refused (BAD). *)
(* An issue date may be the text "0", which means none, unlike the number. *)
ContentRecords ==
  [identity : {"OK", "BAD"}, updatedAt : {"OK", "NULL", "BAD"}, bin : {"OK", "NULL", "BAD"},
   issue : {"OK", "NULL", "BAD", "ZERO_TEXT", "ZERO_NUMBER"}]

ASSUME WorkersAssumption == NoWorker \notin Workers
ASSUME ContentsAssumption == Contents \subseteq ContentRecords
ASSUME RawBoundsAssumption == MaxRuns \in Nat /\ MaxClock \in Nat

VARIABLES
  source,      \* source[s]: the row of s and when it was written (0: no row)
  clock,       \* the latest :updated_at given out
  run,         \* the latest run
  startedAt,   \* startedAt[r]: the clock when run r started
  holder,      \* the worker with execution authority
  phase,       \* what a worker does
  workerRun,   \* the run it works for
  todo,        \* rows of its page it has not taken yet
  row,         \* the row it processes
  raw,         \* rows of ecb_violation_raw
  staged,      \* rows of ecb_violation_staging
  retained     \* rows of which an error said that their raw version is stored

sourceVars == <<source, clock>>
runVars    == <<run, startedAt, holder>>
workerVars == <<phase, workerRun, todo, row>>
storeVars  == <<raw, staged>>
vars == <<source, clock, run, startedAt, holder, phase, workerRun, todo, row, raw, staged, retained>>

Runs == 1..MaxRuns
Rows == [source : Sources, at : 1..MaxClock, content : Contents]
RawVersions == [source : Sources, at : 1..MaxClock, content : Contents, firstSeenRun : Runs]
Candidates == [run : Runs, source : Sources, at : 1..MaxClock, issue : {"DATE", "NULL"}]
Keys == [source : Sources, at : 1..MaxClock]

Init ==
  /\ source = [s \in Sources |-> {}]
  /\ clock = 0
  /\ run = 0
  /\ startedAt = [r \in Runs |-> 0]
  /\ holder = NoWorker
  /\ phase = [w \in Workers |-> "idle"]
  /\ workerRun = [w \in Workers |-> 0]
  /\ todo = [w \in Workers |-> {}]
  /\ row = [w \in Workers |-> {}]
  /\ raw = {}
  /\ staged = {}
  /\ retained = {}

-----------------------------------------------------------------------------
(* External: a row is written, with a later :updated_at than all before    *)
(* (in milliseconds, the precision that parseIsoTimestamp keeps), or       *)
(* deleted.                                                                *)
SourceUpdate(s, content) ==
  /\ clock < MaxClock
  /\ clock' = clock + 1
  /\ source' = [source EXCEPT ![s] = {[source |-> s, at |-> clock + 1, content |-> content]}]
  /\ UNCHANGED <<runVars, workerVars, storeVars, retained>>

SourceDelete(s) ==
  /\ source[s] # {} /\ clock < MaxClock
  /\ clock' = clock + 1
  /\ source' = [source EXCEPT ![s] = {}]
  /\ UNCHANGED <<runVars, workerVars, storeVars, retained>>

(* The previous run has ended and w has taken the lock for the next one.   *)
(* Its metadata request finds the source's watermark.                      *)
StartRun(w) ==
  /\ holder = NoWorker /\ phase[w] = "idle" /\ run < MaxRuns
  /\ run' = run + 1
  /\ startedAt' = [startedAt EXCEPT ![run + 1] = clock]
  /\ holder' = w
  /\ workerRun' = [workerRun EXCEPT ![w] = run + 1]
  /\ UNCHANGED <<sourceVars, phase, todo, row, storeVars, retained>>

(* w resumes the run of a worker that is gone or no longer authorised. *)
ResumeRun(w) ==
  /\ holder = NoWorker /\ phase[w] = "idle" /\ run > 0
  /\ holder' = w
  /\ workerRun' = [workerRun EXCEPT ![w] = run]
  /\ UNCHANGED <<sourceVars, run, startedAt, phase, todo, row, storeVars, retained>>

(* The lock is released, or its session lost while calls are under way. *)
LoseAuthority ==
  /\ holder # NoWorker
  /\ holder' = NoWorker
  /\ UNCHANGED <<sourceVars, run, startedAt, workerVars, storeVars, retained>>

Crash(w) ==
  /\ phase[w] # "idle"
  /\ phase' = [phase EXCEPT ![w] = "idle"]
  /\ todo' = [todo EXCEPT ![w] = {}]
  /\ row' = [row EXCEPT ![w] = {}]
  /\ holder' = IF holder = w THEN NoWorker ELSE holder
  /\ UNCHANGED <<sourceVars, run, startedAt, workerRun, storeVars, retained>>

(* A page of the batch, which is read again from its start when retried. *)
FetchPage(w, sources) ==
  /\ holder = w /\ phase[w] = "idle"
  /\ todo' = [todo EXCEPT ![w] = UNION {source[s] : s \in sources}]
  /\ todo'[w] # {}
  /\ phase' = [phase EXCEPT ![w] = "page"]
  /\ UNCHANGED <<sourceVars, runVars, workerRun, row, storeVars, retained>>

-----------------------------------------------------------------------------
(* processPageRows checks the authority before every row. *)
TakeRow(w, r) ==
  /\ phase[w] = "page" /\ holder = w /\ r \in todo[w]
  /\ todo' = [todo EXCEPT ![w] = @ \ {r}]
  /\ row' = [row EXCEPT ![w] = {r}]
  /\ phase' = [phase EXCEPT ![w] = "raw"]
  /\ UNCHANGED <<sourceVars, runVars, workerRun, storeVars, retained>>

LeavePage(w) ==
  /\ phase[w] = "page" /\ (holder # w \/ todo[w] = {})
  /\ phase' = [phase EXCEPT ![w] = "idle"]
  /\ todo' = [todo EXCEPT ![w] = {}]
  /\ row' = [row EXCEPT ![w] = {}]
  /\ UNCHANGED <<sourceVars, runVars, workerRun, storeVars, retained>>

(* extractEcbSourceIdentity and the key of a raw version. *)
Identifiable(content) == content.identity = "OK" /\ content.updatedAt = "OK"

(* ecbViolationSchema and normalizeEcbViolation. *)
Normalizable(content) ==
  /\ Identifiable(content)
  /\ content.bin = "OK"
  /\ content.issue \notin {"BAD", "ZERO_NUMBER"}

(* parseIssueDate: no date, no text and the text "0" are one. *)
NormalIssue(content) == IF content.issue = "OK" THEN "DATE" ELSE "NULL"

HasVersion_ofRow(r) == \E v \in raw : v.source = r.source
HasVersion(r) == \E v \in raw : v.source = r.source /\ v.at = r.at

(* Upsert with an empty update: the first one stays. *)
StoreRaw_replace(r, n) ==
  raw' = {v \in raw : ~(v.source = r.source /\ v.at = r.at)} \cup
         {[source |-> r.source, at |-> r.at, content |-> r.content, firstSeenRun |-> n]}
StoreRaw(r, n) ==
  raw' = IF HasVersion(r) THEN raw
         ELSE raw \cup {[source |-> r.source, at |-> r.at, content |-> r.content,
                         firstSeenRun |-> n]}

(* Upsert on (run, source): the last one wins. *)
StageFor_latest(w) == run
StageFor(w) == workerRun[w]
StoreCandidate(r, n) ==
  staged' = {t \in staged : ~(t.run = n /\ t.source = r.source)} \cup
            {[run |-> n, source |-> r.source, at |-> r.at, issue |-> NormalIssue(r.content)]}

(* An EcbRowProcessingError leaves the page; the batch is marked failed. *)
Throw(w, r, rawPersisted) ==
  /\ retained' = IF rawPersisted THEN retained \cup {[source |-> r.source, at |-> r.at]}
                 ELSE retained
  /\ phase' = [phase EXCEPT ![w] = "idle"]
  /\ todo' = [todo EXCEPT ![w] = {}]
  /\ row' = [row EXCEPT ![w] = {}]

(* persistRaw of a row that no key can be given. *)
RefuseTransport(w) ==
  /\ phase[w] = "raw"
  /\ \E r \in row[w] : ~Identifiable(r.content) /\ Throw(w, r, FALSE)
  /\ UNCHANGED <<sourceVars, runVars, workerRun, storeVars>>

(* persistRaw, and normalizeEcbViolation when it has returned. *)
PersistRaw(w) ==
  /\ phase[w] = "raw"
  /\ \E r \in row[w] :
       /\ Identifiable(r.content)
       /\ StoreRaw(r, workerRun[w])
       /\ IF Normalizable(r.content)
          THEN phase' = [phase EXCEPT ![w] = "stage"] /\ UNCHANGED <<todo, row, retained>>
          ELSE Throw(w, r, TRUE)
  /\ UNCHANGED <<sourceVars, runVars, workerRun, staged>>

UpsertStaging(w) ==
  /\ phase[w] = "stage"
  /\ \E r \in row[w] : StoreCandidate(r, StageFor(w))
  /\ phase' = [phase EXCEPT ![w] = "page"]
  /\ row' = [row EXCEPT ![w] = {}]
  /\ UNCHANGED <<sourceVars, runVars, workerRun, todo, raw, retained>>

(* The call fails, or it has committed and its answer is lost. *)
RawFails(w) ==
  /\ phase[w] = "raw"
  /\ \E r \in row[w] :
       /\ Identifiable(r.content)
       /\ UNCHANGED raw \/ StoreRaw(r, workerRun[w])
       /\ Throw(w, r, FALSE)
  /\ UNCHANGED <<sourceVars, runVars, workerRun, staged>>

StagingFails(w) ==
  /\ phase[w] = "stage"
  /\ \E r \in row[w] :
       /\ UNCHANGED staged \/ StoreCandidate(r, StageFor(w))
       /\ Throw(w, r, TRUE)
  /\ UNCHANGED <<sourceVars, runVars, workerRun, raw>>

WorkerStep(w) ==
  \/ StartRun(w)
  \/ ResumeRun(w)
  \/ \E sources \in SUBSET Sources : FetchPage(w, sources)
  \/ \E r \in todo[w] : TakeRow(w, r)
  \/ LeavePage(w)
  \/ RefuseTransport(w)
  \/ PersistRaw(w)
  \/ UpsertStaging(w)
  \/ RawFails(w)
  \/ StagingFails(w)
  \/ Crash(w)

Next ==
  \/ \E s \in Sources, content \in Contents : SourceUpdate(s, content)
  \/ \E s \in Sources : SourceDelete(s)
  \/ LoseAuthority
  \/ \E w \in Workers : WorkerStep(w)

Spec == Init /\ [][Next]_vars

-----------------------------------------------------------------------------
TypeOK ==
  /\ source \in [Sources -> SUBSET Rows]
  /\ clock \in 0..MaxClock
  /\ run \in 0..MaxRuns
  /\ startedAt \in [Runs -> 0..MaxClock]
  /\ holder \in Workers \cup {NoWorker}
  /\ phase \in [Workers -> {"idle", "page", "raw", "stage"}]
  /\ workerRun \in [Workers -> 0..MaxRuns]
  /\ todo \in [Workers -> SUBSET Rows]
  /\ row \in [Workers -> SUBSET Rows]
  /\ raw \subseteq RawVersions
  /\ staged \subseteq Candidates
  /\ retained \subseteq Keys

(* Every candidate is what normalisation makes of a stored raw version     *)
(* with its source id and :updated_at, whichever worker and run stored the *)
(* one and the other: the candidates can be derived again without asking   *)
(* the source (docs/architecture/storage.md:39).                           *)
StagedIsDerivable ==
  \A t \in staged : \E v \in raw :
    /\ v.source = t.source /\ v.at = t.at
    /\ Normalizable(v.content) /\ t.issue = NormalIssue(v.content)

(* An error that says the raw version is stored is right, also when        *)
(* another run or a worker that has lost its authority stored it; what     *)
(* strict validation refuses stays available as evidence.                  *)
RefusedRowsKeepEvidence ==
  \A k \in retained : \E v \in raw : v.source = k.source /\ v.at = k.at

(* Nothing replaces or removes evidence: not a replayed page, a retry, a   *)
(* later run or a worker that is no longer authorised.                     *)
EvidenceIsImmutable == [][raw \subseteq raw' /\ \A v, u \in raw' :
                            v.source = u.source /\ v.at = u.at => v = u]_vars

(* While the source stands as it stood when a run started, the candidates  *)
(* of that run are current source rows, although workers of earlier runs,  *)
(* or that have lost their authority, are still storing what they fetched  *)
(* before.  (What the watermark comparison concludes from.)                *)
UnchangedSourceIsStagedAsIs ==
  run > 0 /\ startedAt[run] = clock =>
    \A t \in staged : t.run = run => \E r \in source[t.source] : r.at = t.at
=============================================================================
