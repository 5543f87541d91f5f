-------------------------- MODULE EcbIngestionProofs --------------------------
(***************************************************************************)
(* Proofs about EcbIngestion, for any set of workers and runs and any      *)
(* bounds: types, the one-active-run invariant, the refinement of          *)
(* RunLifecycle, and what is true of rejected, failed and accepted runs.   *)
(*                                                                         *)
(* None of them is inductive.  The strengthening IInv relates the program  *)
(* counter of every worker to its local variables and to the row of the    *)
(* run it executes (WorkerConsistent), the columns of a run to each other  *)
(* (RunConsistent), and states that the row lock makes open publication    *)
(* transactions exclusive (OneCommitPerRun).  WatermarkInv adds that no    *)
(* worker is ahead of the source; CoverInv says what is staged for a run   *)
(* and what each call of an executor may add while the source stands       *)
(* still; BudgetInv counts the attempts that executors without a session   *)
(* may still spend.  None of these says who holds the advisory lock: what  *)
(* they imply holds whatever sessions are lost.                            *)
(*                                                                         *)
(* Until a session is lost the executor is the holder of the lock          *)
(* (Exclusion), and SnapshotInv states what it has staged, completed and   *)
(* measured at each of its calls.  After one loss that is noticed there    *)
(* are two executors at most; FrozenInv says what the one without the lock *)
(* may still write while the other resumes, measures and accepts its run.  *)
(***************************************************************************)
EXTENDS EcbIngestion, FiniteSetTheorems, TLAPS

(* Calls made on behalf of a chosen run. *)
RunCalls == Calls \ {"idle", "lock", "findActive", "createRun", "release"}

(* Calls made once its initialisation is sealed. *)
SealedCalls == RunCalls \ {"initFind", "loadBins", "initTx"}

(* Calls of one batch attempt. *)
BatchCalls ==
  {"findBatch", "markExhausted", "incrementAttempt", "setRunning", "fetchPage",
   "stageRow", "updateProgress", "markCompleted", "markFailed", "markPageLimit"}

(* The commits of the publication transactions. *)
CommitCalls == {"failCommit", "acceptCommit"}

(* A worker about to complete call c with locals l. *)
WorkerConsistent(c, l) ==
  /\ c \in RunCalls => l.run \in Runs /\ run[l.run].status # "ABSENT"
  /\ c \in SealedCalls => run[l.run].init
  /\ c \in BatchCalls => l.batch \in BatchIds
  /\ c = "startTx" => l.wm \in Watermarks
  /\ c \in {"failTx", "failCommit"} => l.decision \in {"FAILED", "SOURCE_CHANGED"}
  /\ c = "failCommit" => mayFail(l.run, l.decision)
  /\ c = "acceptCommit" => run[l.run].status = "RUNNING"

RunConsistent(r) ==
  /\ run[r].status = "ABSENT" => ~run[r].init
  /\ run[r].status \notin {"ABSENT", "QUEUED"} => run[r].init
  /\ run[r].status = "RUNNING" => run[r].startWm # 0

OneCommitPerRun ==
  \A v, w \in Workers :
    pc[v] \in CommitCalls /\ pc[w] \in CommitCalls /\ loc[v].run = loc[w].run => v = w

ControlInv ==
  /\ \A w \in Workers : WorkerConsistent(pc[w], loc[w])
  /\ \A r \in Runs : RunConsistent(r)
  /\ OneCommitPerRun

IInv == TypeOK /\ ControlInv /\ OneActiveRun

-----------------------------------------------------------------------------
(* Type correctness of a step *)

LEMMA LocalsTyped == TypeOK => \A w \in Workers : loc[w] \in Locals /\ pc[w] \in Calls
  BY DEF TypeOK

LEMMA ZeroInRanges ==
  /\ 0 \in 0..MaxBatches /\ 0 \in 0..MaxWatermark /\ 0 \in 0..MaxRows
  /\ Watermarks \subseteq 0..MaxWatermark /\ BatchIds \subseteq 0..MaxBatches
  BY BoundsAssumption DEF Watermarks, BatchIds

LEMMA NoRowsTyped == NoRows \in RowMaps
  BY ZeroInRanges DEF NoRows, RowMaps

LEMMA IdleLocalsTyped == IdleLocals \in Locals
  BY ZeroInRanges, NoRowsTyped DEF IdleLocals, Locals

(* What fetching a page leaves in the locals, in two halves. *)
LEMMA PageLocalsTyped ==
  ASSUME NEW l \in Locals, NEW pages \in Nat, NEW next \in Nat, NEW last \in Nat,
         NEW wm \in 0..MaxWatermark
  PROVE  [l EXCEPT !.pages = pages, !.next = next, !.last = last, !.wm = wm] \in Locals
  <1> DEFINE k == [l EXCEPT !.pages = pages, !.next = next]
  <1>1. k \in Locals
    BY DEF Locals
  <1>2. [k EXCEPT !.last = last, !.wm = wm] \in Locals
    <2> HIDE DEF k
    <2> QED BY <1>1 DEF Locals
  <1>3. [l EXCEPT !.pages = pages, !.next = next, !.last = last, !.wm = wm] =
          [k EXCEPT !.last = last, !.wm = wm]
    OBVIOUS
  <1> QED BY <1>2, <1>3

LEMMA InitTypeOK == Init => TypeOK
  <1> SUFFICES ASSUME Init PROVE TypeOK
    OBVIOUS
  <1>1. run \in [Runs -> RunRecords] /\ batch \in [Runs -> [BatchIds -> BatchRecords]]
    BY ZeroInRanges DEF Init, RunRecords, BatchRecords
  <1>2. staged \in [Runs -> RowMaps] /\ published \in [Runs -> RowMaps]
    BY NoRowsTyped DEF Init
  <1>3. /\ source \in Watermarks /\ lock \in Workers \cup {NoWorker}
        /\ faults \in [injected : 0..MaxFaults, losses : 0..MaxLosses]
    BY BoundsAssumption DEF Init, Watermarks
  <1>4. loc \in [Workers -> Locals]
    BY IdleLocalsTyped DEF Init
  <1>5. pc \in [Workers -> Calls] /\ auth \in [Workers -> {"none", "held", "revoked"}]
    BY DEF Init, Calls
  <1> QED BY <1>1, <1>2, <1>3, <1>4, <1>5 DEF TypeOK

(* The parts of the state a step may change, typed after it. *)
DbTyped ==
  /\ run' \in [Runs -> RunRecords]
  /\ batch' \in [Runs -> [BatchIds -> BatchRecords]]
  /\ staged' \in [Runs -> RowMaps]
  /\ published' \in [Runs -> RowMaps]

SessionTyped ==
  /\ lock' \in Workers \cup {NoWorker}
  /\ auth' \in [Workers -> {"none", "held", "revoked"}]

WorkersTyped ==
  /\ pc' \in [Workers -> Calls]
  /\ loc' \in [Workers -> Locals]

EnvironmentTyped ==
  /\ source' \in Watermarks
  /\ faults' \in [injected : 0..MaxFaults, losses : 0..MaxLosses]

LEMMA TypeOKAfter ==
  ASSUME DbTyped, SessionTyped, WorkersTyped, EnvironmentTyped
  PROVE  TypeOK'
  BY DEF TypeOK, DbTyped, SessionTyped, WorkersTyped, EnvironmentTyped

LEMMA DbKept == ASSUME TypeOK, UNCHANGED dbVars PROVE DbTyped
  BY DEF TypeOK, DbTyped, dbVars

LEMMA SessionKept == ASSUME TypeOK, UNCHANGED <<lock, auth>> PROVE SessionTyped
  BY DEF TypeOK, SessionTyped

LEMMA EnvironmentKept == ASSUME TypeOK, UNCHANGED <<source, faults>> PROVE EnvironmentTyped
  BY DEF TypeOK, EnvironmentTyped

LEMMA StatusTyped ==
  ASSUME TypeOK, NEW r, NEW st \in Active \cup Terminal, run' = [run EXCEPT ![r].status = st]
  PROVE  run' \in [Runs -> RunRecords]
  <1>1. ASSUME r \in Runs PROVE [run[r] EXCEPT !.status = st] \in RunRecords
    BY <1>1 DEF TypeOK, RunRecords
  <1> QED BY <1>1 DEF TypeOK

LEMMA GotoTyped ==
  ASSUME TypeOK, NEW w \in Workers, NEW c \in Calls, Goto(w, c) \/ GotoIfAuthorized(w, c)
  PROVE  pc' \in [Workers -> Calls]
  <1>1. "release" \in Calls
    BY DEF Calls
  <1> QED BY <1>1 DEF TypeOK, Goto, GotoIfAuthorized

LEMMA DecideTyped ==
  ASSUME TypeOK, NEW w \in Workers, NEW d \in {"FAILED", "SOURCE_CHANGED"}, Decide(w, d)
  PROVE  loc' \in [Workers -> Locals]
  <1>1. [loc[w] EXCEPT !.decision = d] \in Locals
    BY LocalsTyped DEF Locals
  <1>2. loc' = [loc EXCEPT ![w] = [loc[w] EXCEPT !.decision = d]]
    BY DEF Decide
  <1> QED BY <1>1, <1>2 DEF TypeOK

(* A batch attempt's write, to whichever columns it sets. *)
LEMMA WritesBatchTyped ==
  ASSUME TypeOK, NEW w \in Workers, NEW c, NEW record, WritesBatch(w, c, record),
         loc[w].run \in Runs /\ loc[w].batch \in BatchIds => record \in BatchRecords
  PROVE  DbTyped /\ SessionTyped /\ EnvironmentTyped
  <1>1. batch' \in [Runs -> [BatchIds -> BatchRecords]]
    BY DEF WritesBatch, TypeOK
  <1> QED BY <1>1 DEF WritesBatch, Awaits, TypeOK, DbTyped, SessionTyped, EnvironmentTyped

(* The completion of a read: only w's program counter and locals change.   *)
LEMMA ReadTyped ==
  ASSUME TypeOK, NEW w \in Workers, NEW c, Reads(w, c), WorkersTyped
  PROVE  TypeOK'
  <1>1. DbTyped
    BY DbKept DEF Reads, dbVars
  <1>2. SessionTyped
    BY SessionKept DEF Reads
  <1>3. EnvironmentTyped
    BY EnvironmentKept DEF Reads
  <1> QED BY <1>1, <1>2, <1>3, TypeOKAfter

LEMMA StepTypeOK ==
  ASSUME TypeOK, ControlInv, NEW w \in Workers, Step(w)
  PROVE  TypeOK'
  <1> DEFINE l == loc[w]
  <1>0. l \in Locals /\ pc[w] \in Calls
    BY LocalsTyped
  <1>a. WorkerConsistent(pc[w], l)
    BY DEF ControlInv
  <1>b. UNCHANGED loc => loc' \in [Workers -> Locals]
    BY DEF TypeOK
  <1>1. CASE StartExecution(w)
    BY <1>1, GotoTyped DEF StartExecution, TypeOK, dbVars, Calls
  <1>2. CASE Acquire(w)
    <2>1. pc' \in [Workers -> Calls]
      BY <1>2, GotoTyped DEF Acquire, Calls, ReadCalls
    <2> QED BY <1>2, <2>1 DEF Acquire, TypeOK, dbVars
  <1>3. CASE Release(w)
    <2>1. pc' \in [Workers -> Calls]
      BY <1>3, GotoTyped DEF Release, Calls
    <2> QED BY <1>3, <2>1, IdleLocalsTyped DEF Release, TypeOK, dbVars
  <1>4. CASE FindActive(w)
    <2>1. pc' \in [Workers -> Calls]
      BY <1>4, GotoTyped DEF FindActive, Calls, ReadCalls, WriteCalls
    <2>2. ASSUME NEW r \in ActiveRuns,
                 loc' = [loc EXCEPT ![w].run = r,
                                    ![w].ready = run[r].endWm = run[r].startWm]
          PROVE  loc' \in [Workers -> Locals]
      <3>1. [l EXCEPT !.run = r, !.ready = run[r].endWm = run[r].startWm] \in Locals
        BY <1>0 DEF Locals, ActiveRuns
      <3> QED BY <2>2, <3>1 DEF TypeOK
    <2>3. loc' \in [Workers -> Locals]
      BY <1>4, <1>b, <2>2 DEF FindActive
    <2> QED BY <1>4, <2>1, <2>3, ReadTyped DEF FindActive, WorkersTyped
  <1>5. CASE CreateQueuedRun(w)
    <2>1. pc' \in [Workers -> Calls]
      BY <1>5, GotoTyped DEF CreateQueuedRun, Calls, ReadCalls
    <2>2. ASSUME NEW r \in Runs, loc' = [loc EXCEPT ![w].run = r]
          PROVE  loc' \in [Workers -> Locals]
      <3>1. [l EXCEPT !.run = r] \in Locals
        BY <1>0 DEF Locals
      <3> QED BY <2>2, <3>1 DEF TypeOK
    <2>3. loc' \in [Workers -> Locals]
      BY <1>5, <1>b, <2>2 DEF CreateQueuedRun
    <2>4. ASSUME NEW r \in Runs, run' = [run EXCEPT ![r].status = "QUEUED"]
          PROVE  run' \in [Runs -> RunRecords]
      BY <2>4, StatusTyped DEF Active
    <2>5. run' \in [Runs -> RunRecords]
      BY <1>5, <2>4 DEF CreateQueuedRun, TypeOK
    <2> QED BY <1>5, <2>1, <2>3, <2>5 DEF CreateQueuedRun, Awaits, TypeOK
  <1>6. CASE InitFind(w)
    <2>1. pc' \in [Workers -> Calls]
      BY <1>6, GotoTyped DEF InitFind, Calls, ReadCalls
    <2> QED BY <1>6, <1>b, <2>1, ReadTyped DEF InitFind, WorkersTyped
  <1>7. CASE LoadBins(w)
    <2>1. pc' \in [Workers -> Calls]
      BY <1>7, GotoTyped DEF LoadBins, Calls, WriteCalls
    <2>2. ASSUME NEW n \in 0..MaxBatches, loc' = [loc EXCEPT ![w].batches = n]
          PROVE  loc' \in [Workers -> Locals]
      <3>1. [l EXCEPT !.batches = n] \in Locals
        BY <1>0 DEF Locals
      <3> QED BY <2>2, <3>1 DEF TypeOK
    <2>3. loc' \in [Workers -> Locals]
      BY <1>7, <2>2 DEF LoadBins
    <2> QED BY <1>7, <2>1, <2>3, ReadTyped DEF LoadBins, WorkersTyped
  <1>8. CASE InitTx(w)
    <2>1. pc' \in [Workers -> Calls]
      BY <1>8, GotoTyped DEF InitTx, Calls, ReadCalls
    <2>2. l.batches \in 0..MaxBatches
      BY <1>0 DEF Locals
    <2>3. ASSUME run' = [run EXCEPT ![l.run].init = TRUE, ![l.run].batches = l.batches]
          PROVE  run' \in [Runs -> RunRecords]
      <3>1. l.run \in Runs
        BY <1>8, <1>a DEF InitTx, Awaits, WorkerConsistent, RunCalls, Calls, WriteCalls
      <3>2. [run[l.run] EXCEPT !.init = TRUE, !.batches = l.batches] \in RunRecords
        BY <2>2, <3>1, ZenonT(30) DEF TypeOK, RunRecords
      <3> QED BY <2>3, <3>1, <3>2 DEF TypeOK
    <2>4. run' \in [Runs -> RunRecords]
      BY <1>8, <2>3 DEF InitTx, TypeOK
    <2> QED BY <1>8, <2>1, <2>4 DEF InitTx, Awaits, TypeOK
  <1>9. CASE StartMetadata(w)
    <2>1. pc' \in [Workers -> Calls]
      BY <1>9, GotoTyped DEF StartMetadata, Calls, WriteCalls
    <2>2. [l EXCEPT !.wm = source] \in Locals
      BY <1>0, ZeroInRanges DEF Locals, TypeOK
    <2>3. loc' \in [Workers -> Locals]
      BY <1>9, <2>2 DEF StartMetadata, TypeOK
    <2> QED BY <1>9, <2>1, <2>3, ReadTyped DEF StartMetadata, WorkersTyped
  <1>10. CASE StartTx(w)
    <2>1. pc' \in [Workers -> Calls]
      BY <1>10, GotoTyped DEF StartTx, Calls, ReadCalls
    <2>2. l.wm \in 0..MaxWatermark
      BY <1>0 DEF Locals
    <2>3. ASSUME run' = [run EXCEPT ![l.run].status = "RUNNING", ![l.run].startWm = l.wm]
          PROVE  run' \in [Runs -> RunRecords]
      <3>1. l.run \in Runs
        BY <1>10, <1>a DEF StartTx, Awaits, WorkerConsistent, RunCalls, Calls, WriteCalls
      <3>2. [run[l.run] EXCEPT !.status = "RUNNING", !.startWm = l.wm] \in RunRecords
        BY <2>2, <3>1, ZenonT(30) DEF TypeOK, RunRecords, Active
      <3> QED BY <2>3, <3>1, <3>2 DEF TypeOK
    <2>4. run' \in [Runs -> RunRecords]
      BY <1>10, <2>3 DEF StartTx, TypeOK
    <2> QED BY <1>10, <2>1, <2>4 DEF StartTx, Awaits, TypeOK
  <1>11. CASE ResumeList(w)
    <2>1. pc' \in [Workers -> Calls]
      BY <1>11, GotoTyped DEF ResumeList, Calls, ReadCalls, PublishCalls
    <2>2. loc' \in [Workers -> Locals]
      BY <1>11, <1>b, DecideTyped DEF ResumeList
    <2> QED BY <1>11, <2>1, <2>2, ReadTyped DEF ResumeList, WorkersTyped
  <1>12. CASE ReadyList(w)
    <2>1. pc' \in [Workers -> Calls]
      BY <1>12, GotoTyped DEF ReadyList, Calls, ReadCalls, PublishCalls
    <2> QED BY <1>12, <1>b, <2>1, ReadTyped DEF ReadyList, WorkersTyped
  <1>13. CASE ResumeMetadata(w)
    <2>1. pc' \in [Workers -> Calls]
      BY <1>13, GotoTyped DEF ResumeMetadata, Calls, ReadCalls, PublishCalls
    <2>2. loc' \in [Workers -> Locals]
      BY <1>13, <1>b, DecideTyped DEF ResumeMetadata
    <2> QED BY <1>13, <2>1, <2>2, ReadTyped DEF ResumeMetadata, WorkersTyped
  <1>14. CASE ListBatches(w)
    <2>1. pc' \in [Workers -> Calls]
      BY <1>14, GotoTyped DEF ListBatches, Calls, ReadCalls, PublishCalls
    <2>2. ASSUME NEW b \in Incomplete(l.run), loc' = [loc EXCEPT ![w].batch = b]
          PROVE  loc' \in [Workers -> Locals]
      <3>1. l.run \in Runs
        BY <1>14, <1>a DEF ListBatches, Reads, WorkerConsistent, RunCalls, Calls, ReadCalls
      <3>2. run[l.run].batches \in 0..MaxBatches
        BY <3>1 DEF TypeOK, RunRecords
      <3>3. b \in 0..MaxBatches
        BY <3>2, BoundsAssumption DEF Incomplete, Batches
      <3>4. [l EXCEPT !.batch = b] \in Locals
        BY <1>0, <3>3 DEF Locals
      <3> QED BY <2>2, <3>4 DEF TypeOK
    <2>3. loc' \in [Workers -> Locals]
      BY <1>14, <1>b, <2>2, DecideTyped DEF ListBatches
    <2> QED BY <1>14, <2>1, <2>3, ReadTyped DEF ListBatches, WorkersTyped
  <1>15. CASE FindBatch(w)
    <2>1. pc' \in [Workers -> Calls]
      BY <1>15, GotoTyped DEF FindBatch, Calls, ReadCalls, WriteCalls
    <2> QED BY <1>15, <1>b, <2>1, ReadTyped DEF FindBatch, WorkersTyped
  <1>c. ASSUME l.run \in Runs, l.batch \in BatchIds
        PROVE  /\ \A st \in {"RUNNING", "COMPLETED", "FAILED"} :
                    [MyBatch(w) EXCEPT !.status = st] \in BatchRecords
               /\ [MyBatch(w) EXCEPT !.attempts = @ + 1] \in BatchRecords
    BY <1>c, SMTT(30) DEF TypeOK, MyBatch, BatchRecords
  <1>16. CASE MarkExhausted(w)
    <2>1. WorkersTyped
      BY <1>16, GotoTyped, DecideTyped DEF MarkExhausted, WorkersTyped, Calls, PublishCalls
    <2> QED BY <1>16, <1>c, <2>1, WritesBatchTyped, TypeOKAfter DEF MarkExhausted
  <1>17. CASE IncrementAttempt(w)
    <2>1. WorkersTyped
      BY <1>17, <1>b, GotoTyped DEF IncrementAttempt, WorkersTyped, Calls, WriteCalls
    <2> QED BY <1>17, <1>c, <2>1, WritesBatchTyped, TypeOKAfter DEF IncrementAttempt
  <1>18. CASE SetRunning(w)
    <2>1. pc' \in [Workers -> Calls]
      BY <1>18, GotoTyped DEF SetRunning, Calls, ReadCalls
    <2>2. [l EXCEPT !.pages = 0] \in Locals
      BY <1>0 DEF Locals
    <2>3. loc' \in [Workers -> Locals]
      BY <1>18, <2>2 DEF SetRunning, TypeOK
    <2> QED BY <1>18, <1>c, <2>1, <2>3, WritesBatchTyped, TypeOKAfter DEF SetRunning, WorkersTyped
  <1>19. CASE FetchPage(w)
    <2>1. pc' \in [Workers -> Calls]
      BY <1>19, GotoTyped DEF FetchPage, Calls, WriteCalls
    <2> DEFINE offset == l.pages * PageSize
               rows   == RowCount[l.batch][source]
               end    == IF rows <= offset THEN offset
                         ELSE IF rows <= offset + PageSize THEN rows ELSE offset + PageSize
    <2>2. l.batch \in BatchIds
      BY <1>19, <1>a DEF FetchPage, Reads, WorkerConsistent, BatchCalls
    <2>3. rows \in Nat
      BY <2>2, RowCountAssumption, BoundsAssumption DEF BatchIds, TypeOK, Watermarks
    <2>4. offset \in Nat
      BY <1>0, BoundsAssumption DEF Locals
    <2>5. end \in Nat
      BY <2>3, <2>4, BoundsAssumption
    <2>6. [l EXCEPT !.pages = @ + 1, !.next = offset + 1, !.last = end, !.wm = source] \in Locals
      <3> HIDE DEF offset, end
      <3>1. source \in 0..MaxWatermark
        BY ZeroInRanges DEF TypeOK
      <3>2. l.pages + 1 \in Nat /\ offset + 1 \in Nat
        BY <1>0, <2>4 DEF Locals
      <3> HIDE DEF l
      <3> QED BY <1>0, <2>5, <3>1, <3>2, PageLocalsTyped, Zenon
    <2>7. loc' = [loc EXCEPT ![w] =
                    [l EXCEPT !.pages = @ + 1, !.next = offset + 1, !.last = end, !.wm = source]]
      BY <1>19 DEF FetchPage
    <2>8. loc' \in [Workers -> Locals]
      <3> HIDE DEF offset, end
      <3> QED BY <2>6, <2>7 DEF TypeOK
    <2> QED BY <1>19, <2>1, <2>8, ReadTyped DEF FetchPage, WorkersTyped
  <1>20. CASE StageRow(w)
    <2>1. pc' \in [Workers -> Calls]
      BY <1>20, GotoTyped DEF StageRow, Calls, WriteCalls
    <2>2. [l EXCEPT !.next = @ + 1] \in Locals /\ l.wm \in 0..MaxWatermark
      BY <1>0 DEF Locals
    <2>3. loc' \in [Workers -> Locals]
      BY <1>20, <2>2 DEF StageRow, TypeOK
    <2>4. ASSUME NEW r \in Runs PROVE staged'[r] \in RowMaps
      <3>1. staged[r] \in RowMaps
        BY DEF TypeOK
      <3>2. staged'[r] \in {staged[r], [staged[r] EXCEPT ![l.batch][l.next] = l.wm]}
        BY <1>20 DEF StageRow, TypeOK
      <3>3. [staged[r] EXCEPT ![l.batch][l.next] = l.wm] \in RowMaps
        BY <2>2, <3>1 DEF RowMaps
      <3> QED BY <3>1, <3>2, <3>3
    <2>5. staged' \in [Runs -> RowMaps]
      BY <1>20, <2>4 DEF StageRow, TypeOK
    <2> QED BY <1>20, <2>1, <2>3, <2>5 DEF StageRow, Awaits, TypeOK
  <1>21. CASE UpdateProgress(w)
    <2>1. pc' \in [Workers -> Calls]
      BY <1>21, GotoTyped DEF UpdateProgress, Calls, ReadCalls, WriteCalls
    <2> QED BY <1>21, <2>1 DEF UpdateProgress, Awaits, TypeOK, dbVars
  <1>22. CASE MarkCompleted(w)
    <2>1. WorkersTyped
      BY <1>22, <1>b, GotoTyped DEF MarkCompleted, WorkersTyped, Calls, ReadCalls
    <2> QED BY <1>22, <1>c, <2>1, WritesBatchTyped, TypeOKAfter DEF MarkCompleted
  <1>23. CASE MarkFailed(w)
    <2>1. WorkersTyped
      BY <1>23, <1>b, GotoTyped DEF MarkFailed, WorkersTyped, Calls, ReadCalls
    <2> QED BY <1>23, <1>c, <2>1, WritesBatchTyped, TypeOKAfter DEF MarkFailed
  <1>24. CASE MarkPageLimit(w)
    <2>1. WorkersTyped
      BY <1>24, GotoTyped, DecideTyped DEF MarkPageLimit, WorkersTyped, Calls, PublishCalls
    <2> QED BY <1>24, <1>c, <2>1, WritesBatchTyped, TypeOKAfter DEF MarkPageLimit
  <1>25. CASE EndMetadata(w)
    <2>1. pc' \in [Workers -> Calls]
      BY <1>25, GotoTyped DEF EndMetadata, Calls, WriteCalls
    <2>2. [l EXCEPT !.wm = source] \in Locals
      BY <1>0, ZeroInRanges DEF Locals, TypeOK
    <2>3. loc' \in [Workers -> Locals]
      BY <1>25, <2>2 DEF EndMetadata, TypeOK
    <2> QED BY <1>25, <2>1, <2>3, ReadTyped DEF EndMetadata, WorkersTyped
  <1>26. CASE PersistEnd(w)
    <2>1. pc' \in [Workers -> Calls]
      BY <1>26, GotoTyped DEF PersistEnd, Calls, PublishCalls
    <2>2. loc' \in [Workers -> Locals]
      BY <1>26, <1>b, DecideTyped DEF PersistEnd
    <2>3. l.wm \in 0..MaxWatermark
      BY <1>0 DEF Locals
    <2>4. run' \in [Runs -> RunRecords]
      BY <1>26, <2>3, ZenonT(30) DEF PersistEnd, TypeOK, RunRecords
    <2> QED BY <1>26, <2>1, <2>2, <2>4 DEF PersistEnd, Awaits, TypeOK
  <1>27. CASE FailTx(w)
    <2>1. pc' \in [Workers -> Calls]
      BY <1>27, GotoTyped DEF FailTx, Calls, PublishCalls
    <2> QED BY <1>27, <1>b, <2>1, ReadTyped DEF FailTx, WorkersTyped
  <1>28. CASE FailCommit(w)
    <2>1. pc' \in [Workers -> Calls]
      BY <1>28, GotoTyped DEF FailCommit, Calls
    <2>2. l.decision \in {"FAILED", "SOURCE_CHANGED"}
      BY <1>28, <1>a DEF FailCommit, Awaits, WorkerConsistent
    <2>3. run' \in [Runs -> RunRecords]
      BY <1>28, <2>2, StatusTyped DEF FailCommit, Terminal
    <2> QED BY <1>28, <1>b, <2>1, <2>3 DEF FailCommit, Awaits, TypeOK
  <1>29. CASE AcceptTx(w)
    <2>1. pc' \in [Workers -> Calls]
      BY <1>29, GotoTyped DEF AcceptTx, Calls, PublishCalls
    <2>2. ASSUME loc' = [loc EXCEPT ![w].live = staged[l.run]]
          PROVE  loc' \in [Workers -> Locals]
      <3>1. l.run \in Runs
        BY <1>29, <1>a DEF AcceptTx, Reads, WorkerConsistent, RunCalls, Calls, PublishCalls
      <3>2. [l EXCEPT !.live = staged[l.run]] \in Locals
        BY <1>0, <3>1 DEF Locals, TypeOK
      <3> QED BY <2>2, <3>2 DEF TypeOK
    <2>3. loc' \in [Workers -> Locals]
      BY <1>29, <1>b, <2>2 DEF AcceptTx
    <2> QED BY <1>29, <2>1, <2>3, ReadTyped DEF AcceptTx, WorkersTyped
  <1>30. CASE AcceptCommit(w)
    <2>1. pc' \in [Workers -> Calls]
      BY <1>30, GotoTyped DEF AcceptCommit, Calls
    <2>2. l.live \in RowMaps
      BY <1>0 DEF Locals
    <2>3. run' \in [Runs -> RunRecords]
      BY <1>30, StatusTyped DEF AcceptCommit, Terminal
    <2>4. published' \in [Runs -> RowMaps]
      BY <1>30, <2>2 DEF AcceptCommit, TypeOK
    <2> QED BY <1>30, <1>b, <2>1, <2>3, <2>4 DEF AcceptCommit, Awaits, TypeOK
  <1> QED BY <1>1, <1>2, <1>3, <1>4, <1>5, <1>6, <1>7, <1>8, <1>9, <1>10, <1>11, <1>12,
             <1>13, <1>14, <1>15, <1>16, <1>17, <1>18, <1>19, <1>20, <1>21, <1>22, <1>23,
             <1>24, <1>25, <1>26, <1>27, <1>28, <1>29, <1>30
          DEF Step

LEMMA EnvironmentTypeOK ==
  ASSUME TypeOK, NEW w \in Workers, Environment(w) \/ SourceChange
  PROVE  TypeOK'
  <1>0. ASSUME NEW kind, Fault(kind)
        PROVE  faults' \in [injected : 0..MaxFaults, losses : 0..MaxLosses]
    BY <1>0, BoundsAssumption DEF Fault, MayFault, TypeOK
  <1>a. ASSUME NEW kind, LosesSession(w, kind)
        PROVE  faults' \in [injected : 0..MaxFaults, losses : 0..MaxLosses]
    BY <1>a, BoundsAssumption DEF LosesSession, MayFault, TypeOK
  <1>1. CASE SourceChange
    BY <1>1, BoundsAssumption DEF SourceChange, TypeOK, Watermarks, dbVars
  <1>2. CASE Crash(w)
    <2>1. pc' \in [Workers -> Calls]
      BY <1>2, GotoTyped DEF Crash, Calls
    <2> QED BY <1>0, <1>2, <2>1, IdleLocalsTyped DEF Crash, TypeOK, dbVars
  <1>b. ASSUME NEW kind, LosesSession(w, kind) PROVE lock' = NoWorker
    BY <1>b DEF LosesSession
  <1>3. CASE SessionLoss(w) \/ SilentSessionLoss(w) \/ NoticeLoss(w)
    <2>1. CASE SessionLoss(w)
      BY <1>a, <1>b, <2>1 DEF SessionLoss, TypeOK, dbVars
    <2>2. CASE SilentSessionLoss(w)
      BY <1>a, <1>b, <2>2 DEF SilentSessionLoss, TypeOK, dbVars
    <2>3. CASE NoticeLoss(w)
      BY <2>3 DEF NoticeLoss, TypeOK, dbVars
    <2> QED BY <1>3, <2>1, <2>2, <2>3
  <1>4. CASE HttpFailure(w)
    <2>1. pc' \in [Workers -> Calls]
      BY <1>4, GotoTyped DEF HttpFailure, Calls, WriteCalls
    <2> QED BY <1>0, <1>4, <2>1 DEF HttpFailure, TypeOK, dbVars
  <1>5. CASE HttpTerminalFailure(w)
    <2>1. pc' \in [Workers -> Calls]
      BY <1>5, GotoTyped DEF HttpTerminalFailure, Calls, PublishCalls
    <2>2. loc' \in [Workers -> Locals]
      BY <1>5, DecideTyped DEF HttpTerminalFailure
    <2> QED BY <1>0, <1>5, <2>1, <2>2 DEF HttpTerminalFailure, TypeOK, dbVars
  <1>6. CASE DbFailure(w)
    <2>1. pc' \in [Workers -> Calls]
      BY <1>6, GotoTyped DEF DbFailure, Calls, WriteCalls
    <2> QED BY <1>0, <1>6, <2>1 DEF DbFailure, TypeOK, dbVars
  <1> QED BY <1>1, <1>2, <1>3, <1>4, <1>5, <1>6 DEF Environment

LEMMA NextTypeOK == TypeOK /\ ControlInv /\ [Next]_vars => TypeOK'
  <1> SUFFICES ASSUME TypeOK, ControlInv, [Next]_vars PROVE TypeOK'
    OBVIOUS
  <1>1. CASE UNCHANGED vars
    BY <1>1 DEF vars, TypeOK
  <1>2. CASE SourceChange
    BY <1>2, BoundsAssumption DEF SourceChange, TypeOK, Watermarks, dbVars
  <1> QED BY <1>1, <1>2, StepTypeOK, EnvironmentTypeOK DEF Next

-----------------------------------------------------------------------------
(* How steps affect the control invariant *)

(* Only w's program counter and locals change. *)
WorkerOnly(w) ==
  \A v \in Workers \ {w} : pc'[v] = pc[v] /\ loc'[v] = loc[v]

(* A step that leaves ingestion_runs alone and opens no publication. *)
LEMMA LocalStep ==
  ASSUME TypeOK, ControlInv, NEW w \in Workers, run' = run, WorkerOnly(w),
         WorkerConsistent(pc[w], loc[w])', pc'[w] \notin CommitCalls
  PROVE  ControlInv'
  <1>1. ASSUME NEW v \in Workers PROVE WorkerConsistent(pc[v], loc[v])'
    <2>1. CASE v = w
      BY <2>1
    <2>2. CASE v # w
      BY <2>2 DEF ControlInv, WorkerOnly, WorkerConsistent, mayFail
    <2> QED BY <2>1, <2>2
  <1>2. \A r \in Runs : RunConsistent(r)'
    BY DEF ControlInv, RunConsistent
  <1>3. OneCommitPerRun'
    BY DEF ControlInv, OneCommitPerRun, WorkerOnly
  <1> QED BY <1>1, <1>2, <1>3 DEF ControlInv

(* A publication transaction takes the row lock of its run. *)
LEMMA LockStep ==
  ASSUME TypeOK, ControlInv, NEW w \in Workers, run' = run, WorkerOnly(w),
         WorkerConsistent(pc[w], loc[w])', ~RunRowLocked(loc[w].run, w),
         loc'[w].run = loc[w].run
  PROVE  ControlInv'
  <1>1. ASSUME NEW v \in Workers PROVE WorkerConsistent(pc[v], loc[v])'
    <2>1. CASE v = w
      BY <2>1
    <2>2. CASE v # w
      BY <2>2 DEF ControlInv, WorkerOnly, WorkerConsistent, mayFail
    <2> QED BY <2>1, <2>2
  <1>2. \A r \in Runs : RunConsistent(r)'
    BY DEF ControlInv, RunConsistent
  <1>3. OneCommitPerRun'
    BY DEF ControlInv, OneCommitPerRun, WorkerOnly, RunRowLocked, CommitCalls
  <1> QED BY <1>1, <1>2, <1>3 DEF ControlInv

(* A step that writes the row of run r, which nobody else has locked. *)
LEMMA RunStep ==
  ASSUME TypeOK, ControlInv, NEW w \in Workers, NEW r \in Runs, WorkerOnly(w),
         \A s \in Runs \ {r} : run'[s] = run[s],
         \A v \in Workers \ {w} : pc[v] \in CommitCalls => loc[v].run # r,
         run'[r].status # "ABSENT", run[r].init => run'[r].init,
         RunConsistent(r)',
         WorkerConsistent(pc[w], loc[w])', pc'[w] \notin CommitCalls
  PROVE  ControlInv'
  <1>1. ASSUME NEW v \in Workers PROVE WorkerConsistent(pc[v], loc[v])'
    <2>1. CASE v = w
      BY <2>1
    <2>2. CASE v # w
      <3>1. WorkerConsistent(pc[v], loc[v]) /\ pc'[v] = pc[v] /\ loc'[v] = loc[v]
        BY <2>2 DEF ControlInv, WorkerOnly
      <3>2. CASE loc[v].run = r
        <4>1. pc[v] \notin CommitCalls
          BY <2>2, <3>2
        <4> QED BY <3>1, <3>2, <4>1 DEF WorkerConsistent, CommitCalls
      <3>3. CASE loc[v].run # r
        <4>1. pc[v] \in RunCalls => run'[loc[v].run] = run[loc[v].run]
          BY <3>1, <3>3 DEF WorkerConsistent
        <4>2. SealedCalls \subseteq RunCalls /\ CommitCalls \subseteq RunCalls
          BY DEF SealedCalls, RunCalls, CommitCalls, Calls, PublishCalls
        <4> QED BY <3>1, <4>1, <4>2 DEF WorkerConsistent, mayFail, CommitCalls
      <3> QED BY <3>2, <3>3
    <2> QED BY <2>1, <2>2
  <1>2. \A s \in Runs : RunConsistent(s)'
    BY DEF ControlInv, RunConsistent
  <1>3. OneCommitPerRun'
    BY DEF ControlInv, OneCommitPerRun, WorkerOnly
  <1> QED BY <1>1, <1>2, <1>3 DEF ControlInv

LEMMA GotoEffect ==
  ASSUME TypeOK, NEW w \in Workers, NEW c, Goto(w, c) \/ GotoIfAuthorized(w, c)
  PROVE  /\ pc'[w] \in {c, "release"}
         /\ \A v \in Workers \ {w} : pc'[v] = pc[v]
  BY DEF TypeOK, Goto, GotoIfAuthorized

(* A worker that is not at work for a run is consistent with anything.     *)
LEMMA OffRun ==
  ASSUME NEW w \in Workers,
         pc'[w] \in {"idle", "lock", "findActive", "createRun", "release"}
  PROVE  WorkerConsistent(pc[w], loc[w])' /\ pc'[w] \notin CommitCalls
  BY DEF WorkerConsistent, RunCalls, SealedCalls, BatchCalls, CommitCalls

LEMMA LocUpdate ==
  ASSUME TypeOK, NEW w \in Workers, NEW l, loc' = [loc EXCEPT ![w] = l]
  PROVE  loc'[w] = l /\ \A v \in Workers \ {w} : loc'[v] = loc[v]
  BY DEF TypeOK

(* A step that stays inside a run: its next call asks for nothing that     *)
(* could have been lost.                                                   *)
LEMMA SameRunStep ==
  ASSUME TypeOK, ControlInv, NEW w \in Workers, run' = run, WorkerOnly(w),
         NEW c \in Calls \ CommitCalls, pc'[w] \in {c, "release"},
         pc[w] \in RunCalls,
         c \in SealedCalls => run[loc[w].run].init,
         loc'[w].run = loc[w].run,
         c \in BatchCalls => loc'[w].batch \in BatchIds,
         c = "startTx" => loc'[w].wm \in Watermarks,
         c = "failTx" => loc'[w].decision \in {"FAILED", "SOURCE_CHANGED"}
  PROVE  ControlInv'
  <1>1. WorkerConsistent(pc[w], loc[w])
    BY DEF ControlInv
  <1>2. CASE pc'[w] = "release"
    BY <1>2, OffRun, LocalStep
  <1>3. CASE pc'[w] = c
    <2>1. WorkerConsistent(pc[w], loc[w])'
      BY <1>1, <1>3 DEF WorkerConsistent, CommitCalls
    <2> QED BY <1>3, <2>1, LocalStep
  <1> QED BY <1>2, <1>3

LEMMA DecideEffect ==
  ASSUME TypeOK, NEW w \in Workers, NEW d, Decide(w, d)
  PROVE  /\ loc'[w].decision = d /\ loc'[w].run = loc[w].run
         /\ \A v \in Workers \ {w} : loc'[v] = loc[v]
  <1>1. loc[w] \in Locals
    BY LocalsTyped
  <1>2. loc' = [loc EXCEPT ![w] = [loc[w] EXCEPT !.decision = d]]
    BY DEF Decide
  <1>3. [loc[w] EXCEPT !.decision = d].decision = d
    BY <1>1 DEF Locals
  <1>4. [loc[w] EXCEPT !.decision = d].run = loc[w].run
    BY <1>1 DEF Locals
  <1>5. loc'[w] = [loc[w] EXCEPT !.decision = d]
    BY <1>2, LocUpdate
  <1> QED BY <1>2, <1>3, <1>4, <1>5, LocUpdate

(* The steps of a worker that leave ingestion_runs alone, up to the        *)
(* publication transactions.                                               *)
LEMMA LocalControl ==
  ASSUME TypeOK, ControlInv, NEW w \in Workers,
         \/ StartExecution(w) \/ Acquire(w) \/ Release(w) \/ FindActive(w)
         \/ InitFind(w) \/ LoadBins(w) \/ StartMetadata(w)
  PROVE  ControlInv'
  <1> DEFINE l == loc[w]
  <1>0. l \in Locals /\ pc[w] \in Calls /\ WorkerConsistent(pc[w], l)
    BY LocalsTyped DEF ControlInv
  <1>1. CASE StartExecution(w) \/ Acquire(w)
    <2>1. WorkerOnly(w) /\ pc'[w] \in {"idle", "lock", "findActive"} /\ run' = run
      BY <1>1, GotoEffect DEF StartExecution, Acquire, WorkerOnly, dbVars, TypeOK, Goto
    <2> QED BY <2>1, OffRun, LocalStep
  <1>2. CASE Release(w)
    <2>1. WorkerOnly(w) /\ pc'[w] = "idle" /\ run' = run
      BY <1>2 DEF Release, WorkerOnly, dbVars, TypeOK, Goto
    <2> QED BY <2>1, OffRun, LocalStep
  <1>3. CASE FindActive(w)
    <2>1. run' = run
      BY <1>3 DEF FindActive, Reads
    <2>2. CASE ActiveRuns = {}
      <3>1. WorkerOnly(w) /\ pc'[w] \in {"createRun", "release"}
        BY <1>3, <2>2, GotoEffect DEF FindActive, WorkerOnly
      <3> QED BY <2>1, <3>1, OffRun, LocalStep
    <2>3. CASE ActiveRuns # {}
      <3>1. PICK r \in ActiveRuns :
              /\ loc' = [loc EXCEPT ![w].run = r,
                                    ![w].ready = run[r].endWm = run[r].startWm]
              /\ GotoIfAuthorized(w, IF run[r].status = "QUEUED" THEN "initFind"
                                                                  ELSE "resumeList")
        BY <1>3, <2>3 DEF FindActive
      <3> DEFINE k == [l EXCEPT !.run = r, !.ready = run[r].endWm = run[r].startWm]
      <3>2. k.run = r
        BY <1>0 DEF Locals
      <3>3. loc'[w] = k /\ \A v \in Workers \ {w} : loc'[v] = loc[v]
        BY <3>1 DEF TypeOK
      <3>4. WorkerOnly(w)
        BY <3>1, <3>3, GotoEffect DEF WorkerOnly
      <3>5. r \in Runs /\ run[r].status \in Active /\ RunConsistent(r)
        BY DEF ActiveRuns, ControlInv
      <3>6. CASE pc'[w] = "release"
        BY <2>1, <3>4, <3>6, OffRun, LocalStep
      <3>7. CASE pc'[w] = "initFind"
        <4>1. WorkerConsistent(pc[w], loc[w])'
          BY <2>1, <3>2, <3>3, <3>5, <3>7
          DEF WorkerConsistent, SealedCalls, BatchCalls, Active
        <4> QED BY <2>1, <3>4, <3>7, <4>1, LocalStep DEF CommitCalls
      <3>8. CASE pc'[w] = "resumeList" /\ run[r].status # "QUEUED"
        <4>1. WorkerConsistent(pc[w], loc[w])'
          BY <2>1, <3>2, <3>3, <3>5, <3>8
          DEF WorkerConsistent, RunConsistent, BatchCalls, Active
        <4> QED BY <2>1, <3>4, <3>8, <4>1, LocalStep DEF CommitCalls
      <3> HIDE DEF k
      <3> QED BY <3>1, <3>6, <3>7, <3>8, GotoEffect
    <2> QED BY <2>2, <2>3
  <1>4. CASE InitFind(w)
    <2>1. run' = run /\ loc' = loc /\ pc[w] = "initFind"
      BY <1>4 DEF InitFind, Reads
    <2>2. pc[w] \in RunCalls /\ l.run \in Runs /\ RunConsistent(l.run)
      BY <1>0, <2>1 DEF RunCalls, Calls, ReadCalls, WorkerConsistent, ControlInv
    <2>3. PICK c \in {"listBatches", "loadBins", "startMetadata", "release"} :
            /\ Goto(w, c) \/ GotoIfAuthorized(w, c)
            /\ c \in {"listBatches", "startMetadata"} => run[l.run].init
      BY <1>4, <2>2 DEF InitFind, MyRun, RunConsistent
    <2>4. WorkerOnly(w) /\ pc'[w] \in {c, "release"}
      BY <2>1, <2>3, GotoEffect DEF WorkerOnly
    <2> QED BY <2>1, <2>2, <2>3, <2>4, SameRunStep
            DEF Calls, ReadCalls, CommitCalls, SealedCalls, BatchCalls
  <1>5. CASE LoadBins(w)
    <2>1. run' = run /\ pc[w] = "loadBins" /\ Goto(w, "initTx")
      BY <1>5 DEF LoadBins, Reads
    <2>2. PICK n \in 0..MaxBatches : loc' = [loc EXCEPT ![w] = [l EXCEPT !.batches = n]]
      BY <1>5 DEF LoadBins
    <2>3. loc'[w].run = l.run
      BY <1>0, <2>2, LocUpdate DEF Locals
    <2>4. WorkerOnly(w) /\ pc'[w] \in {"initTx", "release"}
      BY <2>1, <2>2, LocUpdate, GotoEffect DEF WorkerOnly
    <2>5. pc[w] \in RunCalls /\ "initTx" \in Calls \ CommitCalls
      BY <2>1 DEF RunCalls, Calls, ReadCalls, WriteCalls, CommitCalls
    <2> QED BY <2>1, <2>3, <2>4, <2>5, SameRunStep DEF SealedCalls, BatchCalls
  <1>6. CASE StartMetadata(w)
    <2>1. run' = run /\ pc[w] = "startMetadata" /\ GotoIfAuthorized(w, "startTx")
      BY <1>6 DEF StartMetadata, Reads
    <2>2. loc' = [loc EXCEPT ![w] = [l EXCEPT !.wm = source]]
      BY <1>6 DEF StartMetadata
    <2>3. loc'[w].run = l.run /\ loc'[w].wm = source
      <3>1. loc'[w] = [l EXCEPT !.wm = source]
        BY <2>2, LocUpdate
      <3> QED BY <1>0, <3>1 DEF Locals
    <2>4. WorkerOnly(w) /\ pc'[w] \in {"startTx", "release"}
      BY <2>1, <2>2, LocUpdate, GotoEffect DEF WorkerOnly
    <2>5. pc[w] \in RunCalls /\ pc[w] \in SealedCalls /\ "startTx" \in Calls \ CommitCalls
      BY <2>1 DEF RunCalls, SealedCalls, Calls, ReadCalls, WriteCalls, CommitCalls
    <2>6. run[l.run].init /\ source \in Watermarks
      BY <1>0, <2>5 DEF WorkerConsistent, TypeOK
    <2> QED BY <2>1, <2>3, <2>4, <2>5, <2>6, SameRunStep DEF BatchCalls
  <1> QED BY <1>1, <1>2, <1>3, <1>4, <1>5, <1>6

LEMMA CallSets ==
  /\ BatchCalls \subseteq SealedCalls
  /\ {"startMetadata", "startTx", "resumeList", "readyList", "resumeMetadata",
      "listBatches", "endMetadata", "persistEnd", "failTx", "acceptTx"}
       \subseteq (SealedCalls \ BatchCalls)
  /\ CommitCalls \subseteq (SealedCalls \ BatchCalls)
  /\ SealedCalls \subseteq RunCalls
  /\ RunCalls \subseteq Calls
  /\ "failTx" \notin CommitCalls /\ "acceptTx" \notin CommitCalls
  /\ BatchCalls \cap CommitCalls = {}
  BY DEF BatchCalls, SealedCalls, RunCalls, Calls, ReadCalls, WriteCalls, PublishCalls, CommitCalls

(* Within an attempt nothing about the run or the batch changes but the    *)
(* call, until the attempt ends or the run is to be failed.                *)
LEMMA AttemptStep ==
  ASSUME TypeOK, ControlInv, NEW w \in Workers, pc[w] \in BatchCalls, run' = run,
         NEW c \in BatchCalls \cup {"listBatches", "failTx"},
         Goto(w, c) \/ GotoIfAuthorized(w, c),
         \A v \in Workers \ {w} : loc'[v] = loc[v],
         loc'[w].run = loc[w].run,
         c \in BatchCalls => loc'[w].batch = loc[w].batch,
         c = "failTx" => loc'[w].decision = "FAILED"
  PROVE  ControlInv'
  <1>1. WorkerConsistent(pc[w], loc[w])
    BY DEF ControlInv
  <1>2. run[loc[w].run].init /\ loc[w].batch \in BatchIds
    BY <1>1, CallSets DEF WorkerConsistent
  <1>3. WorkerOnly(w) /\ pc'[w] \in {c, "release"}
    BY GotoEffect DEF WorkerOnly
  <1>4. c \in Calls \ CommitCalls /\ pc[w] \in RunCalls /\ c # "startTx"
    BY CallSets DEF CommitCalls, BatchCalls
  <1> QED BY <1>2, <1>3, <1>4, SameRunStep

LEMMA AttemptControl ==
  ASSUME TypeOK, ControlInv, NEW w \in Workers,
         \/ FindBatch(w) \/ MarkExhausted(w) \/ IncrementAttempt(w) \/ SetRunning(w)
         \/ FetchPage(w) \/ StageRow(w) \/ UpdateProgress(w) \/ MarkCompleted(w)
         \/ MarkFailed(w) \/ MarkPageLimit(w)
  PROVE  ControlInv'
  <1> DEFINE l == loc[w]
  <1>0. l \in Locals
    BY LocalsTyped
  <1>1. run' = run /\ pc[w] \in BatchCalls
    BY DEF FindBatch, MarkExhausted, IncrementAttempt, SetRunning, FetchPage, StageRow,
           UpdateProgress, MarkCompleted, MarkFailed, MarkPageLimit, Reads, Awaits,
           WritesBatch, BatchCalls, dbVars
  <1>2. ASSUME NEW c \in BatchCalls \cup {"listBatches"}, UNCHANGED loc,
               Goto(w, c) \/ GotoIfAuthorized(w, c)
        PROVE  ControlInv'
    BY <1>1, <1>2, AttemptStep DEF BatchCalls
  <1>3. ASSUME NEW c \in BatchCalls \cup {"listBatches"},
               NEW k, loc' = [loc EXCEPT ![w] = k], k.run = l.run, k.batch = l.batch,
               Goto(w, c) \/ GotoIfAuthorized(w, c)
        PROVE  ControlInv'
    BY <1>1, <1>3, AttemptStep, LocUpdate DEF BatchCalls
  <1>4. ASSUME Decide(w, "FAILED"), GotoIfAuthorized(w, "failTx") PROVE ControlInv'
    BY <1>1, <1>4, AttemptStep, DecideEffect DEF BatchCalls
  <1>5. CASE FindBatch(w) \/ IncrementAttempt(w) \/ UpdateProgress(w) \/ MarkCompleted(w)
             \/ MarkFailed(w)
    BY <1>2, <1>5 DEF FindBatch, IncrementAttempt, UpdateProgress, MarkCompleted, MarkFailed,
                      BatchCalls
  <1>6. CASE MarkExhausted(w) \/ MarkPageLimit(w)
    BY <1>4, <1>6 DEF MarkExhausted, MarkPageLimit
  <1>7. CASE SetRunning(w)
    <2> DEFINE k == [l EXCEPT !.pages = 0]
    <2>1. k.run = l.run /\ k.batch = l.batch
      BY <1>0 DEF Locals
    <2>2. loc' = [loc EXCEPT ![w] = k] /\ GotoIfAuthorized(w, "fetchPage")
      BY <1>7 DEF SetRunning
    <2> HIDE DEF k
    <2> QED BY <1>3, <2>1, <2>2 DEF BatchCalls
  <1>8. CASE FetchPage(w)
    <2>1. PICK pages, next, last :
            loc' = [loc EXCEPT ![w].pages = pages, ![w].next = next, ![w].last = last,
                               ![w].wm = source]
      BY <1>8 DEF FetchPage
    <2> DEFINE k == [l EXCEPT !.pages = pages, !.next = next, !.last = last, !.wm = source]
    <2>2. k.run = l.run /\ k.batch = l.batch
      BY <1>0 DEF Locals
    <2>3. loc' = [loc EXCEPT ![w] = k]
      BY <2>1
    <2>4. PICK c \in {"stageRow", "updateProgress"} : GotoIfAuthorized(w, c)
      BY <1>8 DEF FetchPage
    <2> HIDE DEF k
    <2> QED BY <1>3, <2>2, <2>3, <2>4 DEF BatchCalls
  <1>9. CASE StageRow(w)
    <2> DEFINE k == [l EXCEPT !.next = @ + 1]
    <2>1. k.run = l.run /\ k.batch = l.batch
      BY <1>0 DEF Locals
    <2>2. loc' = [loc EXCEPT ![w] = k]
      BY <1>9 DEF StageRow
    <2>3. PICK c \in {"stageRow", "updateProgress"} : Goto(w, c) \/ GotoIfAuthorized(w, c)
      BY <1>9 DEF StageRow
    <2> HIDE DEF k
    <2> QED BY <1>3, <2>1, <2>2, <2>3 DEF BatchCalls
  <1> QED BY <1>5, <1>6, <1>7, <1>8, <1>9

(* Between attempts: a call about the run as a whole is followed by        *)
(* another one, by a batch of the run, or by the decision to fail.         *)
LEMMA BetweenAttempts ==
  ASSUME TypeOK, ControlInv, NEW w \in Workers, pc[w] \in SealedCalls, run' = run,
         NEW c \in {"resumeMetadata", "readyList", "listBatches", "endMetadata", "persistEnd",
                    "acceptTx", "failTx", "findBatch"},
         Goto(w, c) \/ GotoIfAuthorized(w, c),
         \A v \in Workers \ {w} : loc'[v] = loc[v],
         loc'[w].run = loc[w].run,
         c = "findBatch" => loc'[w].batch \in BatchIds,
         c = "failTx" => loc'[w].decision \in {"FAILED", "SOURCE_CHANGED"}
  PROVE  ControlInv'
  <1>1. WorkerConsistent(pc[w], loc[w])
    BY DEF ControlInv
  <1>2. run[loc[w].run].init
    BY <1>1 DEF WorkerConsistent
  <1>3. WorkerOnly(w) /\ pc'[w] \in {c, "release"}
    BY GotoEffect DEF WorkerOnly
  <1>4. c \in Calls \ CommitCalls /\ pc[w] \in RunCalls /\ c # "startTx"
    BY CallSets DEF CommitCalls, BatchCalls
  <1>5. c \in BatchCalls => c = "findBatch"
    BY DEF BatchCalls
  <1> QED BY <1>2, <1>3, <1>4, <1>5, SameRunStep

LEMMA HandoffControl ==
  ASSUME TypeOK, ControlInv, NEW w \in Workers,
         ResumeList(w) \/ ReadyList(w) \/ ResumeMetadata(w) \/ ListBatches(w) \/ EndMetadata(w)
  PROVE  ControlInv'
  <1> DEFINE l == loc[w]
  <1>0. l \in Locals /\ WorkerConsistent(pc[w], l)
    BY LocalsTyped DEF ControlInv
  <1>1. run' = run /\ pc[w] \in SealedCalls
    BY CallSets DEF ResumeList, ReadyList, ResumeMetadata, ListBatches, EndMetadata, Reads
  <1>2. ASSUME UNCHANGED loc, NEW c \in {"resumeMetadata", "readyList", "listBatches",
                                        "endMetadata", "acceptTx"},
               Goto(w, c) \/ GotoIfAuthorized(w, c)
        PROVE  ControlInv'
    BY <1>1, <1>2, BetweenAttempts
  <1>3. ASSUME NEW d \in {"FAILED", "SOURCE_CHANGED"}, Decide(w, d), GotoIfAuthorized(w, "failTx")
        PROVE  ControlInv'
    BY <1>1, <1>3, BetweenAttempts, DecideEffect
  <1>4. CASE ResumeList(w)
    BY <1>2, <1>3, <1>4 DEF ResumeList
  <1>5. CASE ReadyList(w)
    BY <1>2, <1>5 DEF ReadyList
  <1>6. CASE ResumeMetadata(w)
    BY <1>2, <1>3, <1>6 DEF ResumeMetadata
  <1>7. CASE ListBatches(w)
    <2>1. ASSUME NEW b \in Incomplete(l.run), loc' = [loc EXCEPT ![w].batch = b],
                 GotoIfAuthorized(w, "findBatch")
          PROVE  ControlInv'
      <3> DEFINE k == [l EXCEPT !.batch = b]
      <3>1. k.run = l.run /\ k.batch = b
        BY <1>0 DEF Locals
      <3>2. loc' = [loc EXCEPT ![w] = k]
        BY <2>1
      <3>3. l.run \in Runs
        BY <1>0, <1>1, CallSets DEF WorkerConsistent
      <3>4. run[l.run].batches \in 0..MaxBatches
        BY <3>3 DEF TypeOK, RunRecords
      <3>5. b \in BatchIds
        BY <3>4, BoundsAssumption DEF Incomplete, Batches, BatchIds
      <3>6. loc'[w] = k /\ \A v \in Workers \ {w} : loc'[v] = loc[v]
        BY <3>2, LocUpdate
      <3> HIDE DEF k
      <3> QED BY <1>1, <2>1, <3>1, <3>5, <3>6, BetweenAttempts
    <2> QED BY <1>2, <1>3, <1>7, <2>1 DEF ListBatches
  <1>8. CASE EndMetadata(w)
    <2> DEFINE k == [l EXCEPT !.wm = source]
    <2>1. k.run = l.run
      BY <1>0 DEF Locals
    <2>2. loc' = [loc EXCEPT ![w] = k] /\ GotoIfAuthorized(w, "persistEnd")
      BY <1>8 DEF EndMetadata
    <2>3. loc'[w] = k /\ \A v \in Workers \ {w} : loc'[v] = loc[v]
      BY <2>2, LocUpdate
    <2> HIDE DEF k
    <2> QED BY <1>1, <2>1, <2>2, <2>3, BetweenAttempts
  <1> QED BY <1>4, <1>5, <1>6, <1>7, <1>8

LEMMA LockControl ==
  ASSUME TypeOK, ControlInv, NEW w \in Workers, FailTx(w) \/ AcceptTx(w)
  PROVE  ControlInv'
  <1> DEFINE l == loc[w]
  <1>0. l \in Locals /\ WorkerConsistent(pc[w], l)
    BY LocalsTyped DEF ControlInv
  <1>1. /\ run' = run /\ pc[w] \in {"failTx", "acceptTx"} /\ ~RunRowLocked(l.run, w)
        /\ pc[w] \in SealedCalls /\ pc[w] \in RunCalls
    BY CallSets DEF FailTx, AcceptTx, Reads
  <1>2. CASE FailTx(w)
    <2>1. WorkerOnly(w) /\ loc' = loc /\ pc[w] = "failTx"
      BY <1>2, GotoEffect DEF FailTx, Reads, WorkerOnly
    <2>2. pc'[w] = "release" \/ (pc'[w] = "failCommit" /\ mayFail(l.run, l.decision))
      BY <1>2, GotoEffect DEF FailTx
    <2>3. WorkerConsistent(pc[w], loc[w])'
      BY <1>0, <1>1, <2>1, <2>2, OffRun DEF WorkerConsistent, BatchCalls, mayFail
    <2> QED BY <1>1, <2>1, <2>3, LockStep
  <1>3. CASE AcceptTx(w)
    <2>1. CASE ~(mayAccept(l.run) /\ checkAuthorized(w))
      <3>1. WorkerOnly(w) /\ loc' = loc /\ pc'[w] = "release"
        BY <1>3, <2>1, GotoEffect DEF AcceptTx, WorkerOnly
      <3> QED BY <1>1, <3>1, OffRun, LocalStep
    <2>2. CASE mayAccept(l.run) /\ checkAuthorized(w)
      <3>1. Goto(w, "acceptCommit") /\ loc' = [loc EXCEPT ![w] = [l EXCEPT !.live = staged[l.run]]]
        BY <1>3, <2>2 DEF AcceptTx
      <3>2. pc'[w] = "acceptCommit"
        BY <3>1 DEF Goto, TypeOK
      <3>3. loc'[w] = [l EXCEPT !.live = staged[l.run]]
        BY <3>1, LocUpdate
      <3>4. loc'[w].run = l.run
        BY <1>0, <3>3 DEF Locals
      <3>5. WorkerOnly(w)
        BY <3>1, LocUpdate, GotoEffect DEF WorkerOnly
      <3>6. WorkerConsistent(pc[w], loc[w])'
        BY <1>0, <1>1, <2>2, <3>2, <3>4 DEF WorkerConsistent, BatchCalls, mayAccept
      <3> QED BY <1>1, <3>4, <3>5, <3>6, LockStep
    <2> QED BY <2>1, <2>2
  <1> QED BY <1>2, <1>3

LEMMA EnvironmentControl ==
  ASSUME TypeOK, ControlInv, NEW w \in Workers, Environment(w)
  PROVE  ControlInv'
  <1>0. loc[w] \in Locals /\ WorkerConsistent(pc[w], loc[w])
    BY LocalsTyped DEF ControlInv
  <1>1. CASE Crash(w)
    <2>1. run' = run /\ WorkerOnly(w) /\ pc'[w] = "idle"
      BY <1>1 DEF Crash, Goto, WorkerOnly, dbVars, TypeOK
    <2> QED BY <2>1, OffRun, LocalStep
  <1>2. ASSUME UNCHANGED <<run, pc, loc>> PROVE ControlInv'
    BY <1>2 DEF ControlInv, WorkerConsistent, RunConsistent, OneCommitPerRun, mayFail
  <1>3. CASE SessionLoss(w) \/ SilentSessionLoss(w) \/ NoticeLoss(w)
    BY <1>2, <1>3 DEF SessionLoss, SilentSessionLoss, NoticeLoss, dbVars
  <1>4. ASSUME run' = run, UNCHANGED loc, NEW c \in {"release", "idle"},
               Goto(w, c) \/ GotoIfAuthorized(w, c)
        PROVE  ControlInv'
    <2>1. WorkerOnly(w) /\ pc'[w] \in {"release", "idle"}
      BY <1>4, GotoEffect DEF WorkerOnly
    <2> QED BY <1>4, <2>1, OffRun, LocalStep
  <1>5. ASSUME run' = run, UNCHANGED loc, pc[w] \in BatchCalls, GotoIfAuthorized(w, "markFailed")
        PROVE  ControlInv'
    BY <1>5, AttemptStep DEF BatchCalls
  <1>6. CASE HttpFailure(w)
    BY <1>4, <1>5, <1>6 DEF HttpFailure, dbVars, BatchCalls
  <1>7. CASE DbFailure(w)
    BY <1>4, <1>5, <1>7 DEF DbFailure, dbVars, AttemptCalls, BatchCalls
  <1>8. CASE HttpTerminalFailure(w)
    <2>1. run' = run /\ pc[w] \in SealedCalls /\ Decide(w, "FAILED") /\ GotoIfAuthorized(w, "failTx")
      BY <1>8, CallSets DEF HttpTerminalFailure, dbVars
    <2> QED BY <2>1, BetweenAttempts, DecideEffect
  <1> QED BY <1>1, <1>3, <1>6, <1>7, <1>8 DEF Environment

-----------------------------------------------------------------------------
(* The six steps that write ingestion_runs *)

(* What an update of one column of one row leaves alone. *)
OtherRowsKept(r) == \A s \in Runs \ {r} : run'[s] = run[s]

LEMMA StatusWrite ==
  ASSUME TypeOK, NEW r \in Runs, NEW st, run' = [run EXCEPT ![r].status = st]
  PROVE  /\ run'[r].status = st /\ run'[r].init = run[r].init
         /\ run'[r].startWm = run[r].startWm /\ OtherRowsKept(r)
         /\ run'[r].endWm = run[r].endWm /\ run'[r].batches = run[r].batches
  <1>1. run[r] \in RunRecords
    BY DEF TypeOK
  <1> QED BY <1>1 DEF RunRecords, TypeOK, OtherRowsKept

LEMMA InitWrite ==
  ASSUME TypeOK, NEW r \in Runs, NEW n,
         run' = [run EXCEPT ![r].init = TRUE, ![r].batches = n]
  PROVE  /\ run'[r].status = run[r].status /\ run'[r].init
         /\ run'[r].startWm = run[r].startWm /\ OtherRowsKept(r)
         /\ run'[r].endWm = run[r].endWm
  <1>1. run[r] \in RunRecords
    BY DEF TypeOK
  <1>2. run'[r] = [run[r] EXCEPT !.init = TRUE, !.batches = n]
    BY DEF TypeOK
  <1>3. /\ run'[r].status = run[r].status /\ run'[r].init /\ run'[r].startWm = run[r].startWm
        /\ run'[r].endWm = run[r].endWm
    BY <1>1, <1>2, ZenonT(30) DEF RunRecords
  <1> QED BY <1>3 DEF TypeOK, OtherRowsKept

LEMMA StartWrite ==
  ASSUME TypeOK, NEW r \in Runs, NEW wm,
         run' = [run EXCEPT ![r].status = "RUNNING", ![r].startWm = wm]
  PROVE  /\ run'[r].status = "RUNNING" /\ run'[r].init = run[r].init
         /\ run'[r].startWm = wm /\ OtherRowsKept(r)
         /\ run'[r].endWm = run[r].endWm /\ run'[r].batches = run[r].batches
  <1>1. run[r] \in RunRecords
    BY DEF TypeOK
  <1>2. run'[r] = [run[r] EXCEPT !.status = "RUNNING", !.startWm = wm]
    BY DEF TypeOK
  <1>3. /\ run'[r].status = "RUNNING" /\ run'[r].init = run[r].init /\ run'[r].startWm = wm
        /\ run'[r].endWm = run[r].endWm /\ run'[r].batches = run[r].batches
    BY <1>1, <1>2 DEF RunRecords
  <1> QED BY <1>3 DEF TypeOK, OtherRowsKept

LEMMA EndWrite ==
  ASSUME TypeOK, NEW r \in Runs, NEW wm, run' = [run EXCEPT ![r].endWm = wm]
  PROVE  /\ run'[r].status = run[r].status /\ run'[r].init = run[r].init
         /\ run'[r].startWm = run[r].startWm /\ OtherRowsKept(r)
         /\ run'[r].endWm = wm /\ run'[r].batches = run[r].batches
  <1>1. run[r] \in RunRecords
    BY DEF TypeOK
  <1> QED BY <1>1 DEF RunRecords, TypeOK, OtherRowsKept

(* What each of them does to its row, and who measures and accepts a run.  *)
Created(r)  == /\ run[r].status = "ABSENT" /\ ActiveRuns = {} /\ run'[r].status = "QUEUED"
               /\ run'[r].init = run[r].init /\ run'[r].startWm = run[r].startWm
               /\ run'[r].endWm = run[r].endWm
Sealed(r)   == /\ run[r].status = "QUEUED" /\ ~run[r].init /\ run'[r].init
               /\ run'[r].status = run[r].status /\ run'[r].startWm = run[r].startWm
               /\ run'[r].endWm = run[r].endWm
Started(r)  == /\ run[r].status = "QUEUED" /\ run[r].init /\ run[r].startWm = 0
               /\ run'[r].status = "RUNNING" /\ run'[r].startWm \in Watermarks
               /\ run'[r].init = run[r].init
               /\ run'[r].endWm = run[r].endWm /\ run'[r].batches = run[r].batches
Measured(r) == /\ \E w \in Workers :
                    PersistEnd(w) /\ loc[w].run = r /\ run'[r].endWm = loc[w].wm
               /\ run'[r].status = run[r].status /\ run'[r].init = run[r].init
               /\ run'[r].startWm = run[r].startWm /\ run'[r].batches = run[r].batches
Decided(r)  == /\ run[r].init
               /\ \/ run[r].status = "RUNNING" /\ run'[r].status \in Terminal
                  \/ run[r].status = "QUEUED" /\ run'[r].status = "FAILED"
               /\ run'[r].init = run[r].init /\ run'[r].startWm = run[r].startWm
               /\ run'[r].endWm = run[r].endWm /\ run'[r].batches = run[r].batches
               /\ \/ run'[r].status # "COMPLETED" /\ published' = published
                  \/ \E w \in Workers : AcceptCommit(w) /\ loc[w].run = r

RunChange(r) ==
  /\ OtherRowsKept(r)
  /\ Created(r) \/ Sealed(r) \/ Started(r) \/ Measured(r) \/ Decided(r)

(* The writer of a run: it was consistent, wrote one row that nobody else  *)
(* has locked, and goes on to call c.                                      *)
LEMMA RunWriter ==
  ASSUME TypeOK, ControlInv, NEW w \in Workers,
         \/ run' # run /\ (CreateQueuedRun(w) \/ InitTx(w) \/ StartTx(w))
         \/ PersistEnd(w) \/ FailCommit(w) \/ AcceptCommit(w)
  PROVE  /\ \E r \in Runs : RunChange(r)
         /\ ControlInv'
  <1> DEFINE l == loc[w]
  <1> PICK r : r = loc[w].run
    OBVIOUS
  <1>0. l \in Locals /\ WorkerConsistent(pc[w], l)
    BY LocalsTyped DEF ControlInv
  <1>a. ASSUME NEW c, pc[w] = c,
               c \in {"initTx", "startTx", "persistEnd", "failCommit", "acceptCommit"}
        PROVE  /\ r \in Runs /\ run[r].status # "ABSENT" /\ RunConsistent(r)
               /\ c # "initTx" => run[r].init
    BY <1>0, <1>a, CallSets
    DEF WorkerConsistent, ControlInv, RunCalls, SealedCalls, Calls, WriteCalls, CommitCalls
  <1>b. ASSUME NEW s \in Runs, run[s].status = "ABSENT", NEW v \in Workers, pc[v] \in CommitCalls
        PROVE  loc[v].run # s
    <2>1. WorkerConsistent(pc[v], loc[v]) /\ pc[v] \in RunCalls
      BY <1>b, CallSets DEF ControlInv
    <2> QED BY <1>b, <2>1 DEF WorkerConsistent
  <1>c. ASSUME ~RunRowLocked(r, w), NEW v \in Workers \ {w}, pc[v] \in CommitCalls
        PROVE  loc[v].run # r
    BY <1>c DEF RunRowLocked, CommitCalls
  <1>1. CASE run' # run /\ CreateQueuedRun(w)
    <2>1. PICK s \in Runs :
            /\ run[s].status = "ABSENT" /\ ActiveRuns = {}
            /\ run' = [run EXCEPT ![s].status = "QUEUED"]
            /\ loc' = [loc EXCEPT ![w].run = s]
            /\ GotoIfAuthorized(w, "initFind")
      BY <1>1 DEF CreateQueuedRun, mayCreate
    <2>2. /\ run'[s].status = "QUEUED" /\ run'[s].init = run[s].init
          /\ run'[s].startWm = run[s].startWm /\ run'[s].endWm = run[s].endWm
          /\ OtherRowsKept(s)
      BY <2>1, StatusWrite
    <2>3. RunChange(s)
      BY <2>1, <2>2 DEF RunChange, Created
    <2>4. loc'[w] = [l EXCEPT !.run = s] /\ \A v \in Workers \ {w} : loc'[v] = loc[v]
      BY <2>1 DEF TypeOK
    <2>5. loc'[w].run = s
      BY <1>0, <2>4 DEF Locals
    <2>6. WorkerOnly(w) /\ pc'[w] \in {"initFind", "release"}
      BY <2>1, <2>4, GotoEffect DEF WorkerOnly
    <2>7. WorkerConsistent(pc[w], loc[w])' /\ pc'[w] \notin CommitCalls
      BY <2>2, <2>5, <2>6 DEF WorkerConsistent, RunCalls, SealedCalls, BatchCalls, CommitCalls
    <2>8. RunConsistent(s)'
      BY <2>2 DEF RunConsistent
    <2>9. ControlInv'
      BY <1>b, <2>1, <2>2, <2>6, <2>7, <2>8, RunStep DEF OtherRowsKept
    <2> QED BY <2>3, <2>9
  <1>2. CASE run' # run /\ InitTx(w)
    <2>1. /\ ~run[r].init /\ GotoIfAuthorized(w, "startMetadata") /\ pc[w] = "initTx"
          /\ loc' = loc /\ ~RunRowLocked(r, w)
          /\ run' = [run EXCEPT ![r].init = TRUE, ![r].batches = l.batches]
      BY <1>2 DEF InitTx, Awaits, MyRun
    <2>2. r \in Runs /\ run[r].status = "QUEUED"
      BY <1>a, <2>1 DEF RunConsistent
    <2>4. /\ run'[r].status = "QUEUED" /\ run'[r].init /\ run'[r].startWm = run[r].startWm
          /\ run'[r].endWm = run[r].endWm /\ OtherRowsKept(r)
      BY <2>1, <2>2, InitWrite
    <2>5. RunChange(r)
      BY <2>1, <2>2, <2>4 DEF RunChange, Sealed
    <2>6. WorkerOnly(w) /\ pc'[w] \in {"startMetadata", "release"}
      BY <2>1, GotoEffect DEF WorkerOnly
    <2>7. WorkerConsistent(pc[w], loc[w])' /\ pc'[w] \notin CommitCalls
      BY <2>1, <2>2, <2>4, <2>6
      DEF WorkerConsistent, RunCalls, SealedCalls, BatchCalls, CommitCalls
    <2>8. RunConsistent(r)'
      BY <2>4 DEF RunConsistent
    <2>9. ControlInv'
      BY <1>c, <2>1, <2>2, <2>4, <2>6, <2>7, <2>8, RunStep DEF OtherRowsKept
    <2> QED BY <2>2, <2>5, <2>9
  <1>3. CASE run' # run /\ StartTx(w)
    <2>1. /\ mayStart(r) /\ GotoIfAuthorized(w, "listBatches") /\ pc[w] = "startTx"
          /\ loc' = loc /\ ~RunRowLocked(r, w)
          /\ run' = [run EXCEPT ![r].status = "RUNNING", ![r].startWm = l.wm]
      BY <1>3 DEF StartTx, Awaits
    <2>2. r \in Runs /\ l.wm \in Watermarks
      BY <1>0, <1>a, <2>1 DEF WorkerConsistent
    <2>4. /\ run'[r].status = "RUNNING" /\ run'[r].init = run[r].init /\ run'[r].startWm = l.wm
          /\ run'[r].endWm = run[r].endWm /\ run'[r].batches = run[r].batches
          /\ OtherRowsKept(r)
      BY <2>1, <2>2, StartWrite, ZenonT(30)
    <2>5. RunChange(r)
      BY <2>1, <2>2, <2>4 DEF RunChange, Started, mayStart
    <2>6. WorkerOnly(w) /\ pc'[w] \in {"listBatches", "release"}
      BY <2>1, GotoEffect DEF WorkerOnly
    <2>7. WorkerConsistent(pc[w], loc[w])' /\ pc'[w] \notin CommitCalls
      BY <2>1, <2>2, <2>4, <2>6
      DEF WorkerConsistent, RunCalls, SealedCalls, BatchCalls, CommitCalls, mayStart
    <2>8. RunConsistent(r)'
      <3>1. l.wm # 0
        BY <2>2, BoundsAssumption DEF Watermarks
      <3>2. run'[r].init
        BY <2>1, <2>4 DEF mayStart
      <3> QED BY <2>4, <3>1, <3>2 DEF RunConsistent
    <2>9. ControlInv'
      BY <1>c, <2>1, <2>2, <2>4, <2>6, <2>7, <2>8, RunStep DEF OtherRowsKept
    <2> QED BY <2>2, <2>5, <2>9
  <1>4. CASE PersistEnd(w)
    <2>1. /\ pc[w] = "persistEnd" /\ ~RunRowLocked(r, w)
          /\ run' = [run EXCEPT ![r].endWm = l.wm]
          /\ \/ GotoIfAuthorized(w, "acceptTx") /\ loc' = loc
             \/ Decide(w, "SOURCE_CHANGED") /\ GotoIfAuthorized(w, "failTx")
      BY <1>4 DEF PersistEnd, Awaits
    <2>2. r \in Runs /\ run[r].status # "ABSENT" /\ RunConsistent(r) /\ run[r].init
      BY <1>a, <2>1
    <2>4. /\ run'[r].status = run[r].status /\ run'[r].init = run[r].init
          /\ run'[r].startWm = run[r].startWm /\ run'[r].endWm = l.wm
          /\ run'[r].batches = run[r].batches
          /\ OtherRowsKept(r)
      BY <2>1, <2>2, EndWrite
    <2>5. RunChange(r)
      BY <1>4, <2>4 DEF RunChange, Measured
    <2>6. /\ WorkerOnly(w) /\ pc'[w] \in {"acceptTx", "failTx", "release"}
          /\ loc'[w].run = r
          /\ pc'[w] = "failTx" => loc'[w].decision = "SOURCE_CHANGED"
      BY <2>1, GotoEffect, DecideEffect DEF WorkerOnly
    <2>7. WorkerConsistent(pc[w], loc[w])' /\ pc'[w] \notin CommitCalls
      BY <2>2, <2>4, <2>6
      DEF WorkerConsistent, RunCalls, SealedCalls, BatchCalls, CommitCalls
    <2>8. RunConsistent(r)'
      BY <2>2, <2>4 DEF RunConsistent
    <2>9. ControlInv'
      BY <1>c, <2>1, <2>2, <2>4, <2>6, <2>7, <2>8, RunStep DEF OtherRowsKept
    <2> QED BY <2>2, <2>5, <2>9
  <1>5. CASE FailCommit(w) \/ AcceptCommit(w)
    <2>1. PICK st :
            /\ run' = [run EXCEPT ![r].status = st] /\ Goto(w, "release") /\ loc' = loc
            /\ \/ pc[w] = "failCommit" /\ st = l.decision
               \/ pc[w] = "acceptCommit" /\ st = "COMPLETED"
      BY <1>5 DEF FailCommit, AcceptCommit, Awaits
    <2>2. r \in Runs /\ run[r].init
      BY <1>a, <2>1
    <2>3. \/ run[r].status = "RUNNING" /\ st \in Terminal
          \/ run[r].status = "QUEUED" /\ st = "FAILED"
      BY <1>0, <2>1 DEF WorkerConsistent, mayFail, Active, Terminal
    <2>5. /\ run'[r].status = st /\ run'[r].init = run[r].init
          /\ run'[r].startWm = run[r].startWm /\ run'[r].endWm = run[r].endWm
          /\ run'[r].batches = run[r].batches
          /\ OtherRowsKept(r)
      BY <2>1, <2>2, StatusWrite
    <2>c. \/ st # "COMPLETED" /\ published' = published
          \/ AcceptCommit(w)
      BY <1>0, <1>5, <2>1 DEF FailCommit, WorkerConsistent, Awaits
    <2>6. RunChange(r)
      BY <2>2, <2>3, <2>5, <2>c DEF RunChange, Decided
    <2>7. WorkerOnly(w) /\ pc'[w] = "release"
      BY <2>1, GotoEffect DEF WorkerOnly
    <2>8. RunConsistent(r)' /\ run'[r].status # "ABSENT"
      BY <2>2, <2>3, <2>5 DEF RunConsistent, Terminal
    <2>9. \A v \in Workers \ {w} : pc[v] \in CommitCalls => loc[v].run # r
      BY <2>1 DEF ControlInv, OneCommitPerRun, CommitCalls
    <2>10. ControlInv'
      BY <2>2, <2>5, <2>7, <2>8, <2>9, OffRun, RunStep DEF OtherRowsKept
    <2> QED BY <2>2, <2>6, <2>10
  <1> QED BY <1>1, <1>2, <1>3, <1>4, <1>5

-----------------------------------------------------------------------------
(* The control invariant and what it implies *)

(* A refused write leaves the run alone and ends the execution. *)
LEMMA RefusedWriter ==
  ASSUME TypeOK, ControlInv, NEW w \in Workers, run' = run,
         CreateQueuedRun(w) \/ InitTx(w) \/ StartTx(w)
  PROVE  ControlInv'
  <1> PICK r : r = loc[w].run
    OBVIOUS
  <1>0. ASSUME pc[w] \in {"initTx", "startTx"} PROVE r \in Runs
    BY <1>0 DEF ControlInv, WorkerConsistent, RunCalls, Calls, WriteCalls
  <1>1. CASE CreateQueuedRun(w)
    <2>1. ASSUME NEW s \in Runs, run[s].status = "ABSENT" PROVE run' # [run EXCEPT ![s].status = "QUEUED"]
      BY <2>1, StatusWrite
    <2>2. Goto(w, "release") /\ loc' = loc
      BY <1>1, <2>1 DEF CreateQueuedRun
    <2>3. WorkerOnly(w) /\ pc'[w] = "release"
      BY <2>2, GotoEffect DEF WorkerOnly
    <2> QED BY <2>3, OffRun, LocalStep
  <1>2. CASE InitTx(w)
    <2>1. Goto(w, "release") /\ loc' = loc
      BY <1>0, <1>2, InitWrite DEF InitTx, MyRun, Awaits
    <2>2. WorkerOnly(w) /\ pc'[w] = "release"
      BY <2>1, GotoEffect DEF WorkerOnly
    <2> QED BY <2>2, OffRun, LocalStep
  <1>3. CASE StartTx(w)
    <2>1. Goto(w, "release") /\ loc' = loc
      BY <1>0, <1>3, StartWrite DEF StartTx, mayStart, Awaits
    <2>2. WorkerOnly(w) /\ pc'[w] = "release"
      BY <2>1, GotoEffect DEF WorkerOnly
    <2> QED BY <2>2, OffRun, LocalStep
  <1> QED BY <1>1, <1>2, <1>3

LEMMA StepControl ==
  ASSUME TypeOK, ControlInv, [Next]_vars
  PROVE  ControlInv' /\ (run' = run \/ \E r \in Runs : RunChange(r))
  <1>0. ASSUME UNCHANGED <<run, pc, loc>> PROVE ControlInv'
    BY <1>0 DEF ControlInv, WorkerConsistent, RunConsistent, OneCommitPerRun, mayFail
  <1>1. CASE UNCHANGED vars \/ SourceChange
    BY <1>0, <1>1 DEF vars, SourceChange, dbVars
  <1>2. ASSUME NEW w \in Workers,
               \/ run' # run /\ (CreateQueuedRun(w) \/ InitTx(w) \/ StartTx(w))
               \/ PersistEnd(w) \/ FailCommit(w) \/ AcceptCommit(w)
        PROVE  ControlInv' /\ \E r \in Runs : RunChange(r)
    BY <1>2, RunWriter
  <1>3. ASSUME NEW w \in Workers, run' = run, CreateQueuedRun(w) \/ InitTx(w) \/ StartTx(w)
        PROVE  ControlInv'
    BY <1>3, RefusedWriter
  <1>4. ASSUME NEW w \in Workers, Environment(w) PROVE run' = run /\ ControlInv'
    BY <1>4, EnvironmentControl
    DEF Environment, Crash, SessionLoss, SilentSessionLoss, NoticeLoss, HttpFailure,
        HttpTerminalFailure, DbFailure, dbVars
  <1>5. ASSUME NEW w \in Workers,
               \/ StartExecution(w) \/ Acquire(w) \/ Release(w) \/ FindActive(w)
               \/ InitFind(w) \/ LoadBins(w) \/ StartMetadata(w)
        PROVE  run' = run /\ ControlInv'
    BY <1>5, LocalControl
    DEF StartExecution, Acquire, Release, FindActive, InitFind, LoadBins, StartMetadata,
        Reads, dbVars
  <1>6. ASSUME NEW w \in Workers,
               \/ FindBatch(w) \/ MarkExhausted(w) \/ IncrementAttempt(w) \/ SetRunning(w)
               \/ FetchPage(w) \/ StageRow(w) \/ UpdateProgress(w) \/ MarkCompleted(w)
               \/ MarkFailed(w) \/ MarkPageLimit(w)
        PROVE  run' = run /\ ControlInv'
    BY <1>6, AttemptControl
    DEF FindBatch, MarkExhausted, IncrementAttempt, SetRunning, FetchPage, StageRow,
        UpdateProgress, MarkCompleted, MarkFailed, MarkPageLimit, Reads, WritesBatch, dbVars
  <1>7. ASSUME NEW w \in Workers,
               \/ ResumeList(w) \/ ReadyList(w) \/ ResumeMetadata(w) \/ ListBatches(w)
               \/ EndMetadata(w) \/ FailTx(w) \/ AcceptTx(w)
        PROVE  run' = run /\ ControlInv'
    BY <1>7, HandoffControl, LockControl
    DEF ResumeList, ReadyList, ResumeMetadata, ListBatches, EndMetadata, FailTx, AcceptTx, Reads
  <1>8. ASSUME NEW w \in Workers, Step(w)
        PROVE  ControlInv' /\ (run' = run \/ \E r \in Runs : RunChange(r))
    BY <1>2, <1>3, <1>5, <1>6, <1>7, <1>8 DEF Step
  <1> QED BY <1>1, <1>4, <1>8 DEF Next, vars, SourceChange, dbVars

LEMMA NextIInv == IInv /\ [Next]_vars => IInv'
  <1> SUFFICES ASSUME IInv, [Next]_vars PROVE IInv'
    OBVIOUS
  <1>1. TypeOK /\ ControlInv /\ OneActiveRun
    BY DEF IInv
  <1>2. TypeOK' /\ ControlInv' /\ (run' = run \/ \E r \in Runs : RunChange(r))
    BY <1>1, NextTypeOK, StepControl
  <1>3. ASSUME NEW r \in Runs, RunChange(r) PROVE OneActiveRun'
    <2>1. CASE Created(r)
      BY <1>3, <2>1 DEF RunChange, OtherRowsKept, Created, OneActiveRun, ActiveRuns
    <2>2. CASE ~Created(r)
      <3>1. run'[r].status \in Active => run[r].status \in Active
        BY <1>3, <2>2 DEF RunChange, Sealed, Started, Measured, Decided, Active, Terminal
      <3>2. ActiveRuns' \subseteq ActiveRuns
        BY <1>3, <3>1 DEF RunChange, OtherRowsKept, ActiveRuns
      <3> QED BY <1>1, <3>2 DEF OneActiveRun
    <2> QED BY <2>1, <2>2
  <1>4. ASSUME run' = run PROVE OneActiveRun'
    BY <1>1, <1>4 DEF OneActiveRun, ActiveRuns
  <1> QED BY <1>2, <1>3, <1>4 DEF IInv

LEMMA InitIInv == Init => IInv
  <1> SUFFICES ASSUME Init PROVE IInv
    OBVIOUS
  <1>1. \A w \in Workers : WorkerConsistent(pc[w], loc[w])
    BY DEF Init, WorkerConsistent, RunCalls, SealedCalls, BatchCalls
  <1>2. \A r \in Runs : run[r].status = "ABSENT" /\ ~run[r].init
    BY DEF Init
  <1>3. OneCommitPerRun
    BY DEF Init, OneCommitPerRun, CommitCalls
  <1>4. ControlInv
    BY <1>1, <1>2, <1>3 DEF ControlInv, RunConsistent
  <1>5. OneActiveRun
    BY <1>2 DEF OneActiveRun, ActiveRuns, Active
  <1> QED BY <1>4, <1>5, InitTypeOK DEF IInv

LEMMA InductiveInvariant == Spec => []IInv
  BY InitIInv, NextIInv, PTL DEF Spec

(* Every variable keeps its type: no call is ever completed for a run, a   *)
(* batch or a decision that the worker has not chosen.                     *)
THEOREM TypeCorrect == Spec => []TypeOK
  <1>1. IInv => TypeOK
    BY DEF IInv
  <1> QED BY <1>1, InductiveInvariant, PTL

(* The runs of the dataset are serialised, with any number of executors    *)
(* that believe to hold the lock.                                          *)
THEOREM RunsSerialised == Spec => []OneActiveRun
  <1>1. IInv => OneActiveRun
    BY DEF IInv
  <1> QED BY <1>1, InductiveInvariant, PTL

-----------------------------------------------------------------------------
(* Refinement of the run lifecycle *)

LEMMA InitRefines == Init => RL!RLInit
  BY DEF Init, RL!RLInit

LEMMA MappedChange ==
  ASSUME NEW r \in Runs, OtherRowsKept(r)
  PROVE  /\ [s \in Runs |-> run'[s].status] =
               [[s \in Runs |-> run[s].status] EXCEPT ![r] = run'[r].status]
         /\ [s \in Runs |-> run'[s].init] =
               [[s \in Runs |-> run[s].init] EXCEPT ![r] = run'[r].init]
         /\ [s \in Runs |-> run'[s].startWm] =
               [[s \in Runs |-> run[s].startWm] EXCEPT ![r] = run'[r].startWm]
  BY DEF OtherRowsKept

LEMMA StepRefines == IInv /\ [Next]_vars => [RL!RLNext]_(RL!rlVars)
  <1> SUFFICES ASSUME IInv, [Next]_vars PROVE [RL!RLNext]_(RL!rlVars)
    OBVIOUS
  <1>1. TypeOK /\ ControlInv /\ (run' = run \/ \E r \in Runs : RunChange(r))
    BY StepControl DEF IInv
  <1>2. CASE run' = run
    BY <1>2 DEF RL!rlVars
  <1>3. ASSUME NEW r \in Runs, RunChange(r) PROVE [RL!RLNext]_(RL!rlVars)
    <2>1. OtherRowsKept(r) /\ run[r] \in RunRecords
      BY <1>1, <1>3 DEF RunChange, TypeOK
    <2>2. /\ [s \in Runs |-> run'[s].status] =
               [[s \in Runs |-> run[s].status] EXCEPT ![r] = run'[r].status]
          /\ [s \in Runs |-> run'[s].init] =
               [[s \in Runs |-> run[s].init] EXCEPT ![r] = run'[r].init]
          /\ [s \in Runs |-> run'[s].startWm] =
               [[s \in Runs |-> run[s].startWm] EXCEPT ![r] = run'[r].startWm]
      BY <2>1, MappedChange
    <2>3. CASE Created(r)
      <3>1. \A s \in Runs : run[s].status \notin Active
        BY <2>3 DEF Created, ActiveRuns
      <3>2. RL!Queue(r)
        BY <2>2, <2>3, <3>1, ZenonT(30) DEF Created, RL!Queue, RL!Active, Active
      <3> QED BY <3>2 DEF RL!RLNext
    <2>4. CASE Sealed(r)
      <3>1. RL!Seal(r)
        BY <2>2, <2>4, ZenonT(30) DEF Sealed, RL!Seal
      <3> QED BY <3>1 DEF RL!RLNext
    <2>5. CASE Started(r)
      <3>1. PICK wm \in Watermarks : wm = run'[r].startWm
        BY <2>5 DEF Started
      <3>2. RL!StartRun(r, wm)
        BY <2>2, <2>5, <3>1 DEF Started, RL!StartRun
      <3> QED BY <3>2 DEF RL!RLNext
    <2>6. CASE Measured(r)
      BY <2>2, <2>6 DEF Measured, RL!rlVars
    <2>7. CASE Decided(r)
      <3>1. PICK decision \in RL!Terminal : decision = run'[r].status
        BY <2>7 DEF Decided, Terminal, RL!Terminal
      <3>2. RL!Terminate(r, decision)
        BY <2>2, <2>7, <3>1, ZenonT(30) DEF Decided, RL!Terminate
      <3> QED BY <3>2 DEF RL!RLNext
    <2> QED BY <1>3, <2>3, <2>4, <2>5, <2>6, <2>7 DEF RunChange
  <1> QED BY <1>1, <1>2, <1>3

(* EcbIngestion implements RunLifecycle, whatever executors, sessions and  *)
(* calls fail: the tables and their guards, not the advisory lock, keep    *)
(* the lifecycle of a run.                                                 *)
THEOREM IngestionImplementsLifecycle == Spec => ImplementsRunLifecycle
  BY InitRefines, StepRefines, InductiveInvariant, PTL
     DEF Spec, ImplementsRunLifecycle, RL!RLSpec

-----------------------------------------------------------------------------
(* What workers know of the source *)

(* The run has left the queue. *)
Begun(r) == run[r].status \notin {"ABSENT", "QUEUED"}

(* A worker's step is its own. *)
LEMMA StepFrame ==
  ASSUME TypeOK, NEW w \in Workers, Step(w) \/ Environment(w)
  PROVE  WorkerOnly(w) /\ source' = source
  <1> USE DEF WorkerOnly
  <1>1. CASE StartExecution(w) \/ Acquire(w) \/ Release(w)
    BY <1>1 DEF StartExecution, Acquire, Release, Goto, TypeOK
  <1>2. CASE FindActive(w) \/ CreateQueuedRun(w) \/ InitFind(w) \/ LoadBins(w)
    BY <1>2 DEF FindActive, CreateQueuedRun, InitFind, LoadBins, Reads, Awaits, Goto,
                GotoIfAuthorized, TypeOK
  <1>3. CASE InitTx(w) \/ StartMetadata(w) \/ StartTx(w)
    BY <1>3 DEF InitTx, StartMetadata, StartTx, Reads, Awaits, Goto, GotoIfAuthorized, TypeOK
  <1>4. CASE ResumeList(w) \/ ReadyList(w) \/ ResumeMetadata(w) \/ ListBatches(w)
    BY <1>4 DEF ResumeList, ReadyList, ResumeMetadata, ListBatches, Decide, Reads, Goto,
                GotoIfAuthorized, TypeOK
  <1>5. CASE FindBatch(w) \/ MarkExhausted(w) \/ IncrementAttempt(w) \/ SetRunning(w)
    BY <1>5 DEF FindBatch, MarkExhausted, IncrementAttempt, SetRunning, WritesBatch, Decide,
                Reads, Awaits, Goto, GotoIfAuthorized, TypeOK
  <1>6. CASE FetchPage(w)
    BY <1>6 DEF FetchPage, Reads, Goto, GotoIfAuthorized, TypeOK
  <1>7. CASE StageRow(w) \/ UpdateProgress(w) \/ MarkCompleted(w) \/ MarkFailed(w)
             \/ MarkPageLimit(w)
    BY <1>7 DEF StageRow, UpdateProgress, MarkCompleted, MarkFailed, MarkPageLimit, WritesBatch,
                Decide, Awaits, Goto, GotoIfAuthorized, TypeOK
  <1>8. CASE EndMetadata(w) \/ PersistEnd(w) \/ FailTx(w) \/ FailCommit(w)
    BY <1>8 DEF EndMetadata, PersistEnd, FailTx, FailCommit, Decide, Reads, Awaits, Goto,
                GotoIfAuthorized, TypeOK
  <1>9. CASE AcceptTx(w) \/ AcceptCommit(w)
    BY <1>9 DEF AcceptTx, AcceptCommit, Reads, Awaits, Goto, TypeOK
  <1>10. CASE Environment(w)
    BY <1>10 DEF Environment, Crash, SessionLoss, SilentSessionLoss, NoticeLoss, HttpFailure,
                 HttpTerminalFailure, DbFailure, Decide, Goto, GotoIfAuthorized, TypeOK, dbVars
  <1> QED BY <1>1, <1>2, <1>3, <1>4, <1>5, <1>6, <1>7, <1>8, <1>9, <1>10 DEF Step

(* Once begun, a run keeps its start watermark and its batches. *)
LEMMA BegunStays ==
  ASSUME TypeOK, ControlInv, [Next]_vars, NEW r \in Runs, Begun(r)
  PROVE  Begun(r)' /\ run'[r].startWm = run[r].startWm /\ Batches(r)' = Batches(r)
  <1>1. CASE run' = run
    BY <1>1 DEF Begun, Batches
  <1>2. ASSUME NEW s \in Runs, RunChange(s)
        PROVE  Begun(r)' /\ run'[r].startWm = run[r].startWm /\ run'[r].batches = run[r].batches
    BY <1>2 DEF RunChange, OtherRowsKept, Begun, Created, Sealed, Started, Measured, Decided,
                Terminal
  <1> QED BY <1>1, <1>2, StepControl DEF Batches

(* Calls made before a run is started. *)
QueuedCalls == {"loadBins", "initTx", "startMetadata", "startTx"}

(* Calls made once a run has been started. *)
StartedCalls ==
  BatchCalls \cup {"resumeList", "readyList", "resumeMetadata", "listBatches", "endMetadata",
                   "persistEnd", "acceptTx"}

(* What a worker has read of the source is not newer than the source, and  *)
(* a decision to reject is not older than the cause.                       *)
WatermarkAt(w) ==
  /\ pc[w] \in StartedCalls => Begun(loc[w].run)
  /\ pc[w] = "startTx" => loc[w].wm <= source
  /\ pc[w] = "persistEnd" => run[loc[w].run].startWm <= loc[w].wm /\ loc[w].wm <= source
  /\ pc[w] \in {"failTx", "failCommit"} /\ loc[w].decision = "SOURCE_CHANGED" =>
       Begun(loc[w].run) /\ run[loc[w].run].startWm < source

WatermarkInv ==
  /\ \A r \in Runs : run[r].startWm <= source
  /\ RejectionHasCause
  /\ \A w \in Workers : WatermarkAt(w)

LEMMA NumbersTyped ==
  ASSUME TypeOK
  PROVE  /\ source \in Nat
         /\ \A r \in Runs : run[r].startWm \in Nat /\ run[r].endWm \in Nat
         /\ \A w \in Workers : loc[w].wm \in Nat /\ loc[w].pages \in Nat
                                 /\ loc[w].next \in Nat /\ loc[w].last \in Nat
  BY BoundsAssumption DEF TypeOK, RunRecords, Locals, Watermarks

LEMMA SourceGrows == ASSUME TypeOK, [Next]_vars PROVE source' \in Nat /\ source <= source'
  <1>1. CASE SourceChange \/ UNCHANGED vars
    BY <1>1, NumbersTyped DEF SourceChange, vars
  <1>2. ASSUME NEW w \in Workers, Step(w) \/ Environment(w) PROVE source' = source
    BY <1>2, StepFrame
  <1> QED BY <1>1, <1>2, NumbersTyped DEF Next

LEMMA RunOf ==
  ASSUME ControlInv, NEW w \in Workers,
         pc[w] \in StartedCalls \cup QueuedCalls
                     \cup {"initFind", "failTx", "failCommit", "acceptCommit"}
  PROVE  loc[w].run \in Runs
  BY DEF ControlInv, WorkerConsistent, StartedCalls, QueuedCalls, BatchCalls, RunCalls, Calls,
         ReadCalls, WriteCalls, PublishCalls

(* Other workers' steps and the source disturb nothing. *)
LEMMA WatermarkFrame ==
  ASSUME TypeOK, ControlInv, WatermarkInv, [Next]_vars, NEW w \in Workers,
         pc'[w] = pc[w], loc'[w] = loc[w]
  PROVE  WatermarkAt(w)'
  <1> PICK r : r = loc[w].run
    OBVIOUS
  <1>1. pc[w] \in StartedCalls \cup {"failTx", "failCommit"} => r \in Runs
    BY RunOf
  <1>2. ASSUME pc[w] \in StartedCalls \cup {"failTx", "failCommit"}, Begun(r)
        PROVE  Begun(r)' /\ run'[r].startWm = run[r].startWm
    BY <1>1, <1>2, BegunStays DEF Begun
  <1>3. /\ source \in Nat /\ source' \in Nat /\ source <= source'
        /\ loc[w].wm \in Nat /\ (r \in Runs => run[r].startWm \in Nat)
    BY NumbersTyped, SourceGrows
  <1>4. WatermarkAt(w)
    BY DEF WatermarkInv
  <1>5. pc[w] \in StartedCalls => Begun(r)'
    BY <1>2, <1>4 DEF WatermarkAt
  <1>6. pc[w] = "persistEnd" => pc[w] \in StartedCalls
    BY DEF StartedCalls
  <1>7. pc[w] = "persistEnd" => run'[r].startWm <= loc[w].wm /\ loc[w].wm <= source'
    BY <1>1, <1>2, <1>3, <1>4, <1>6 DEF WatermarkAt
  <1>8. pc[w] \in {"failTx", "failCommit"} /\ loc[w].decision = "SOURCE_CHANGED" =>
          Begun(r)' /\ run'[r].startWm < source'
    BY <1>1, <1>2, <1>3, <1>4 DEF WatermarkAt
  <1>9. pc[w] = "startTx" => loc[w].wm <= source'
    BY <1>3, <1>4 DEF WatermarkAt
  <1> QED BY <1>5, <1>7, <1>8, <1>9 DEF WatermarkAt, Begun

(* What an assignment to one local variable does. *)
LEMMA WmEffect ==
  ASSUME TypeOK, NEW w \in Workers, NEW n, loc' = [loc EXCEPT ![w].wm = n]
  PROVE  loc'[w].wm = n /\ loc'[w].run = loc[w].run
  <1>1. loc[w] \in Locals /\ loc' = [loc EXCEPT ![w] = [loc[w] EXCEPT !.wm = n]]
    BY LocalsTyped
  <1>2. loc'[w] = [loc[w] EXCEPT !.wm = n]
    BY <1>1, LocUpdate
  <1>3. [loc[w] EXCEPT !.wm = n].wm = n
    BY <1>1 DEF Locals
  <1>4. [loc[w] EXCEPT !.wm = n].run = loc[w].run
    BY <1>1 DEF Locals
  <1> QED BY <1>2, <1>3, <1>4

LEMMA BatchEffect ==
  ASSUME TypeOK, NEW w \in Workers, NEW b, loc' = [loc EXCEPT ![w].batch = b]
  PROVE  loc'[w].batch = b /\ loc'[w].run = loc[w].run
  <1>1. loc[w] \in Locals /\ loc' = [loc EXCEPT ![w] = [loc[w] EXCEPT !.batch = b]]
    BY LocalsTyped
  <1>2. loc'[w] = [loc[w] EXCEPT !.batch = b]
    BY <1>1, LocUpdate
  <1>3. [loc[w] EXCEPT !.batch = b].batch = b
    BY <1>1 DEF Locals
  <1>4. [loc[w] EXCEPT !.batch = b].run = loc[w].run
    BY <1>1 DEF Locals
  <1> QED BY <1>2, <1>3, <1>4

(* A worker on its way through a run that has begun. *)
LEMMA WatermarkOnward ==
  ASSUME TypeOK, ControlInv, WatermarkInv, NEW w \in Workers, Step(w) \/ Environment(w),
         pc[w] \in StartedCalls, loc'[w].run = loc[w].run,
         pc'[w] \in (StartedCalls \ {"persistEnd"}) \cup {"release", "acceptCommit", "failTx"},
         pc'[w] = "failTx" => loc'[w].decision = "FAILED"
  PROVE  WatermarkAt(w)'
  <1> PICK r : r = loc[w].run
    OBVIOUS
  <1>1. r \in Runs /\ Begun(r)
    BY RunOf DEF WatermarkInv, WatermarkAt
  <1>2. Begun(r)'
    BY <1>1, BegunStays DEF Next
  <1>3. pc'[w] \notin {"startTx", "persistEnd", "failCommit"}
    BY DEF StartedCalls, BatchCalls
  <1>4. Begun(loc[w].run)'
    BY <1>2 DEF Begun
  <1> QED BY <1>3, <1>4 DEF WatermarkAt

LEMMA WatermarkStep ==
  ASSUME TypeOK, ControlInv, WatermarkInv, NEW w \in Workers, Step(w) \/ Environment(w)
  PROVE  WatermarkAt(w)'
  <1> PICK l : l = loc[w]
    OBVIOUS
  <1>0. /\ l \in Locals /\ WatermarkAt(w)
        /\ pc[w] \in StartedCalls => l.run \in Runs /\ Begun(l.run)
    BY LocalsTyped, RunOf DEF WatermarkInv, WatermarkAt
  <1>a. ASSUME pc'[w] \in {"idle", "lock", "findActive", "createRun", "initFind", "loadBins",
                           "initTx", "startMetadata", "release", "acceptCommit"}
        PROVE  WatermarkAt(w)'
    BY <1>a DEF WatermarkAt, StartedCalls, BatchCalls
  <1>b. ASSUME pc[w] \in StartedCalls, UNCHANGED loc,
               NEW c \in (StartedCalls \ {"persistEnd"}) \cup {"release", "acceptCommit"},
               Goto(w, c) \/ GotoIfAuthorized(w, c)
        PROVE  WatermarkAt(w)'
    BY <1>b, GotoEffect, WatermarkOnward DEF StartedCalls, BatchCalls
  <1>c. ASSUME pc[w] \in StartedCalls, Decide(w, "FAILED"), GotoIfAuthorized(w, "failTx")
        PROVE  WatermarkAt(w)'
    BY <1>c, GotoEffect, DecideEffect, WatermarkOnward
  <1>d. ASSUME UNCHANGED <<run, source>>, Decide(w, "SOURCE_CHANGED"),
               GotoIfAuthorized(w, "failTx"),
               Begun(l.run), run[l.run].startWm < source
        PROVE  WatermarkAt(w)'
    <2>1. pc'[w] \in {"failTx", "release"} /\ loc'[w].run = l.run
      BY <1>d, GotoEffect, DecideEffect
    <2> QED BY <1>d, <2>1 DEF WatermarkAt, StartedCalls, BatchCalls, Begun
  <1>e. ASSUME UNCHANGED loc, NEW c \in {"release", "idle"}, Goto(w, c) \/ GotoIfAuthorized(w, c)
        PROVE  WatermarkAt(w)'
    BY <1>a, <1>e, GotoEffect
  <1>1. CASE StartExecution(w) \/ Acquire(w) \/ Release(w) \/ Crash(w)
    BY <1>1, <1>a DEF StartExecution, Acquire, Release, Crash, Goto, TypeOK
  <1>2. CASE SessionLoss(w) \/ SilentSessionLoss(w) \/ NoticeLoss(w)
    <2>1. UNCHANGED <<run, source, pc, loc>>
      BY <1>2 DEF SessionLoss, SilentSessionLoss, NoticeLoss, dbVars
    <2> QED BY <1>0, <2>1 DEF WatermarkAt, Begun
  <1>3. CASE FindActive(w)
    <2>1. CASE ActiveRuns = {}
      BY <1>3, <1>a, <2>1, GotoEffect DEF FindActive
    <2>2. CASE ActiveRuns # {}
      <3>1. PICK r \in ActiveRuns :
              /\ loc' = [loc EXCEPT ![w].run = r,
                                    ![w].ready = run[r].endWm = run[r].startWm]
              /\ GotoIfAuthorized(w, IF run[r].status = "QUEUED" THEN "initFind"
                                                                  ELSE "resumeList")
        BY <1>3, <2>2 DEF FindActive
      <3> DEFINE k == [l EXCEPT !.run = r, !.ready = run[r].endWm = run[r].startWm]
      <3>4. k.run = r
        BY <1>0 DEF Locals
      <3>5. loc'[w] = k
        BY <3>1 DEF TypeOK
      <3> HIDE DEF k
      <3>2. loc'[w].run = r /\ run' = run /\ run[r].status \in Active
        BY <1>3, <3>4, <3>5 DEF FindActive, Reads, ActiveRuns
      <3>3. pc'[w] \in {"initFind", "release"} \/ (pc'[w] = "resumeList" /\ Begun(r))
        BY <3>1, <3>2, GotoEffect DEF Begun, Active
      <3> QED BY <1>a, <3>2, <3>3 DEF WatermarkAt, Begun
    <2> QED BY <2>1, <2>2
  <1>4. CASE CreateQueuedRun(w)
    BY <1>4, <1>a, GotoEffect DEF CreateQueuedRun
  <1>5. CASE InitFind(w)
    <2>1. loc' = loc /\ run' = run
      BY <1>5 DEF InitFind, Reads
    <2>2. \/ pc'[w] \in {"loadBins", "startMetadata", "release"}
          \/ pc'[w] = "listBatches" /\ Begun(l.run)
      BY <1>5, GotoEffect DEF InitFind, MyRun, Begun
    <2> QED BY <1>a, <2>1, <2>2 DEF WatermarkAt, Begun
  <1>6. CASE LoadBins(w) \/ InitTx(w)
    BY <1>6, <1>a, GotoEffect DEF LoadBins, InitTx
  <1>7. CASE StartMetadata(w)
    <2>1. loc' = [loc EXCEPT ![w].wm = source] /\ source' = source
      BY <1>7 DEF StartMetadata, Reads
    <2>2. loc'[w].wm = source /\ pc'[w] \in {"startTx", "release"}
      BY <1>7, <2>1, WmEffect, GotoEffect DEF StartMetadata
    <2> QED BY <2>1, <2>2, NumbersTyped DEF WatermarkAt, StartedCalls, BatchCalls
  <1>8. CASE StartTx(w)
    <2>1. CASE ~mayStart(l.run)
      BY <1>8, <1>a, <2>1, GotoEffect DEF StartTx
    <2>2. CASE mayStart(l.run)
      <3>1. /\ run' = [run EXCEPT ![l.run].status = "RUNNING", ![l.run].startWm = l.wm]
            /\ pc'[w] \in {"listBatches", "release"} /\ loc' = loc /\ l.run \in Runs
        BY <1>8, <2>2, GotoEffect, RunOf DEF StartTx, Awaits, QueuedCalls
      <3>2. run'[l.run].status = "RUNNING"
        BY <3>1, StartWrite
      <3> QED BY <1>a, <3>1, <3>2 DEF WatermarkAt, Begun
    <2> QED BY <2>1, <2>2
  <1>9. CASE ResumeList(w) \/ ReadyList(w)
    BY <1>9, <1>b, <1>c DEF ResumeList, ReadyList, Reads, StartedCalls
  <1>10. CASE ResumeMetadata(w)
    <2>1. CASE sourceMatches(l.run)
      BY <1>10, <1>b, <2>1 DEF ResumeMetadata, Reads, StartedCalls
    <2>2. CASE ~sourceMatches(l.run)
      <3>1. UNCHANGED <<run, source>> /\ Decide(w, "SOURCE_CHANGED") /\ GotoIfAuthorized(w, "failTx")
            /\ l.run \in Runs /\ Begun(l.run)
        BY <1>0, <1>10, <2>2 DEF ResumeMetadata, Reads, StartedCalls
      <3>2. run[l.run].startWm < source
        BY <2>2, <3>1, NumbersTyped DEF sourceMatches, WatermarkInv
      <3> QED BY <1>d, <3>1, <3>2
    <2> QED BY <2>1, <2>2
  <1>11. CASE ListBatches(w)
    <2>1. ASSUME NEW b, loc' = [loc EXCEPT ![w].batch = b], GotoIfAuthorized(w, "findBatch")
          PROVE  WatermarkAt(w)'
      <3>2. loc'[w].run = l.run
        BY <2>1, BatchEffect
      <3>3. pc'[w] \in {"findBatch", "release"} /\ pc[w] \in StartedCalls
        BY <1>11, <2>1, GotoEffect DEF ListBatches, Reads, StartedCalls
      <3> QED BY <3>2, <3>3, WatermarkOnward DEF StartedCalls, BatchCalls
    <2> QED BY <1>11, <1>b, <1>c, <2>1 DEF ListBatches, Reads, StartedCalls
  <1>12. CASE FindBatch(w) \/ IncrementAttempt(w) \/ UpdateProgress(w) \/ MarkCompleted(w)
             \/ MarkFailed(w)
    BY <1>12, <1>b DEF FindBatch, IncrementAttempt, UpdateProgress, MarkCompleted, MarkFailed,
       WritesBatch, Reads, Awaits, StartedCalls, BatchCalls
  <1>13. CASE MarkExhausted(w) \/ MarkPageLimit(w)
    BY <1>13, <1>c DEF MarkExhausted, MarkPageLimit, WritesBatch, Awaits, StartedCalls, BatchCalls
  <1>14. CASE SetRunning(w) \/ FetchPage(w) \/ StageRow(w)
    <2>1. pc[w] \in StartedCalls /\ pc'[w] \in {"fetchPage", "stageRow", "updateProgress", "release"}
      BY <1>14, GotoEffect DEF SetRunning, FetchPage, StageRow, WritesBatch, Reads, Awaits,
         StartedCalls, BatchCalls
    <2>2. loc'[w].run = l.run
      BY <1>0, <1>14 DEF SetRunning, FetchPage, StageRow, TypeOK, Locals
    <2> QED BY <2>1, <2>2, WatermarkOnward DEF StartedCalls, BatchCalls
  <1>15. CASE EndMetadata(w)
    <2>1. /\ loc' = [loc EXCEPT ![w].wm = source] /\ source' = source /\ run' = run
          /\ l.run \in Runs /\ Begun(l.run)
      BY <1>0, <1>15 DEF EndMetadata, Reads, StartedCalls
    <2>2. loc'[w].wm = source /\ loc'[w].run = l.run /\ pc'[w] \in {"persistEnd", "release"}
      BY <1>15, <2>1, WmEffect, GotoEffect DEF EndMetadata
    <2>3. run[l.run].startWm <= source /\ source <= source
      BY <2>1, NumbersTyped DEF WatermarkInv
    <2> QED BY <2>1, <2>2, <2>3 DEF WatermarkAt, Begun
  <1>16. CASE PersistEnd(w)
    <2>1. /\ run' = [run EXCEPT ![l.run].endWm = l.wm] /\ source' = source
          /\ l.run \in Runs /\ Begun(l.run) /\ pc[w] = "persistEnd" /\ pc[w] \in StartedCalls
      BY <1>0, <1>16 DEF PersistEnd, Awaits, StartedCalls
    <2>2. CASE l.wm = run[l.run].startWm
      BY <1>16, <1>b, <2>1, <2>2 DEF PersistEnd, MyRun, StartedCalls
    <2>3. CASE l.wm # run[l.run].startWm
      <3>1. Decide(w, "SOURCE_CHANGED") /\ GotoIfAuthorized(w, "failTx")
        BY <1>16, <2>3 DEF PersistEnd, MyRun
      <3>2. pc'[w] \in {"failTx", "release"} /\ loc'[w].run = l.run
        BY <3>1, GotoEffect, DecideEffect
      <3>3. run[l.run].startWm < source
        BY <1>0, <2>1, <2>3, NumbersTyped DEF WatermarkAt
      <3>4. run'[l.run].startWm = run[l.run].startWm /\ run'[l.run].status = run[l.run].status
        BY <2>1, EndWrite
      <3> QED BY <2>1, <3>2, <3>3, <3>4 DEF WatermarkAt, Begun, StartedCalls, BatchCalls
    <2> QED BY <2>2, <2>3
  <1>17. CASE FailTx(w)
    <2>1. /\ UNCHANGED <<loc, run, source>> /\ pc[w] = "failTx"
          /\ pc'[w] \in {"failCommit", "release"}
      BY <1>17, GotoEffect DEF FailTx, Reads
    <2> QED BY <1>0, <2>1 DEF WatermarkAt, Begun, StartedCalls, BatchCalls
  <1>18. CASE FailCommit(w) \/ AcceptTx(w) \/ AcceptCommit(w)
    BY <1>18, <1>a, GotoEffect DEF FailCommit, AcceptTx, AcceptCommit
  <1>19. CASE HttpFailure(w)
    BY <1>19, <1>b, <1>e DEF HttpFailure, StartedCalls, BatchCalls
  <1>20. CASE HttpTerminalFailure(w)
    <2>1. pc'[w] \in {"failTx", "release"} /\ loc'[w].decision = "FAILED"
      BY <1>20, GotoEffect, DecideEffect DEF HttpTerminalFailure
    <2> QED BY <2>1 DEF WatermarkAt, StartedCalls, BatchCalls
  <1>21. CASE DbFailure(w)
    BY <1>21, <1>b, <1>e DEF DbFailure, AttemptCalls, StartedCalls, BatchCalls
  <1> QED BY <1>1, <1>2, <1>3, <1>4, <1>5, <1>6, <1>7, <1>8, <1>9, <1>10, <1>11, <1>12, <1>13,
             <1>14, <1>15, <1>16, <1>17, <1>18, <1>19, <1>20, <1>21 DEF Step, Environment

(* The writes of ingestion_runs and the source. *)
LEMMA RowsKeepWatermarks ==
  ASSUME TypeOK, ControlInv, WatermarkInv, NEW w \in Workers, Step(w) \/ Environment(w),
         NEW r \in Runs
  PROVE  run'[r].startWm <= source /\ (run'[r].status = "SOURCE_CHANGED" => run'[r].startWm < source)
  <1>0. run[r].startWm <= source /\ (run[r].status = "SOURCE_CHANGED" => run[r].startWm < source)
    BY DEF WatermarkInv, RejectionHasCause
  <1>1. CASE run' = run
    BY <1>0, <1>1
  <1>2. CASE CreateQueuedRun(w) /\ run' # run
    <2>1. PICK s \in Runs : run' = [run EXCEPT ![s].status = "QUEUED"]
      BY <1>2 DEF CreateQueuedRun
    <2> QED BY <1>0, <2>1, StatusWrite DEF OtherRowsKept
  <1>3. CASE InitTx(w) /\ run' # run
    BY <1>0, <1>3, InitWrite, RunOf DEF InitTx, Awaits, QueuedCalls, OtherRowsKept
  <1>4. CASE StartTx(w) /\ run' # run
    <2>1. /\ run' = [run EXCEPT ![loc[w].run].status = "RUNNING", ![loc[w].run].startWm = loc[w].wm]
          /\ loc[w].run \in Runs
      BY <1>4, RunOf DEF StartTx, Awaits, QueuedCalls
    <2>2. loc[w].wm <= source
      BY <1>4 DEF StartTx, Awaits, WatermarkInv, WatermarkAt
    <2> QED BY <1>0, <2>1, <2>2, StartWrite DEF OtherRowsKept
  <1>5. CASE PersistEnd(w)
    BY <1>0, <1>5, EndWrite, RunOf DEF PersistEnd, Awaits, StartedCalls, OtherRowsKept
  <1>6. CASE FailCommit(w)
    <2>1. run' = [run EXCEPT ![loc[w].run].status = loc[w].decision] /\ loc[w].run \in Runs
      BY <1>6, RunOf DEF FailCommit, Awaits
    <2>2. loc[w].decision = "SOURCE_CHANGED" => run[loc[w].run].startWm < source
      BY <1>6 DEF FailCommit, Awaits, WatermarkInv, WatermarkAt
    <2> QED BY <1>0, <2>1, <2>2, StatusWrite DEF OtherRowsKept
  <1>7. CASE AcceptCommit(w)
    <2>1. run' = [run EXCEPT ![loc[w].run].status = "COMPLETED"] /\ loc[w].run \in Runs
      BY <1>7, RunOf DEF AcceptCommit, Awaits
    <2> QED BY <1>0, <2>1, StatusWrite DEF OtherRowsKept
  <1>8. CASE Environment(w)
    BY <1>1, <1>8 DEF Environment, Crash, SessionLoss, SilentSessionLoss, NoticeLoss, HttpFailure,
       HttpTerminalFailure, DbFailure, dbVars
  <1>9. CASE StartExecution(w) \/ Acquire(w) \/ Release(w) \/ FindActive(w) \/ InitFind(w)
             \/ LoadBins(w) \/ StartMetadata(w) \/ ResumeList(w) \/ ReadyList(w)
             \/ ResumeMetadata(w) \/ ListBatches(w) \/ FindBatch(w) \/ FetchPage(w)
             \/ EndMetadata(w) \/ FailTx(w) \/ AcceptTx(w)
    BY <1>1, <1>9 DEF StartExecution, Acquire, Release, FindActive, InitFind, LoadBins,
       StartMetadata, ResumeList, ReadyList, ResumeMetadata, ListBatches, FindBatch, FetchPage,
       EndMetadata, FailTx, AcceptTx, Reads, dbVars
  <1>10. CASE MarkExhausted(w) \/ IncrementAttempt(w) \/ SetRunning(w) \/ StageRow(w)
              \/ UpdateProgress(w) \/ MarkCompleted(w) \/ MarkFailed(w) \/ MarkPageLimit(w)
    BY <1>1, <1>10 DEF MarkExhausted, IncrementAttempt, SetRunning, StageRow, UpdateProgress,
       MarkCompleted, MarkFailed, MarkPageLimit, WritesBatch, dbVars
  <1> QED BY <1>1, <1>2, <1>3, <1>4, <1>5, <1>6, <1>7, <1>8, <1>9, <1>10 DEF Step

LEMMA NextWatermarks == IInv /\ WatermarkInv /\ [Next]_vars => WatermarkInv'
  <1> SUFFICES ASSUME IInv, WatermarkInv, [Next]_vars PROVE WatermarkInv'
    OBVIOUS
  <1>0. TypeOK /\ ControlInv
    BY DEF IInv
  <1>1. CASE SourceChange \/ UNCHANGED vars
    <2>1. UNCHANGED <<run, pc, loc>>
      BY <1>1 DEF SourceChange, vars, dbVars
    <2>2. \A w \in Workers : WatermarkAt(w)'
      BY <1>0, <2>1, WatermarkFrame
    <2>3. source \in Nat /\ source' \in Nat /\ source <= source'
          /\ \A r \in Runs : run[r].startWm \in Nat
      BY <1>0, NumbersTyped, SourceGrows
    <2> QED BY <2>1, <2>2, <2>3 DEF WatermarkInv, RejectionHasCause
  <1>2. ASSUME NEW w \in Workers, Step(w) \/ Environment(w) PROVE WatermarkInv'
    <2>1. WorkerOnly(w) /\ source' = source
      BY <1>0, <1>2, StepFrame
    <2>2. WatermarkAt(w)'
      BY <1>0, <1>2, WatermarkStep
    <2>3. \A v \in Workers \ {w} : WatermarkAt(v)'
      BY <1>0, <2>1, WatermarkFrame DEF WorkerOnly
    <2>4. \A r \in Runs : run'[r].startWm <= source' /\
             (run'[r].status = "SOURCE_CHANGED" => run'[r].startWm < source')
      BY <1>0, <1>2, <2>1, RowsKeepWatermarks
    <2> QED BY <2>2, <2>3, <2>4 DEF WatermarkInv, RejectionHasCause
  <1> QED BY <1>1, <1>2 DEF Next

LEMMA InitWatermarks == Init => WatermarkInv
  <1> SUFFICES ASSUME Init PROVE WatermarkInv
    OBVIOUS
  <1>1. \A w \in Workers : WatermarkAt(w)
    BY DEF Init, WatermarkAt, StartedCalls, BatchCalls
  <1> QED BY <1>1 DEF Init, WatermarkInv, RejectionHasCause

LEMMA WatermarksStayBehind == Spec => [](IInv /\ WatermarkInv)
  BY InitIInv, NextIInv, InitWatermarks, NextWatermarks, PTL DEF Spec

(* A run is rejected as SOURCE_CHANGED only if the source has moved since  *)
(* it started, whichever executor decided that, and when.                  *)
THEOREM RejectionsAreJustified == Spec => []RejectionHasCause
  <1>1. WatermarkInv => RejectionHasCause
    BY DEF WatermarkInv
  <1> QED BY <1>1, WatermarksStayBehind, PTL

-----------------------------------------------------------------------------
(* What is staged for a run, whatever sessions are lost *)

(* Nothing has been done for the run but its initialisation. *)
Untouched(r) ==
  /\ run[r].startWm = 0 /\ run[r].endWm = 0
  /\ staged[r] = NoRows
  /\ \A b \in BatchIds : batch[r][b].status = "PENDING"

(* The source has not moved since the run started. *)
Still(r) == source = run[r].startWm

(* No row is older than the run, and while the source stands still every   *)
(* row is the source's and a completed batch has all of them.              *)
StagedRows(r) ==
  /\ \A b \in BatchIds \ Batches(r) : staged[r][b] = NoRows[b]
  /\ \A b \in Batches(r), i \in 1..MaxRows :
       staged[r][b][i] \in {0} \cup (run[r].startWm..source)
  /\ Still(r) =>
       \A b \in Batches(r) :
         /\ \A i \in 1..MaxRows : staged[r][b][i] \in {0, RowsAt(b, source)[i]}
         /\ batch[r][b].status = "COMPLETED" => staged[r][b] = RowsAt(b, source)

Measurable(r) == run[r].startWm # 0 /\ run[r].endWm = run[r].startWm

RunCover(r) ==
  /\ ~Begun(r) => Untouched(r)
  /\ StagedRows(r)
  /\ Measurable(r) => Covers(r, staged[r])
  /\ run[r].status = "COMPLETED" => Covers(r, published[r])

(* Rows of b before the n-th are staged. *)
Filled(r, b, n) ==
  \A i \in 1..MaxRows : i < n => staged[r][b][i] = RowsAt(b, source)[i]

Complete(r, b) == \A i \in 1..MaxRows : staged[r][b][i] = RowsAt(b, source)[i]

(* How far an attempt has come, while the source stands still: what is     *)
(* before the next row is staged, and what is not a full page is the end.  *)
Progress(c, l) ==
  /\ c = "fetchPage" => Filled(l.run, l.batch, l.pages * PageSize + 1)
  /\ c = "stageRow" =>
       /\ l.wm = source /\ l.next <= l.last /\ l.last <= RowCount[l.batch][source]
       /\ l.last \in {RowCount[l.batch][source], l.pages * PageSize}
       /\ l.last <= l.pages * PageSize
       /\ Filled(l.run, l.batch, l.next)
  /\ c = "updateProgress" =>
       /\ l.last < l.pages * PageSize => RowCount[l.batch][source] <= l.pages * PageSize
       /\ Filled(l.run, l.batch, l.pages * PageSize + 1)
  /\ c = "markCompleted" => Complete(l.run, l.batch)

(* A worker in a batch attempt, and on the way from the last batch to the  *)
(* accepted publication.                                                   *)
AttemptAt(w) ==
  /\ pc[w] \in BatchCalls => loc[w].batch \in Batches(loc[w].run)
  /\ pc[w] \in BatchCalls /\ Still(loc[w].run) => Progress(pc[w], loc[w])
  /\ pc[w] = "stageRow" => loc[w].wm \in run[loc[w].run].startWm..source

HandoffAt(w) ==
  /\ pc[w] = "endMetadata" /\ Still(loc[w].run) => Covers(loc[w].run, staged[loc[w].run])
  /\ pc[w] = "persistEnd" /\ loc[w].wm = run[loc[w].run].startWm =>
       Covers(loc[w].run, staged[loc[w].run])
  /\ pc[w] = "acceptCommit" => Covers(loc[w].run, loc[w].live)

CoverInv ==
  /\ \A r \in Runs : RunCover(r)
  /\ \A w \in Workers : AttemptAt(w) /\ HandoffAt(w)

LEMMA BatchesInRange ==
  ASSUME TypeOK, NEW r \in Runs
  PROVE  Batches(r) \subseteq BatchIds
  <1>1. run[r].batches \in 0..MaxBatches
    BY DEF TypeOK, RunRecords
  <1> QED BY <1>1, BoundsAssumption DEF Batches, BatchIds

LEMMA PageProduct ==
  ASSUME NEW p \in Nat
  PROVE  p * PageSize \in Nat /\ (p + 1) * PageSize = p * PageSize + PageSize
  BY BoundsAssumption

LEMMA RowsTyped ==
  ASSUME TypeOK, NEW r \in Runs, NEW b \in BatchIds
  PROVE  /\ staged[r][b] \in [1..MaxRows -> 0..MaxWatermark]
         /\ RowCount[b][source] \in Nat
         /\ source \in Nat
         /\ \A i \in 1..MaxRows :
              RowsAt(b, source)[i] = IF i <= RowCount[b][source] THEN source ELSE 0
  <1>1. staged[r][b] \in [1..MaxRows -> 0..MaxWatermark]
    BY DEF TypeOK, RowMaps
  <1>2. source \in 1..MaxWatermark
    BY DEF TypeOK, Watermarks
  <1>3. RowCount[b][source] \in 0..MaxRows
    BY <1>2, RowCountAssumption DEF BatchIds
  <1>4. MaxRows \in Nat /\ MaxWatermark \in Nat
    BY BoundsAssumption
  <1>5. RowCount[b][source] \in Nat /\ source \in Nat
    BY <1>2, <1>3, <1>4
  <1> QED BY <1>1, <1>5 DEF RowsAt

LEMMA RowsEqual ==
  ASSUME NEW row \in [1..MaxRows -> 0..MaxWatermark], NEW b, NEW v,
         \A i \in 1..MaxRows : row[i] = RowsAt(b, v)[i]
  PROVE  row = RowsAt(b, v)
  BY DEF RowsAt

(* The source can only have stood still if it still does. *)
LEMMA StillBefore ==
  ASSUME TypeOK, ControlInv, WatermarkInv, [Next]_vars, NEW r \in Runs, Begun(r), Still(r)'
  PROVE  Still(r) /\ source' = source
  <1>1. run'[r].startWm = run[r].startWm /\ run[r].startWm <= source /\ source <= source'
    BY BegunStays, SourceGrows DEF WatermarkInv
  <1>2. run[r].startWm \in Nat /\ source \in Nat /\ source' \in Nat
    BY NumbersTyped, SourceGrows
  <1> QED BY <1>1, <1>2 DEF Still

(* Rows a short page leaves are no rows of the source. *)
LEMMA RowsBeyond ==
  ASSUME TypeOK, NEW r \in Runs, StagedRows(r), Still(r), NEW b \in Batches(r), NEW n \in Nat,
         RowCount[b][source] <= n
  PROVE  /\ Filled(r, b, n + 1) => Complete(r, b)
         /\ \A i \in 1..MaxRows : i > n => staged[r][b][i] = RowsAt(b, source)[i]
  <1>1. b \in BatchIds
    BY BatchesInRange
  <1>2. RowCount[b][source] \in Nat
    BY <1>1, RowsTyped
  <1>3. ASSUME NEW i \in 1..MaxRows, i > n PROVE staged[r][b][i] = RowsAt(b, source)[i]
    <2>1. ~(i <= RowCount[b][source])
      BY <1>2, <1>3
    <2>2. RowsAt(b, source)[i] = 0
      BY <1>1, <2>1, RowsTyped
    <2> QED BY <2>2 DEF StagedRows
  <1>4. \A i \in 1..MaxRows : i < n + 1 \/ i > n
    OBVIOUS
  <1> QED BY <1>3, <1>4 DEF Filled, Complete

(* Row n of batch b of run r becomes wm. *)
RowStaged(r, b, n, wm) == staged' = [staged EXCEPT ![r][b][n] = wm]

LEMMA StageUpdate ==
  ASSUME TypeOK, NEW r \in Runs, NEW b \in BatchIds, NEW n \in Nat, NEW wm \in 0..MaxWatermark,
         RowStaged(r, b, n, wm)
  PROVE  /\ \A i \in 1..MaxRows : staged'[r][b][i] = IF i = n THEN wm ELSE staged[r][b][i]
         /\ \A c \in BatchIds \ {b} : staged'[r][c] = staged[r][c]
         /\ \A s \in Runs \ {r} : staged'[s] = staged[s]
  <1>1. staged[r] \in RowMaps /\ staged[r][b] \in [1..MaxRows -> 0..MaxWatermark]
    BY DEF TypeOK, RowMaps
  <1>2. /\ staged'[r] = [staged[r] EXCEPT ![b] = [staged[r][b] EXCEPT ![n] = wm]]
        /\ \A s \in Runs \ {r} : staged'[s] = staged[s]
    BY <1>1 DEF TypeOK, RowStaged
  <1>3. /\ staged'[r][b] = [staged[r][b] EXCEPT ![n] = wm]
        /\ \A c \in BatchIds \ {b} : staged'[r][c] = staged[r][c]
    BY <1>1, <1>2 DEF RowMaps
  <1>4. \A i \in 1..MaxRows : staged'[r][b][i] = IF i = n THEN wm ELSE staged[r][b][i]
    BY <1>1, <1>3
  <1> QED BY <1>2, <1>3, <1>4

(* What is known of the run and the batch of an attempt. *)
LEMMA AttemptFacts ==
  ASSUME TypeOK, ControlInv, WatermarkInv, NEW w \in Workers, AttemptAt(w), pc[w] \in BatchCalls
  PROVE  /\ loc[w].run \in Runs /\ Begun(loc[w].run)
         /\ loc[w].batch \in Batches(loc[w].run) /\ loc[w].batch \in BatchIds
  <1>1. loc[w].run \in Runs /\ Begun(loc[w].run)
    BY RunOf DEF StartedCalls, WatermarkInv, WatermarkAt
  <1> QED BY <1>1, BatchesInRange DEF AttemptAt

(* The row about to be staged, and the batch it belongs to. *)
LEMMA StageFacts ==
  ASSUME TypeOK, ControlInv, WatermarkInv, NEW w \in Workers, AttemptAt(w), StageRow(w),
         NEW r, r = loc[w].run, NEW b, b = loc[w].batch, NEW n, n = loc[w].next
  PROVE  /\ r \in Runs /\ Begun(r) /\ b \in Batches(r)
         /\ b \in BatchIds /\ n \in Nat /\ loc[w].last \in Nat
         /\ loc[w].wm \in 0..MaxWatermark /\ loc[w].wm \in run[r].startWm..source
         /\ source \in Nat /\ RowCount[b][source] \in Nat
         /\ Still(r) => /\ loc[w].wm = source /\ n <= loc[w].last
                        /\ loc[w].last <= RowCount[b][source]
                        /\ loc[w].last \in {RowCount[b][source], loc[w].pages * PageSize}
                        /\ loc[w].last <= loc[w].pages * PageSize
                        /\ Filled(r, b, n)
         /\ Still(r) /\ n \in 1..MaxRows => loc[w].wm = RowsAt(b, source)[n]
  <1>1. pc[w] = "stageRow"
    BY DEF StageRow, Awaits
  <1>2. r \in Runs /\ Begun(r) /\ b \in Batches(r) /\ b \in BatchIds
    BY <1>1, AttemptFacts DEF BatchCalls
  <1>3. n \in Nat /\ loc[w].last \in Nat /\ loc[w].wm \in 0..MaxWatermark
    BY LocalsTyped DEF Locals
  <1>4. RowCount[b][source] \in Nat /\ source \in Nat
    BY <1>2, RowsTyped
  <1>5. /\ Still(r) => Progress(pc[w], loc[w])
        /\ loc[w].wm \in run[r].startWm..source
    BY <1>1 DEF AttemptAt, BatchCalls
  <1>6. Still(r) => /\ loc[w].wm = source /\ n <= loc[w].last
                    /\ loc[w].last <= RowCount[b][source]
                    /\ loc[w].last \in {RowCount[b][source], loc[w].pages * PageSize}
                    /\ loc[w].last <= loc[w].pages * PageSize
                    /\ Filled(r, b, n)
    BY <1>1, <1>5 DEF Progress
  <1>7. Still(r) /\ n \in 1..MaxRows => loc[w].wm = RowsAt(b, source)[n]
    <2>1. Still(r) => n <= RowCount[b][source]
      BY <1>3, <1>4, <1>6
    <2> QED BY <1>2, <1>6, <2>1, RowsTyped
  <1> QED BY <1>2, <1>3, <1>4, <1>5, <1>6, <1>7

(* A write of the attempt's batch, and the run's batches after it. *)
LEMMA AttemptWrite ==
  ASSUME TypeOK, NEW w \in Workers, NEW c, NEW record, WritesBatch(w, c, record),
         NEW r \in Runs, r = loc[w].run, NEW b \in Batches(r), b = loc[w].batch
  PROVE  /\ pc[w] = c /\ UNCHANGED <<run, staged, published, source>>
         /\ batch'[r][b] = record
         /\ \A a \in BatchIds \ {b} : batch'[r][a] = batch[r][a]
         /\ \A s \in Runs \ {r} : batch'[s] = batch[s]
  <1>1. pc[w] = c /\ UNCHANGED <<run, staged, published, source>>
    BY DEF WritesBatch, Awaits
  <1>2. batch' = [batch EXCEPT ![r][b] = record]
    BY DEF WritesBatch
  <1>3. b \in BatchIds
    BY BatchesInRange
  <1> QED BY <1>1, <1>2, <1>3 DEF TypeOK

(* The row of the attempt's batch. *)
LEMMA BatchRow ==
  ASSUME TypeOK, NEW r \in Runs, NEW b \in BatchIds
  PROVE  /\ batch[r][b].attempts \in Nat
         /\ \A st : [batch[r][b] EXCEPT !.status = st].status = st
                    /\ [batch[r][b] EXCEPT !.status = st].attempts = batch[r][b].attempts
         /\ [batch[r][b] EXCEPT !.attempts = @ + 1].status = batch[r][b].status
         /\ [batch[r][b] EXCEPT !.attempts = @ + 1].attempts = batch[r][b].attempts + 1
  <1>1. batch[r][b] \in BatchRecords
    BY DEF TypeOK
  <1> QED BY <1>1 DEF BatchRecords

(* The steps that write ingestion_batches: all keep the number of attempts *)
(* but one, and all leave the batch open but one.                          *)
BatchWrites(w) ==
  \/ MarkExhausted(w) \/ IncrementAttempt(w) \/ SetRunning(w)
  \/ MarkCompleted(w) \/ MarkFailed(w) \/ MarkPageLimit(w)

LEMMA BatchWriter ==
  ASSUME TypeOK, ControlInv, WatermarkInv, NEW w \in Workers, AttemptAt(w), BatchWrites(w)
  PROVE  /\ pc[w] \in BatchCalls /\ UNCHANGED <<run, staged, published, source>>
         /\ \A s \in Runs, a \in BatchIds :
              \/ batch'[s][a] = batch[s][a]
              \/ /\ s = loc[w].run /\ a = loc[w].batch
                 /\ \/ batch'[s][a].status = batch[s][a].status
                    \/ batch'[s][a].status \in {"RUNNING", "FAILED"}
                    \/ batch'[s][a].status = "COMPLETED" /\ pc[w] = "markCompleted"
                 /\ \/ batch'[s][a].attempts = batch[s][a].attempts
                    \/ /\ batch'[s][a].attempts = batch[s][a].attempts + 1
                       /\ pc[w] = "incrementAttempt"
  <1> PICK r, b : r = loc[w].run /\ b = loc[w].batch
    OBVIOUS
  <1>1. pc[w] \in BatchCalls
    BY DEF BatchWrites, MarkExhausted, IncrementAttempt, SetRunning, MarkCompleted, MarkFailed,
           MarkPageLimit, WritesBatch, Awaits, BatchCalls
  <1>2. r \in Runs /\ b \in Batches(r) /\ b \in BatchIds
    BY <1>1, AttemptFacts
  <1>3. PICK c, record :
          /\ WritesBatch(w, c, record)
          /\ \/ c \in {"markExhausted", "markFailed", "markPageLimit"}
                  /\ record = [MyBatch(w) EXCEPT !.status = "FAILED"]
             \/ c = "setRunning" /\ record = [MyBatch(w) EXCEPT !.status = "RUNNING"]
             \/ c = "markCompleted" /\ record = [MyBatch(w) EXCEPT !.status = "COMPLETED"]
             \/ c = "incrementAttempt" /\ record = [MyBatch(w) EXCEPT !.attempts = @ + 1]
    BY DEF BatchWrites, MarkExhausted, IncrementAttempt, SetRunning, MarkCompleted, MarkFailed,
           MarkPageLimit
  <1>4. /\ pc[w] = c /\ UNCHANGED <<run, staged, published, source>>
        /\ batch'[r][b] = record
        /\ \A a \in BatchIds \ {b} : batch'[r][a] = batch[r][a]
        /\ \A s \in Runs \ {r} : batch'[s] = batch[s]
    <2>1. WritesBatch(w, c, record)
      BY <1>3
    <2>2. /\ pc[w] = c /\ UNCHANGED <<run, staged, published, source>>
          /\ batch' = [batch EXCEPT ![r][b] = record]
      BY <2>1 DEF WritesBatch, Awaits
    <2> QED BY <1>2, <2>2 DEF TypeOK
  <1>5. /\ \/ record.status = batch[r][b].status
           \/ record.status \in {"RUNNING", "FAILED"}
           \/ record.status = "COMPLETED" /\ c = "markCompleted"
        /\ \/ record.attempts = batch[r][b].attempts
           \/ record.attempts = batch[r][b].attempts + 1 /\ c = "incrementAttempt"
    <2>1. MyBatch(w) = batch[r][b]
      BY DEF MyBatch
    <2>2. /\ \A st \in {"FAILED", "RUNNING", "COMPLETED"} :
               [MyBatch(w) EXCEPT !.status = st].status = st
               /\ [MyBatch(w) EXCEPT !.status = st].attempts = batch[r][b].attempts
          /\ [MyBatch(w) EXCEPT !.attempts = @ + 1].status = batch[r][b].status
          /\ [MyBatch(w) EXCEPT !.attempts = @ + 1].attempts = batch[r][b].attempts + 1
      BY <1>2, <2>1, BatchRow
    <2>3. CASE record = [MyBatch(w) EXCEPT !.attempts = @ + 1] /\ c = "incrementAttempt"
      BY <2>2, <2>3
    <2>4. ASSUME NEW st \in {"FAILED", "RUNNING", "COMPLETED"},
                 record = [MyBatch(w) EXCEPT !.status = st]
          PROVE  record.status = st /\ record.attempts = batch[r][b].attempts
      BY <2>2, <2>4
    <2> QED BY <1>3, <2>3, <2>4
  <1> QED BY <1>1, <1>4, <1>5

-----------------------------------------------------------------------------
(* Who writes which table *)

RunWrites(w) ==
  \/ CreateQueuedRun(w) \/ InitTx(w) \/ StartTx(w)
  \/ PersistEnd(w) \/ FailCommit(w) \/ AcceptCommit(w)

LEMMA TableWriter ==
  ASSUME [Next]_vars, ~UNCHANGED dbVars
  PROVE  \E w \in Workers : StageRow(w) \/ BatchWrites(w) \/ RunWrites(w)
  <1>1. ~SourceChange /\ ~UNCHANGED vars
    BY DEF SourceChange, vars, dbVars
  <1>2. PICK w \in Workers : Step(w) \/ Environment(w)
    BY <1>1 DEF Next
  <1>3. ~(Environment(w) \/ StartExecution(w) \/ Acquire(w) \/ Release(w))
    BY DEF Environment, Crash, SessionLoss, SilentSessionLoss, NoticeLoss, HttpFailure,
       HttpTerminalFailure, DbFailure, StartExecution, Acquire, Release
  <1>4. ~(\/ FindActive(w) \/ InitFind(w) \/ LoadBins(w) \/ StartMetadata(w) \/ ResumeList(w)
          \/ ReadyList(w) \/ ResumeMetadata(w) \/ ListBatches(w) \/ FindBatch(w)
          \/ FetchPage(w) \/ EndMetadata(w) \/ FailTx(w) \/ AcceptTx(w))
    BY DEF FindActive, InitFind, LoadBins, StartMetadata, ResumeList, ReadyList,
       ResumeMetadata, ListBatches, FindBatch, FetchPage, EndMetadata, FailTx, AcceptTx, Reads, dbVars
  <1>5. ~UpdateProgress(w)
    BY DEF UpdateProgress
  <1> QED BY <1>2, <1>3, <1>4, <1>5 DEF Step, BatchWrites, RunWrites

LEMMA TableWrites ==
  ASSUME NEW w \in Workers
  PROVE  /\ StageRow(w) => UNCHANGED <<run, batch, published, source>>
         /\ BatchWrites(w) => UNCHANGED <<run, staged, published, source>>
         /\ RunWrites(w) => UNCHANGED <<batch, staged, source>>
         /\ RunWrites(w) /\ ~AcceptCommit(w) => published' = published
  <1>1. StageRow(w) => UNCHANGED <<run, batch, published, source>>
    BY DEF StageRow, Awaits
  <1>2. BatchWrites(w) => UNCHANGED <<run, staged, published, source>>
    BY DEF BatchWrites, MarkExhausted, IncrementAttempt, SetRunning, MarkCompleted, MarkFailed,
           MarkPageLimit, WritesBatch, Awaits
  <1>3. RunWrites(w) => UNCHANGED <<batch, staged, source>>
    BY DEF RunWrites, CreateQueuedRun, InitTx, StartTx, PersistEnd, FailCommit, AcceptCommit, Awaits
  <1>4. RunWrites(w) /\ ~AcceptCommit(w) => published' = published
    BY DEF RunWrites, CreateQueuedRun, InitTx, StartTx, PersistEnd, FailCommit
  <1> QED BY <1>1, <1>2, <1>3, <1>4

(* Six steps write ingestion_runs, and one each the rows of a run, a batch *)
(* and a publication.                                                      *)
LEMMA RunWriters ==
  ASSUME [Next]_vars, run' # run
  PROVE  \E w \in Workers : RunWrites(w)
  BY TableWriter, TableWrites DEF dbVars

LEMMA StagedWriter ==
  ASSUME TypeOK, ControlInv, WatermarkInv, \A w \in Workers : AttemptAt(w), [Next]_vars,
         NEW r \in Runs, staged'[r] # staged[r]
  PROVE  \E w \in Workers : StageRow(w) /\ loc[w].run = r
  <1>1. PICK w \in Workers : StageRow(w)
    BY TableWriter, TableWrites DEF dbVars
  <1> PICK s, b, n, wm :
        s = loc[w].run /\ b = loc[w].batch /\ n = loc[w].next /\ wm = loc[w].wm
    OBVIOUS
  <1>2. s \in Runs /\ b \in BatchIds /\ n \in Nat /\ wm \in 0..MaxWatermark
    BY <1>1, StageFacts
  <1>3. RowStaged(s, b, n, wm)
    BY <1>1 DEF StageRow, RowStaged
  <1> QED BY <1>1, <1>2, <1>3, StageUpdate

LEMMA BatchRowWriter ==
  ASSUME TypeOK, ControlInv, WatermarkInv, \A w \in Workers : AttemptAt(w), [Next]_vars,
         NEW r \in Runs, NEW b \in BatchIds, batch'[r][b] # batch[r][b]
  PROVE  \E w \in Workers : BatchWrites(w) /\ loc[w].run = r /\ loc[w].batch = b
  <1>1. PICK w \in Workers : BatchWrites(w)
    BY TableWriter, TableWrites DEF dbVars
  <1> QED BY <1>1, BatchWriter

LEMMA PublishedWriter ==
  ASSUME TypeOK, ControlInv, [Next]_vars, NEW r \in Runs, published'[r] # published[r]
  PROVE  \E w \in Workers : /\ AcceptCommit(w) /\ loc[w].run = r
                            /\ run[r].status = "RUNNING" /\ published'[r] = loc[w].live
  <1>1. PICK w \in Workers : AcceptCommit(w)
    BY TableWriter, TableWrites DEF dbVars
  <1>2. published' = [published EXCEPT ![loc[w].run] = loc[w].live] /\ pc[w] = "acceptCommit"
    BY <1>1 DEF AcceptCommit, Awaits
  <1>3. run[loc[w].run].status = "RUNNING"
    BY <1>2 DEF ControlInv, WorkerConsistent
  <1> QED BY <1>1, <1>2, <1>3 DEF TypeOK

(* A row of ingestion_runs is measured and accepted by a worker that       *)
(* executes it, and started from the queue.                                *)
LEMMA RunMoves ==
  ASSUME TypeOK, ControlInv, [Next]_vars, NEW r \in Runs
  PROVE  /\ \/ run'[r].endWm = run[r].endWm
            \/ \E w \in Workers : PersistEnd(w) /\ loc[w].run = r /\ run'[r].endWm = loc[w].wm
         /\ \/ run'[r].status # "COMPLETED"
            \/ run'[r].status = run[r].status
            \/ \E w \in Workers : AcceptCommit(w) /\ loc[w].run = r
         /\ \/ run'[r].startWm = run[r].startWm
            \/ ~Begun(r) /\ Begun(r)' /\ run'[r].endWm = run[r].endWm
         /\ run'[r].batches = run[r].batches \/ ~Begun(r)
  <1>1. CASE run' = run
    BY <1>1
  <1>2. ASSUME NEW s \in Runs, s # r, RunChange(s) PROVE run'[r] = run[r]
    BY <1>2 DEF RunChange, OtherRowsKept
  <1>3. CASE Created(r) \/ Sealed(r)
    BY <1>3 DEF Created, Sealed, Begun
  <1>4. CASE Started(r)
    BY <1>4 DEF Started, Begun
  <1>5. CASE Measured(r)
    BY <1>5 DEF Measured
  <1>6. CASE Decided(r)
    BY <1>6 DEF Decided
  <1> QED BY <1>1, <1>2, <1>3, <1>4, <1>5, <1>6, StepControl DEF RunChange

-----------------------------------------------------------------------------
(* How staged rows move *)

LEMMA RowsFollow ==
  ASSUME TypeOK, ControlInv, WatermarkInv, \A w \in Workers : AttemptAt(w), [Next]_vars,
         NEW r \in Runs, NEW b \in Batches(r), NEW i \in 1..MaxRows
  PROVE  \/ staged'[r][b][i] = staged[r][b][i]
         \/ /\ Begun(r) /\ staged'[r][b][i] \in run[r].startWm..source
            /\ Still(r) => staged'[r][b][i] = RowsAt(b, source)[i]
  <1> SUFFICES ASSUME staged'[r] # staged[r]
               PROVE  \/ staged'[r][b][i] = staged[r][b][i]
                      \/ /\ Begun(r) /\ staged'[r][b][i] \in run[r].startWm..source
                         /\ Still(r) => staged'[r][b][i] = RowsAt(b, source)[i]
    OBVIOUS
  <1>1. PICK w \in Workers : StageRow(w) /\ loc[w].run = r
    BY StagedWriter
  <1> PICK c, n, wm : c = loc[w].batch /\ n = loc[w].next /\ wm = loc[w].wm
    OBVIOUS
  <1>2. /\ Begun(r) /\ c \in Batches(r) /\ c \in BatchIds /\ n \in Nat
        /\ wm \in 0..MaxWatermark /\ wm \in run[r].startWm..source
        /\ Still(r) /\ n \in 1..MaxRows => wm = RowsAt(c, source)[n]
    BY <1>1, StageFacts
  <1>3. RowStaged(r, c, n, wm)
    BY <1>1 DEF StageRow, RowStaged
  <1>4. /\ \A j \in 1..MaxRows : staged'[r][c][j] = IF j = n THEN wm ELSE staged[r][c][j]
        /\ \A a \in BatchIds \ {c} : staged'[r][a] = staged[r][a]
    BY <1>2, <1>3, StageUpdate
  <1>5. b \in BatchIds
    BY BatchesInRange
  <1>6. CASE b = c
    BY <1>2, <1>4, <1>6
  <1>7. CASE b # c
    BY <1>4, <1>5, <1>7
  <1> QED BY <1>6, <1>7

(* Rows that are kept or become newer still cover the run. *)
LEMMA CoversAfter ==
  ASSUME TypeOK, ControlInv, WatermarkInv, [Next]_vars, NEW r \in Runs, Begun(r),
         NEW rows, Covers(r, rows), NEW new,
         \A b \in Batches(r), i \in 1..MaxRows :
           new[b][i] = rows[b][i] \/ new[b][i] \in run[r].startWm..source
  PROVE  \A b \in Batches(r)', i \in 1..MaxRows :
           \/ new[b][i] \in run'[r].startWm..source'
           \/ new[b][i] = 0 /\ RowsAt(b, run'[r].startWm)[i] = 0
  <1>1. run'[r].startWm = run[r].startWm /\ Batches(r)' = Batches(r)
    BY BegunStays
  <1>2. run[r].startWm \in Nat /\ source \in Nat /\ source' \in Nat /\ source <= source'
    BY NumbersTyped, SourceGrows
  <1>3. \A x : x \in run[r].startWm..source => x \in run[r].startWm..source'
    BY <1>2
  <1> QED BY <1>1, <1>3 DEF Covers

LEMMA CoversStays ==
  ASSUME TypeOK, ControlInv, WatermarkInv, \A w \in Workers : AttemptAt(w), [Next]_vars,
         NEW r \in Runs, Begun(r), Covers(r, staged[r])
  PROVE  Covers(r, staged[r])'
  <1>1. \A b \in Batches(r), i \in 1..MaxRows :
          staged'[r][b][i] = staged[r][b][i] \/ staged'[r][b][i] \in run[r].startWm..source
    BY RowsFollow
  <1> QED BY <1>1, CoversAfter DEF Covers

LEMMA FilledStays ==
  ASSUME TypeOK, ControlInv, WatermarkInv, \A w \in Workers : AttemptAt(w), [Next]_vars,
         NEW r \in Runs, Begun(r), Still(r)', NEW b \in Batches(r)
  PROVE  /\ \A n : Filled(r, b, n) => Filled(r, b, n)'
         /\ Complete(r, b) => Complete(r, b)'
  <1>1. Still(r) /\ source' = source
    BY StillBefore
  <1>2. \A i \in 1..MaxRows :
          staged[r][b][i] = RowsAt(b, source)[i] => staged'[r][b][i] = RowsAt(b, source')[i]
    BY <1>1, RowsFollow
  <1> QED BY <1>2 DEF Filled, Complete

-----------------------------------------------------------------------------
(* The runs after a step *)

LEMMA QueuedRunStep ==
  ASSUME TypeOK, ControlInv, WatermarkInv, CoverInv, [Next]_vars, NEW r \in Runs, ~Begun(r)
  PROVE  /\ staged'[r] = NoRows /\ \A b \in BatchIds : batch'[r][b].status = "PENDING"
         /\ run'[r].endWm = 0
         /\ ~Begun(r)' => run'[r].startWm = 0
  <1>0. Untouched(r) /\ \A w \in Workers : AttemptAt(w)
    BY DEF CoverInv, RunCover
  <1>1. staged'[r] = staged[r]
    BY <1>0, StagedWriter, StageFacts
  <1>2. \A b \in BatchIds : batch'[r][b] = batch[r][b]
    <2>1. ASSUME NEW w \in Workers, BatchWrites(w) PROVE Begun(loc[w].run)
      BY <1>0, <2>1, BatchWriter, AttemptFacts
    <2> QED BY <1>0, <2>1, BatchRowWriter
  <1>3. ASSUME NEW w \in Workers, PersistEnd(w) PROVE loc[w].run # r
    BY <1>3 DEF PersistEnd, Awaits, WatermarkInv, WatermarkAt, StartedCalls
  <1> QED BY <1>0, <1>1, <1>2, <1>3, RunMoves DEF Untouched

LEMMA StagedRowsStep ==
  ASSUME TypeOK, TypeOK', ControlInv, WatermarkInv, CoverInv, [Next]_vars, NEW r \in Runs
  PROVE  StagedRows(r)'
  <1>0. StagedRows(r) /\ \A w \in Workers : AttemptAt(w)
    BY DEF CoverInv, RunCover
  <1>1. CASE ~Begun(r)
    <2>1. staged'[r] = NoRows /\ \A b \in BatchIds : batch'[r][b].status = "PENDING"
      BY <1>1, QueuedRunStep
    <2>2. Batches(r)' \subseteq BatchIds
      <3>1. run'[r].batches \in 0..MaxBatches
        BY DEF TypeOK, RunRecords
      <3> QED BY <3>1, BoundsAssumption DEF Batches, BatchIds
    <2>3. \A b \in BatchIds, i \in 1..MaxRows : NoRows[b][i] = 0
      BY DEF NoRows
    <2> QED BY <2>1, <2>2, <2>3 DEF StagedRows
  <1>2. CASE Begun(r)
    <2>1. run'[r].startWm = run[r].startWm /\ Batches(r)' = Batches(r)
          /\ Batches(r) \subseteq BatchIds
      BY <1>2, BegunStays, BatchesInRange
    <2>2. ASSUME NEW b \in BatchIds \ Batches(r) PROVE staged'[r][b] = NoRows[b]
      <3>1. staged[r][b] = NoRows[b]
        BY <1>0 DEF StagedRows
      <3>2. ASSUME NEW w \in Workers, StageRow(w), loc[w].run = r PROVE staged'[r][b] = staged[r][b]
        <4> PICK c, n, wm : c = loc[w].batch /\ n = loc[w].next /\ wm = loc[w].wm
          OBVIOUS
        <4>1. c \in Batches(r) /\ c \in BatchIds /\ n \in Nat /\ wm \in 0..MaxWatermark
          BY <1>0, <3>2, StageFacts
        <4>2. RowStaged(r, c, n, wm)
          BY <3>2 DEF StageRow, RowStaged
        <4> QED BY <4>1, <4>2, StageUpdate
      <3> QED BY <1>0, <3>1, <3>2, StagedWriter
    <2>3. ASSUME NEW b \in Batches(r), NEW i \in 1..MaxRows
          PROVE  staged'[r][b][i] \in {0} \cup (run[r].startWm..source')
      <3>1. staged'[r][b][i] \in {0} \cup (run[r].startWm..source)
        BY <1>0, RowsFollow DEF StagedRows
      <3>2. run[r].startWm \in Nat /\ source \in Nat /\ source' \in Nat /\ source <= source'
        BY NumbersTyped, SourceGrows
      <3> QED BY <3>1, <3>2
    <2>4. ASSUME Still(r)', NEW b \in Batches(r)
          PROVE  /\ \A i \in 1..MaxRows : staged'[r][b][i] \in {0, RowsAt(b, source')[i]}
                 /\ batch'[r][b].status = "COMPLETED" => staged'[r][b] = RowsAt(b, source')
      <3>1. Still(r) /\ source' = source
        BY <1>2, <2>4, StillBefore
      <3>2. \A i \in 1..MaxRows : staged'[r][b][i] \in {0, RowsAt(b, source')[i]}
        BY <1>0, <3>1, RowsFollow DEF StagedRows
      <3>3. staged'[r][b] \in [1..MaxRows -> 0..MaxWatermark]
        BY <2>1 DEF TypeOK, RowMaps
      <3>4. ASSUME batch'[r][b].status = "COMPLETED" PROVE staged'[r][b] = RowsAt(b, source')
        <4>1. CASE batch[r][b].status = "COMPLETED"
          <5>1. Complete(r, b)
            BY <1>0, <3>1, <4>1 DEF StagedRows, Complete
          <5>2. Complete(r, b)'
            BY <1>0, <1>2, <2>4, <5>1, FilledStays
          <5> QED BY <3>3, <5>2, RowsEqual DEF Complete
        <4>2. CASE batch[r][b].status # "COMPLETED"
          <5>1. PICK w \in Workers : BatchWrites(w) /\ loc[w].run = r /\ loc[w].batch = b
            BY <1>0, <2>1, <3>4, <4>2, BatchRowWriter
          <5>2. pc[w] = "markCompleted" /\ pc[w] \in BatchCalls
            BY <1>0, <2>1, <3>4, <4>2, <5>1, BatchWriter
          <5>3. Complete(r, b)
            BY <1>0, <3>1, <5>1, <5>2 DEF AttemptAt, Progress
          <5>4. Complete(r, b)'
            BY <1>0, <1>2, <2>4, <5>3, FilledStays
          <5> QED BY <3>3, <5>4, RowsEqual DEF Complete
        <4> QED BY <4>1, <4>2
      <3> QED BY <3>2, <3>4
    <2> QED BY <2>1, <2>2, <2>3, <2>4 DEF StagedRows
  <1> QED BY <1>1, <1>2

LEMMA RunCoverStep ==
  ASSUME TypeOK, TypeOK', ControlInv, WatermarkInv, CoverInv, [Next]_vars, NEW r \in Runs
  PROVE  RunCover(r)'
  <1>0. RunCover(r) /\ \A w \in Workers : AttemptAt(w) /\ HandoffAt(w)
    BY DEF CoverInv
  <1>1. ~Begun(r)' => Untouched(r)'
    <2>1. ~Begun(r)' => ~Begun(r)
      BY BegunStays
    <2> QED BY <2>1, QueuedRunStep DEF Untouched
  <1>2. StagedRows(r)'
    BY StagedRowsStep
  <1>3. ASSUME Measurable(r)' PROVE Covers(r, staged[r])'
    <2>1. Begun(r) /\ run'[r].startWm = run[r].startWm
      <3>1. Begun(r)
        BY <1>3, QueuedRunStep DEF Measurable
      <3> QED BY <3>1, BegunStays
    <2>2. CASE run'[r].endWm = run[r].endWm
      BY <1>0, <1>3, <2>1, <2>2, CoversStays DEF RunCover, Measurable
    <2>3. CASE run'[r].endWm # run[r].endWm
      <3>1. PICK w \in Workers : PersistEnd(w) /\ loc[w].run = r /\ run'[r].endWm = loc[w].wm
        BY <2>3, RunMoves
      <3>2. Covers(r, staged[r])
        BY <1>0, <1>3, <2>1, <3>1 DEF PersistEnd, Awaits, HandoffAt, Measurable
      <3> QED BY <1>0, <2>1, <3>2, CoversStays
    <2> QED BY <2>2, <2>3
  <1>4. ASSUME run'[r].status = "COMPLETED" PROVE Covers(r, published[r])'
    <2>1. CASE run[r].status = "COMPLETED"
      <3>1. published'[r] = published[r]
        BY <2>1, PublishedWriter
      <3>2. Covers(r, published[r]) /\ Begun(r)
        BY <1>0, <2>1 DEF RunCover, Begun
      <3> QED BY <3>1, <3>2, CoversAfter DEF Covers
    <2>2. CASE run[r].status # "COMPLETED"
      <3>1. PICK w \in Workers : AcceptCommit(w) /\ loc[w].run = r
        BY <1>4, <2>2, RunMoves
      <3>2. /\ pc[w] = "acceptCommit" /\ published'[r] = loc[w].live
        BY <3>1 DEF AcceptCommit, Awaits, TypeOK
      <3>3. Covers(r, loc[w].live) /\ Begun(r)
        BY <1>0, <3>1, <3>2 DEF HandoffAt, ControlInv, WorkerConsistent, Begun
      <3> PICK rows : rows = loc[w].live
        OBVIOUS
      <3>4. Covers(r, rows) /\ published'[r] = rows
        BY <3>2, <3>3
      <3> QED BY <3>3, <3>4, CoversAfter DEF Covers
    <2> QED BY <2>1, <2>2
  <1> QED BY <1>1, <1>2, <1>3, <1>4 DEF RunCover

-----------------------------------------------------------------------------
(* The workers after a step *)

(* The steps of others and the source leave a worker where it is. *)
LEMMA CoverFrame ==
  ASSUME TypeOK, ControlInv, WatermarkInv, CoverInv, [Next]_vars, NEW w \in Workers,
         pc'[w] = pc[w], loc'[w] = loc[w]
  PROVE  AttemptAt(w)' /\ HandoffAt(w)'
  <1> PICK r : r = loc[w].run
    OBVIOUS
  <1>0. AttemptAt(w) /\ HandoffAt(w) /\ \A v \in Workers : AttemptAt(v)
    BY DEF CoverInv
  <1>1. ASSUME pc[w] \in BatchCalls \cup {"endMetadata", "persistEnd", "acceptCommit"}
        PROVE  /\ r \in Runs /\ Begun(r)
               /\ run'[r].startWm = run[r].startWm /\ Batches(r)' = Batches(r)
    <2>1. r \in Runs
      BY <1>1, RunOf DEF StartedCalls
    <2>2. Begun(r)
      BY <1>1 DEF StartedCalls, WatermarkInv, WatermarkAt, ControlInv, WorkerConsistent, Begun
    <2> QED BY <2>1, <2>2, BegunStays
  <1>2. pc[w] \in BatchCalls => loc[w].batch \in Batches(r)'
    BY <1>0, <1>1 DEF AttemptAt
  <1>3. ASSUME pc[w] \in BatchCalls, Still(r)' PROVE Progress(pc[w], loc[w])'
    <2> PICK b : b = loc[w].batch
      OBVIOUS
    <2>1. r \in Runs /\ Begun(r) /\ b \in Batches(r) /\ Still(r) /\ source' = source
      BY <1>0, <1>1, <1>3, StillBefore DEF AttemptAt
    <2>2. /\ \A n : Filled(r, b, n) => Filled(r, b, n)'
          /\ Complete(r, b) => Complete(r, b)'
      BY <1>0, <1>3, <2>1, FilledStays
    <2>3. Progress(pc[w], loc[w])
      BY <1>0, <1>3, <2>1 DEF AttemptAt
    <2>4. \A n : Filled(loc[w].run, loc[w].batch, n)' <=> Filled(r, b, n)'
      BY DEF Filled
    <2>5. Complete(loc[w].run, loc[w].batch)' <=> Complete(r, b)'
      BY DEF Complete
    <2> QED BY <2>1, <2>2, <2>3, <2>4, <2>5 DEF Progress, Filled
  <1>4. ASSUME pc[w] = "stageRow" PROVE loc[w].wm \in run'[r].startWm..source'
    <2>1. /\ loc[w].wm \in run[r].startWm..source /\ r \in Runs
          /\ run'[r].startWm = run[r].startWm
      BY <1>0, <1>1, <1>4 DEF AttemptAt, BatchCalls
    <2>2. source \in Nat /\ source' \in Nat /\ source <= source' /\ run[r].startWm \in Nat
      BY <2>1, NumbersTyped, SourceGrows
    <2> QED BY <2>1, <2>2
  <1>5. ASSUME pc[w] \in {"endMetadata", "persistEnd"}, Covers(r, staged[r])
        PROVE  Covers(loc[w].run, staged[loc[w].run])'
    BY <1>0, <1>1, <1>5, CoversStays DEF Covers, Batches
  <1>6. pc[w] = "endMetadata" /\ Still(r)' => Covers(loc[w].run, staged[loc[w].run])'
    BY <1>0, <1>1, <1>5, StillBefore DEF HandoffAt
  <1>7. pc[w] = "persistEnd" /\ loc[w].wm = run'[r].startWm =>
          Covers(loc[w].run, staged[loc[w].run])'
    BY <1>0, <1>1, <1>5 DEF HandoffAt
  <1>8. ASSUME pc[w] = "acceptCommit" PROVE Covers(loc[w].run, loc[w].live)'
    <2> PICK rows : rows = loc[w].live
      OBVIOUS
    <2>1. r \in Runs /\ Begun(r) /\ Covers(r, rows)
      BY <1>0, <1>1, <1>8 DEF HandoffAt
    <2>2. \A b \in Batches(r)', i \in 1..MaxRows :
            \/ rows[b][i] \in run'[r].startWm..source'
            \/ rows[b][i] = 0 /\ RowsAt(b, run'[r].startWm)[i] = 0
      <3>1. \A b \in Batches(r), i \in 1..MaxRows :
              rows[b][i] = rows[b][i] \/ rows[b][i] \in run[r].startWm..source
        OBVIOUS
      <3> QED BY <2>1, <3>1, CoversAfter
    <2>3. Batches(loc[w].run)' = Batches(r)'
      BY <1>8 DEF Batches
    <2> QED BY <2>2, <2>3 DEF Covers
  <1>9. AttemptAt(w)'
    BY <1>2, <1>3, <1>4 DEF AttemptAt, Still, Batches
  <1>10. HandoffAt(w)'
    BY <1>6, <1>7, <1>8 DEF HandoffAt, Still
  <1> QED BY <1>9, <1>10

(* Off an attempt and off the handoff there is nothing to rely on. *)
LEMMA CoverRest ==
  ASSUME NEW w \in Workers,
         pc'[w] \notin BatchCalls \cup {"endMetadata", "persistEnd", "acceptCommit"}
  PROVE  AttemptAt(w)' /\ HandoffAt(w)'
  BY DEF AttemptAt, HandoffAt, BatchCalls

(* What makes the next call of an attempt sound. *)
LEMMA AttemptTarget ==
  ASSUME TypeOK, ControlInv, [Next]_vars, NEW w \in Workers,
         NEW r \in Runs, Begun(r), source' = source,
         loc'[w].run = r, loc'[w].batch \in Batches(r),
         pc'[w] \notin {"endMetadata", "persistEnd", "acceptCommit"},
         pc'[w] = "stageRow" => loc'[w].wm \in run[r].startWm..source,
         pc'[w] \in {"fetchPage", "stageRow", "updateProgress", "markCompleted"} /\ Still(r) =>
           Progress(pc[w], loc[w])'
  PROVE  AttemptAt(w)' /\ HandoffAt(w)'
  <1>1. run'[r].startWm = run[r].startWm /\ Batches(r)' = Batches(r)
    BY BegunStays
  <1>2. Still(loc[w].run)' <=> Still(r)
    BY <1>1 DEF Still
  <1>3. pc'[w] \notin {"fetchPage", "stageRow", "updateProgress", "markCompleted"} =>
          Progress(pc[w], loc[w])'
    BY DEF Progress
  <1>4. AttemptAt(w)'
    BY <1>1, <1>2, <1>3 DEF AttemptAt, Batches
  <1>5. HandoffAt(w)'
    BY DEF HandoffAt
  <1> QED BY <1>4, <1>5

(* What setting a batch RUNNING, fetching a page and staging a row do to   *)
(* the locals.                                                             *)
LEMMA PagesEffect ==
  ASSUME TypeOK, NEW w \in Workers, SetRunning(w)
  PROVE  loc'[w].run = loc[w].run /\ loc'[w].batch = loc[w].batch /\ loc'[w].pages = 0
  <1> PICK k : k = [loc[w] EXCEPT !.pages = 0]
    OBVIOUS
  <1>1. loc[w] \in Locals /\ loc' = [loc EXCEPT ![w] = k]
    BY LocalsTyped DEF SetRunning
  <1>2. loc'[w] = k
    BY <1>1, LocUpdate
  <1>3. k.run = loc[w].run /\ k.batch = loc[w].batch /\ k.pages = 0
    BY <1>1 DEF Locals
  <1> QED BY <1>2, <1>3

LEMMA PageEffect ==
  ASSUME TypeOK, NEW w \in Workers, NEW pages, NEW next, NEW last, NEW wm,
         NEW k, loc' = [loc EXCEPT ![w] = k],
         k = [loc[w] EXCEPT !.pages = pages, !.next = next, !.last = last, !.wm = wm]
  PROVE  /\ loc'[w].run = loc[w].run /\ loc'[w].batch = loc[w].batch
         /\ loc'[w].pages = pages /\ loc'[w].next = next /\ loc'[w].last = last
         /\ loc'[w].wm = wm
  <1>1. loc[w] \in Locals
    BY LocalsTyped
  <1>2. loc'[w] = k
    BY LocUpdate
  <1>3. /\ k.run = loc[w].run /\ k.batch = loc[w].batch /\ k.pages = pages
        /\ k.next = next /\ k.last = last /\ k.wm = wm
    BY <1>1 DEF Locals
  <1> QED BY <1>2, <1>3

LEMMA NextEffect ==
  ASSUME TypeOK, NEW w \in Workers, loc' = [loc EXCEPT ![w].next = @ + 1]
  PROVE  /\ loc'[w].next = loc[w].next + 1
         /\ loc'[w].run = loc[w].run /\ loc'[w].batch = loc[w].batch /\ loc'[w].wm = loc[w].wm
         /\ loc'[w].last = loc[w].last /\ loc'[w].pages = loc[w].pages
  <1> PICK k : k = [loc[w] EXCEPT !.next = @ + 1]
    OBVIOUS
  <1>1. loc[w] \in Locals /\ loc' = [loc EXCEPT ![w] = k]
    BY LocalsTyped
  <1>2. loc'[w] = k
    BY <1>1, LocUpdate
  <1>3. /\ k.next = loc[w].next + 1
        /\ k.run = loc[w].run /\ k.batch = loc[w].batch /\ k.wm = loc[w].wm
        /\ k.last = loc[w].last /\ k.pages = loc[w].pages
    BY <1>1 DEF Locals
  <1> QED BY <1>2, <1>3

LEMMA FetchPageCover ==
  ASSUME TypeOK, ControlInv, WatermarkInv, CoverInv, NEW w \in Workers, FetchPage(w), [Next]_vars
  PROVE  AttemptAt(w)' /\ HandoffAt(w)'
  <1> PICK l, r, b, offset, rows, end :
        /\ l \in Locals /\ l = loc[w] /\ r = l.run /\ b = l.batch
        /\ offset = l.pages * PageSize
        /\ rows = RowCount[b][source]
        /\ end = IF rows <= offset THEN offset
                 ELSE IF rows <= offset + PageSize THEN rows ELSE offset + PageSize
    BY LocalsTyped
  <1>0. AttemptAt(w) /\ \A s \in Runs : StagedRows(s)
    BY DEF CoverInv, RunCover
  <1>1. /\ UNCHANGED <<run, batch, staged, source>> /\ pc[w] = "fetchPage"
        /\ loc' = [loc EXCEPT ![w] = [l EXCEPT !.pages = l.pages + 1, !.next = offset + 1,
                                               !.last = end, !.wm = source]]
        /\ GotoIfAuthorized(w, IF offset < end THEN "stageRow" ELSE "updateProgress")
    BY DEF FetchPage, Reads
  <1>2. r \in Runs /\ Begun(r) /\ b \in Batches(r) /\ b \in BatchIds
    BY <1>0, <1>1, AttemptFacts DEF BatchCalls
  <1>3. rows \in Nat /\ offset \in Nat /\ l.pages \in Nat /\ (l.pages + 1) * PageSize = offset + PageSize
        /\ PageSize \in Nat /\ PageSize > 0
    <2>1. l.pages \in Nat
      BY DEF Locals
    <2>2. PageSize \in Nat /\ PageSize > 0
      BY BoundsAssumption
    <2>3. rows \in Nat
      BY <1>2, RowsTyped
    <2>4. offset \in Nat /\ (l.pages + 1) * PageSize = offset + PageSize
      BY <2>1, PageProduct
    <2> QED BY <2>1, <2>2, <2>3, <2>4
  <1>4. /\ loc'[w].run = r /\ loc'[w].batch = b /\ loc'[w].pages = l.pages + 1
        /\ loc'[w].next = offset + 1 /\ loc'[w].last = end /\ loc'[w].wm = source
    <2>1. PICK k : k = [l EXCEPT !.pages = l.pages + 1, !.next = offset + 1, !.last = end,
                                 !.wm = source]
      OBVIOUS
    <2>2. loc'[w] = k
      BY <1>1, <2>1, LocUpdate
    <2>3. /\ k.run = l.run /\ k.batch = l.batch /\ k.pages = l.pages + 1
          /\ k.next = offset + 1 /\ k.last = end /\ k.wm = source
      BY <2>1 DEF Locals
    <2> QED BY <2>2, <2>3
  <1>5. pc'[w] \in {IF offset < end THEN "stageRow" ELSE "updateProgress", "release"}
    BY <1>1, GotoEffect
  <1>6. ASSUME Still(r) PROVE Progress(pc[w], loc[w])'
    <2>1. Filled(r, b, offset + 1)
      BY <1>0, <1>1, <1>6 DEF AttemptAt, Progress, BatchCalls
    <2>2. Filled(r, b, offset + 1)' /\ rows = RowCount[b][source'] /\ source' = source
      BY <1>1, <2>1 DEF Filled
    <2>3. CASE pc'[w] = "stageRow"
      <3>1. offset < end
        BY <1>5, <2>3
      <3>2. offset + 1 <= end /\ end <= rows /\ end \in {rows, offset + PageSize}
            /\ end <= offset + PageSize
        BY <1>3, <3>1
      <3>3. Filled(loc[w].run, loc[w].batch, loc[w].next)'
        BY <1>4, <2>2 DEF Filled
      <3> QED BY <1>3, <1>4, <2>2, <2>3, <3>2, <3>3 DEF Progress
    <2>4. CASE pc'[w] = "updateProgress"
      <3>1. rows <= offset /\ end = offset
        BY <1>3, <1>5, <2>4
      <3>2. Complete(r, b)
        BY <1>0, <1>2, <1>3, <1>6, <2>1, <3>1, RowsBeyond
      <3>3. Filled(loc[w].run, loc[w].batch, loc[w].pages * PageSize + 1)'
        BY <1>1, <1>4, <3>2 DEF Filled, Complete
      <3>4. RowCount[loc'[w].batch][source'] <= loc'[w].pages * PageSize
        BY <1>3, <1>4, <2>2, <3>1
      <3> QED BY <2>4, <3>3, <3>4 DEF Progress
    <2>5. CASE pc'[w] = "release"
      BY <2>5 DEF Progress
    <2> QED BY <1>5, <2>3, <2>4, <2>5
  <1>7. source \in run[r].startWm..source
    BY <1>2, NumbersTyped DEF WatermarkInv
  <1> QED BY <1>1, <1>2, <1>4, <1>5, <1>6, <1>7, AttemptTarget

LEMMA StageRowCover ==
  ASSUME TypeOK, ControlInv, WatermarkInv, CoverInv, NEW w \in Workers, StageRow(w), [Next]_vars
  PROVE  AttemptAt(w)' /\ HandoffAt(w)'
  <1> PICK r, b, n, wm, last, full, rows :
        /\ r = loc[w].run /\ b = loc[w].batch /\ n = loc[w].next /\ last = loc[w].last
        /\ wm = loc[w].wm /\ full = loc[w].pages * PageSize /\ rows = RowCount[b][source]
    OBVIOUS
  <1>0. AttemptAt(w) /\ \A s \in Runs : StagedRows(s)
    BY DEF CoverInv, RunCover
  <1>1. /\ UNCHANGED <<run, batch, source>> /\ pc[w] = "stageRow"
        /\ RowStaged(r, b, n, wm)
        /\ IF n = last THEN Goto(w, "updateProgress") ELSE GotoIfAuthorized(w, "stageRow")
    BY DEF StageRow, Awaits, RowStaged
  <1>2. /\ r \in Runs /\ Begun(r) /\ b \in Batches(r) /\ b \in BatchIds
        /\ n \in Nat /\ last \in Nat /\ wm \in 0..MaxWatermark /\ wm \in run[r].startWm..source
        /\ rows \in Nat
        /\ Still(r) => /\ wm = source /\ n <= last /\ last <= rows
                       /\ last \in {rows, full} /\ last <= full
                       /\ Filled(r, b, n)
        /\ Still(r) /\ n \in 1..MaxRows => wm = RowsAt(b, source)[n]
    BY <1>0, StageFacts
  <1>3. /\ loc'[w].next = n + 1 /\ loc'[w].run = r /\ loc'[w].batch = b /\ loc'[w].wm = wm
        /\ loc'[w].last = last /\ loc'[w].pages = loc[w].pages
    BY NextEffect DEF StageRow
  <1>4. pc'[w] \in {IF n = last THEN "updateProgress" ELSE "stageRow", "release"}
    BY <1>1, GotoEffect
  <1>5. \A i \in 1..MaxRows : staged'[r][b][i] = IF i = n THEN wm ELSE staged[r][b][i]
    BY <1>1, <1>2, StageUpdate
  <1>6. full \in Nat
    BY PageProduct, LocalsTyped DEF Locals
  <1>7. ASSUME Still(r) PROVE Progress(pc[w], loc[w])'
    <2>1. \A i \in 1..MaxRows : i < n + 1 => staged'[r][b][i] = RowsAt(b, source)[i]
      <3>1. \A i \in 1..MaxRows : i < n + 1 => i = n \/ i < n
        BY <1>2
      <3> QED BY <1>2, <1>5, <1>7, <3>1 DEF Filled
    <2>2. CASE pc'[w] = "stageRow"
      <3>1. n + 1 <= last
        BY <1>2, <1>4, <1>7, <2>2
      <3>2. Filled(loc[w].run, loc[w].batch, loc[w].next)'
        BY <1>1, <1>3, <2>1 DEF Filled
      <3> QED BY <1>1, <1>2, <1>3, <1>7, <2>2, <3>1, <3>2 DEF Progress
    <2>3. CASE pc'[w] = "updateProgress"
      <3>1. n = last
        BY <1>4, <2>3
      <3>2. last < full => rows <= full
        BY <1>2, <1>6, <1>7
      <3>3. ASSUME NEW i \in 1..MaxRows, i < full + 1 PROVE staged'[r][b][i] = RowsAt(b, source)[i]
        <4>1. CASE i < n + 1
          BY <2>1, <4>1
        <4>2. CASE ~(i < n + 1)
          <5>1. i # n /\ i > n /\ rows <= n
            BY <1>2, <1>6, <1>7, <3>1, <3>3, <4>2
          <5>2. staged[r][b][i] = RowsAt(b, source)[i]
            BY <1>0, <1>2, <1>7, <5>1, RowsBeyond
          <5> QED BY <1>5, <5>1, <5>2
        <4> QED BY <4>1, <4>2
      <3>4. Filled(loc[w].run, loc[w].batch, loc[w].pages * PageSize + 1)'
        BY <1>1, <1>3, <3>3 DEF Filled
      <3>5. loc'[w].last < loc'[w].pages * PageSize =>
              RowCount[loc'[w].batch][source'] <= loc'[w].pages * PageSize
        BY <1>1, <1>3, <3>2
      <3> QED BY <2>3, <3>4, <3>5 DEF Progress
    <2>4. CASE pc'[w] = "release"
      BY <2>4 DEF Progress
    <2> QED BY <1>4, <2>2, <2>3, <2>4
  <1> QED BY <1>1, <1>2, <1>3, <1>4, <1>7, AttemptTarget

LEMMA UpdateProgressCover ==
  ASSUME TypeOK, ControlInv, WatermarkInv, CoverInv, NEW w \in Workers, UpdateProgress(w), [Next]_vars
  PROVE  AttemptAt(w)' /\ HandoffAt(w)'
  <1> PICK r, b, full :
        r = loc[w].run /\ b = loc[w].batch /\ full = loc[w].pages * PageSize
    OBVIOUS
  <1>0. AttemptAt(w) /\ \A s \in Runs : StagedRows(s)
    BY DEF CoverInv, RunCover
  <1>1. UNCHANGED <<run, batch, staged, source, loc>> /\ pc[w] = "updateProgress"
    BY DEF UpdateProgress, Awaits, dbVars
  <1>2. r \in Runs /\ Begun(r) /\ b \in Batches(r)
    BY <1>0, <1>1, AttemptFacts DEF BatchCalls
  <1>3. \/ pc'[w] \in {"markPageLimit", "fetchPage", "release"}
        \/ pc'[w] = "markCompleted" /\ loc[w].last < full
    BY GotoEffect DEF UpdateProgress, isTerminalPage
  <1>4. full \in Nat
    BY PageProduct, LocalsTyped DEF Locals
  <1>5. ASSUME Still(r) PROVE Progress(pc[w], loc[w])'
    <2>1. /\ loc[w].last < full => RowCount[b][source] <= full
          /\ Filled(r, b, full + 1)
      BY <1>0, <1>1, <1>5 DEF AttemptAt, Progress, BatchCalls
    <2>2. CASE pc'[w] = "fetchPage"
      <3>1. Filled(loc[w].run, loc[w].batch, loc[w].pages * PageSize + 1)'
        BY <1>1, <2>1 DEF Filled
      <3> QED BY <2>2, <3>1 DEF Progress
    <2>3. CASE pc'[w] = "markCompleted"
      <3>1. Complete(r, b)
        BY <1>0, <1>2, <1>3, <1>4, <1>5, <2>1, <2>3, RowsBeyond
      <3>2. Complete(loc[w].run, loc[w].batch)'
        BY <1>1, <3>1 DEF Complete
      <3> QED BY <2>3, <3>2 DEF Progress
    <2>4. CASE pc'[w] \in {"markPageLimit", "release"}
      BY <2>4 DEF Progress
    <2> QED BY <1>3, <2>2, <2>3, <2>4
  <1> QED BY <1>1, <1>2, <1>3, <1>5, AttemptTarget

(* The remaining calls of an attempt keep to its batch or leave it. *)
LEMMA AttemptCover ==
  ASSUME TypeOK, ControlInv, WatermarkInv, CoverInv, [Next]_vars, NEW w \in Workers,
         \/ FindBatch(w) \/ BatchWrites(w)
         \/ pc[w] \in BatchCalls /\ (HttpFailure(w) \/ DbFailure(w))
  PROVE  AttemptAt(w)' /\ HandoffAt(w)'
  <1> PICK r, b : r = loc[w].run /\ b = loc[w].batch
    OBVIOUS
  <1>0. AttemptAt(w) /\ pc[w] \in BatchCalls
    BY DEF CoverInv, BatchWrites, FindBatch, MarkExhausted, IncrementAttempt, SetRunning,
           MarkCompleted, MarkFailed, MarkPageLimit, WritesBatch, Awaits, Reads, BatchCalls
  <1>1. r \in Runs /\ Begun(r) /\ b \in Batches(r)
    BY <1>0, AttemptFacts
  <1>2. ASSUME pc'[w] \in {"markExhausted", "incrementAttempt", "setRunning", "markFailed",
                           "listBatches", "failTx", "release", "idle"},
               pc'[w] \in BatchCalls => source' = source /\ loc' = loc
        PROVE  AttemptAt(w)' /\ HandoffAt(w)'
    <2>1. CASE pc'[w] \in BatchCalls
      BY <1>1, <1>2, <2>1, AttemptTarget
    <2>2. CASE pc'[w] \notin BatchCalls
      BY <1>2, <2>2, CoverRest
    <2> QED BY <2>1, <2>2
  <1>3. CASE FindBatch(w)
    BY <1>2, <1>3, GotoEffect DEF FindBatch, Reads
  <1>4. CASE IncrementAttempt(w)
    BY <1>2, <1>4, GotoEffect DEF IncrementAttempt, WritesBatch, Awaits
  <1>5. CASE MarkExhausted(w) \/ MarkCompleted(w) \/ MarkFailed(w) \/ MarkPageLimit(w)
    <2>1. pc'[w] \in {"listBatches", "failTx", "release"}
      BY <1>5, GotoEffect DEF MarkExhausted, MarkCompleted, MarkFailed, MarkPageLimit
    <2> QED BY <1>2, <2>1 DEF BatchCalls
  <1>6. CASE SetRunning(w)
    <2>1. /\ source' = source
          /\ pc'[w] \in {"fetchPage", "release"}
      BY <1>6, GotoEffect DEF SetRunning, WritesBatch, Awaits
    <2>2. loc'[w].run = r /\ loc'[w].batch = b /\ loc'[w].pages = 0
      BY <1>6, PagesEffect
    <2>3. Filled(loc[w].run, loc[w].batch, loc[w].pages * PageSize + 1)'
      <3>1. loc'[w].pages * PageSize + 1 = 1
        BY <2>2, BoundsAssumption
      <3>2. \A i \in 1..MaxRows : ~(i < 1)
        OBVIOUS
      <3> QED BY <3>1, <3>2 DEF Filled
    <2>4. Progress(pc[w], loc[w])'
      BY <2>1, <2>3 DEF Progress
    <2> QED BY <1>1, <2>1, <2>2, <2>4, AttemptTarget
  <1>7. CASE HttpFailure(w) \/ DbFailure(w)
    <2>1. pc'[w] \in {"markFailed", "release", "idle"} /\ source' = source /\ loc' = loc
      BY <1>7, GotoEffect DEF HttpFailure, DbFailure
    <2> QED BY <1>2, <2>1
  <1> QED BY <1>3, <1>4, <1>5, <1>6, <1>7 DEF BatchWrites

(* From the last completed batch to the accepted publication. *)
LEMMA HandoffCover ==
  ASSUME TypeOK, ControlInv, WatermarkInv, CoverInv, [Next]_vars, NEW w \in Workers,
         ListBatches(w) \/ EndMetadata(w) \/ AcceptTx(w)
  PROVE  AttemptAt(w)' /\ HandoffAt(w)'
  <1> PICK l, r : l \in Locals /\ l = loc[w] /\ r = l.run
    BY LocalsTyped
  <1>0. HandoffAt(w) /\ r \in Runs /\ Begun(r) /\ RunCover(r)
    <2>1. r \in Runs /\ Begun(r)
      BY RunOf DEF ListBatches, EndMetadata, AcceptTx, Reads, StartedCalls, WatermarkInv, WatermarkAt
    <2> QED BY <2>1 DEF CoverInv
  <1>a. UNCHANGED <<run, batch, staged, source>>
    BY DEF ListBatches, EndMetadata, AcceptTx, Reads
  <1>1. CASE ListBatches(w)
    <2>1. CASE Incomplete(r) = {}
      <3>1. loc' = loc /\ pc'[w] \in {"endMetadata", "release"}
        BY <1>1, <2>1, GotoEffect DEF ListBatches
      <3>2. ASSUME Still(r) PROVE Covers(r, staged[r])
        <4>1. \A b \in Batches(r) : staged[r][b] = RowsAt(b, source)
          BY <1>0, <2>1, <3>2 DEF Incomplete, RunCover, StagedRows
        <4>2. source \in source..source /\ source = run[r].startWm
          BY <3>2, NumbersTyped DEF Still
        <4>3. ASSUME NEW b \in Batches(r), NEW i \in 1..MaxRows
              PROVE  \/ staged[r][b][i] \in run[r].startWm..source
                     \/ staged[r][b][i] = 0 /\ RowsAt(b, run[r].startWm)[i] = 0
          <5>1. b \in BatchIds
            BY <1>0, BatchesInRange
          <5>2. RowsAt(b, source)[i] \in {0, source}
            BY <1>0, <5>1, RowsTyped
          <5>3. staged[r][b][i] = RowsAt(b, source)[i]
            BY <4>1
          <5> QED BY <4>2, <5>2, <5>3
        <4> QED BY <4>3 DEF Covers
      <3>3. Still(loc[w].run)' => Covers(loc[w].run, staged[loc[w].run])'
        BY <1>a, <3>1, <3>2 DEF Still, Covers, Batches
      <3> QED BY <3>1, <3>3 DEF AttemptAt, HandoffAt, BatchCalls
    <2>2. CASE Incomplete(r) # {}
      <3>1. PICK b \in Incomplete(r) :
              \/ Decide(w, "FAILED") /\ GotoIfAuthorized(w, "failTx")
              \/ loc' = [loc EXCEPT ![w].batch = b] /\ GotoIfAuthorized(w, "findBatch")
        BY <1>1, <2>2 DEF ListBatches
      <3>2. CASE Decide(w, "FAILED") /\ GotoIfAuthorized(w, "failTx")
        BY <3>2, GotoEffect, CoverRest DEF BatchCalls
      <3>3. CASE loc' = [loc EXCEPT ![w].batch = b] /\ GotoIfAuthorized(w, "findBatch")
        <4>1. pc'[w] \in {"findBatch", "release"} /\ loc'[w].run = r /\ loc'[w].batch = b
          BY <3>3, GotoEffect, BatchEffect
        <4>2. b \in Batches(r)
          BY DEF Incomplete
        <4> QED BY <1>0, <1>a, <4>1, <4>2, AttemptTarget
      <3> QED BY <3>1, <3>2, <3>3
    <2> QED BY <2>1, <2>2
  <1>2. CASE EndMetadata(w)
    <2>1. loc'[w].run = r /\ loc'[w].wm = source /\ pc'[w] \in {"persistEnd", "release"}
      BY <1>2, GotoEffect, WmEffect DEF EndMetadata
    <2>2. Still(r) => Covers(r, staged[r])
      BY <1>0, <1>2 DEF HandoffAt, EndMetadata, Reads
    <2>3. loc'[w].wm = run'[loc'[w].run].startWm => Covers(loc[w].run, staged[loc[w].run])'
      BY <1>a, <2>1, <2>2 DEF Still, Covers, Batches
    <2> QED BY <2>1, <2>3 DEF AttemptAt, HandoffAt, BatchCalls
  <1>3. CASE AcceptTx(w)
    <2>1. CASE ~(mayAccept(r) /\ checkAuthorized(w))
      BY <1>3, <2>1, GotoEffect, CoverRest DEF AcceptTx, BatchCalls
    <2>2. CASE mayAccept(r) /\ checkAuthorized(w)
      <3> PICK k : k = [l EXCEPT !.live = staged[r]]
        OBVIOUS
      <3>1. loc' = [loc EXCEPT ![w] = k] /\ Goto(w, "acceptCommit")
        BY <1>3, <2>2 DEF AcceptTx
      <3>2. loc'[w] = k /\ pc'[w] = "acceptCommit"
        BY <3>1, LocUpdate DEF Goto, TypeOK
      <3>3. k.run = r /\ k.live = staged[r]
        BY DEF Locals
      <3>4. Covers(r, staged[r])
        BY <1>0, <2>2 DEF RunCover, mayAccept, Measurable
      <3>5. Covers(loc[w].run, loc[w].live)'
        BY <1>a, <3>2, <3>3, <3>4 DEF Covers, Batches
      <3> QED BY <3>2, <3>5 DEF AttemptAt, HandoffAt, BatchCalls
    <2> QED BY <2>1, <2>2
  <1> QED BY <1>1, <1>2, <1>3

LEMMA WorkerCoverStep ==
  ASSUME TypeOK, ControlInv, WatermarkInv, CoverInv, NEW w \in Workers, Step(w) \/ Environment(w)
  PROVE  AttemptAt(w)' /\ HandoffAt(w)'
  <1>0. [Next]_vars
    BY DEF Next
  <1>1. CASE FetchPage(w) \/ StageRow(w) \/ UpdateProgress(w)
    BY <1>0, <1>1, FetchPageCover, StageRowCover, UpdateProgressCover
  <1>2. CASE FindBatch(w) \/ BatchWrites(w)
    BY <1>0, <1>2, AttemptCover
  <1>3. CASE ListBatches(w) \/ EndMetadata(w) \/ AcceptTx(w)
    BY <1>0, <1>3, HandoffCover
  <1>4. CASE StartExecution(w) \/ Acquire(w) \/ Release(w) \/ Crash(w)
    BY <1>4, CoverRest DEF StartExecution, Acquire, Release, Crash, Goto, TypeOK, BatchCalls
  <1>5. CASE FindActive(w) \/ CreateQueuedRun(w) \/ InitFind(w) \/ LoadBins(w) \/ InitTx(w)
             \/ StartMetadata(w) \/ StartTx(w)
    <2>1. pc'[w] \in {"createRun", "initFind", "resumeList", "listBatches", "loadBins", "initTx",
                      "startMetadata", "startTx", "release"}
      BY <1>5, GotoEffect DEF FindActive, CreateQueuedRun, InitFind, LoadBins, InitTx,
         StartMetadata, StartTx
    <2> QED BY <2>1, CoverRest DEF BatchCalls
  <1>6. CASE ResumeList(w) \/ ReadyList(w) \/ ResumeMetadata(w) \/ PersistEnd(w) \/ FailTx(w)
             \/ FailCommit(w) \/ AcceptCommit(w) \/ HttpTerminalFailure(w)
    <2>1. pc'[w] \in {"readyList", "resumeMetadata", "acceptTx", "listBatches", "failTx",
                      "failCommit", "release"}
      BY <1>6, GotoEffect DEF ResumeList, ReadyList, ResumeMetadata, PersistEnd, FailTx,
         FailCommit, AcceptCommit, HttpTerminalFailure
    <2> QED BY <2>1, CoverRest DEF BatchCalls
  <1>7. CASE SessionLoss(w) \/ SilentSessionLoss(w) \/ NoticeLoss(w)
    <2>1. pc'[w] = pc[w] /\ loc'[w] = loc[w]
      BY <1>7 DEF SessionLoss, SilentSessionLoss, NoticeLoss
    <2> QED BY <1>0, <2>1, CoverFrame
  <1>8. CASE HttpFailure(w) \/ DbFailure(w)
    <2>1. CASE pc[w] \in BatchCalls
      BY <1>0, <1>8, <2>1, AttemptCover
    <2>2. CASE pc[w] \notin BatchCalls
      <3>1. pc'[w] \in {"release", "idle"}
        BY <1>8, <2>2, GotoEffect DEF HttpFailure, DbFailure, AttemptCalls, BatchCalls
      <3> QED BY <3>1, CoverRest DEF BatchCalls
    <2> QED BY <2>1, <2>2
  <1> QED BY <1>1, <1>2, <1>3, <1>4, <1>5, <1>6, <1>7, <1>8 DEF Step, Environment, BatchWrites

LEMMA NextCover ==
  ASSUME IInv, IInv', WatermarkInv, CoverInv, [Next]_vars
  PROVE  CoverInv'
  <1>0. TypeOK /\ TypeOK' /\ ControlInv
    BY DEF IInv
  <1>1. \A r \in Runs : RunCover(r)'
    BY <1>0, RunCoverStep
  <1>2. ASSUME NEW w \in Workers PROVE AttemptAt(w)' /\ HandoffAt(w)'
    <2>1. CASE Step(w) \/ Environment(w)
      BY <1>0, <2>1, WorkerCoverStep
    <2>2. CASE ~(Step(w) \/ Environment(w))
      <3>1. CASE SourceChange \/ UNCHANGED vars
        BY <1>0, <3>1, CoverFrame DEF SourceChange, vars
      <3>2. ASSUME NEW v \in Workers, Step(v) \/ Environment(v)
            PROVE  pc'[w] = pc[w] /\ loc'[w] = loc[w]
        BY <1>0, <2>2, <3>2, StepFrame DEF WorkerOnly
      <3> QED BY <1>0, <3>1, <3>2, CoverFrame DEF Next
    <2> QED BY <2>1, <2>2
  <1> QED BY <1>1, <1>2 DEF CoverInv

LEMMA InitCover == Init => CoverInv
  <1> SUFFICES ASSUME Init PROVE CoverInv
    OBVIOUS
  <1>1. ASSUME NEW w \in Workers PROVE AttemptAt(w) /\ HandoffAt(w)
    BY DEF Init, AttemptAt, HandoffAt, BatchCalls
  <1>2. ASSUME NEW r \in Runs PROVE RunCover(r)
    <2>1. /\ run[r].status = "ABSENT" /\ run[r].startWm = 0 /\ run[r].endWm = 0
          /\ run[r].batches = 0 /\ staged[r] = NoRows /\ source = 1
          /\ \A b \in BatchIds : batch[r][b].status = "PENDING"
      BY DEF Init
    <2>2. Batches(r) = {}
      BY <2>1 DEF Batches
    <2>3. ~Measurable(r) /\ StagedRows(r) /\ Untouched(r)
      BY <2>1, <2>2 DEF Measurable, StagedRows, Still, Untouched
    <2> QED BY <2>1, <2>3 DEF RunCover
  <1> QED BY <1>1, <1>2 DEF CoverInv

LEMMA CoverInvariant == Spec => [](IInv /\ WatermarkInv /\ CoverInv)
  <1>1. IInv /\ WatermarkInv /\ CoverInv /\ [Next]_vars => (IInv /\ WatermarkInv /\ CoverInv)'
    BY NextIInv, NextWatermarks, NextCover
  <1>2. Init => IInv /\ WatermarkInv /\ CoverInv
    BY InitIInv, InitWatermarks, InitCover
  <1> QED BY <1>1, <1>2, PTL DEF Spec

(* A batch recorded as COMPLETED has every row of an unmoved source        *)
(* staged, whatever attempts failed before, and although executors that    *)
(* lost their session may still be staging and completing it.              *)
THEOREM CompletedBatchesAreStaged == Spec => []CompletedBatchIsStaged
  <1>1. CoverInv => CompletedBatchIsStaged
    BY DEF CoverInv, RunCover, StagedRows, Still, CompletedBatchIsStaged
  <1> QED BY <1>1, CoverInvariant, PTL

(* What an accepted run has promoted misses no row of the source it was    *)
(* started for and holds none from before, with any number of executors    *)
(* that lost their session and still write.                                *)
THEOREM AcceptedRowsCurrent == Spec => []AcceptedRowsAreCurrent
  <1>1. CoverInv => AcceptedRowsAreCurrent
    BY DEF CoverInv, RunCover, AcceptedRowsAreCurrent
  <1> QED BY <1>1, CoverInvariant, PTL

-----------------------------------------------------------------------------
(* Sessions *)

LEMMA LossesCounted ==
  ASSUME TypeOK, [Next]_vars
  PROVE  /\ faults.losses \in Nat /\ faults'.losses \in Nat /\ faults.losses <= faults'.losses
         /\ \A w \in Workers : SessionLoss(w) \/ SilentSessionLoss(w) =>
                                 faults'.losses = faults.losses + 1
  <1>1. faults.losses \in Nat
    BY BoundsAssumption DEF TypeOK
  <1>2. ASSUME NEW w \in Workers, SessionLoss(w) \/ SilentSessionLoss(w)
        PROVE  faults'.losses = faults.losses + 1
    BY <1>2 DEF SessionLoss, SilentSessionLoss, LosesSession
  <1>3. ASSUME NEW kind, Fault(kind) PROVE faults'.losses = faults.losses
    BY <1>3 DEF Fault, TypeOK
  <1>4. ASSUME NEW w \in Workers, Step(w) PROVE faults' = faults
    BY <1>4 DEF Step, StartExecution, Acquire, Release, FindActive,
       CreateQueuedRun, InitFind, LoadBins, InitTx, StartMetadata, StartTx, ResumeList, ReadyList,
       ResumeMetadata, ListBatches, FindBatch, MarkExhausted, IncrementAttempt, SetRunning,
       FetchPage, StageRow, UpdateProgress, MarkCompleted, MarkFailed, MarkPageLimit,
       EndMetadata, PersistEnd, FailTx, FailCommit, AcceptTx, AcceptCommit, Reads, Awaits, WritesBatch
  <1>5. ASSUME NEW w \in Workers, Environment(w)
        PROVE  \/ \E kind : Fault(kind)
               \/ SessionLoss(w) \/ SilentSessionLoss(w) \/ faults' = faults
    BY <1>5 DEF Environment, Crash, NoticeLoss, HttpFailure, HttpTerminalFailure, DbFailure
  <1>6. SourceChange \/ UNCHANGED vars => faults' = faults
    BY DEF SourceChange, vars
  <1>7. ASSUME NEW w \in Workers, Step(w) \/ Environment(w)
        PROVE  faults'.losses \in {faults.losses, faults.losses + 1}
    <2>1. CASE faults' = faults
      BY <2>1
    <2>2. ASSUME NEW kind, Fault(kind) PROVE faults'.losses = faults.losses
      BY <2>2, <1>3
    <2> QED BY <1>2, <1>4, <1>5, <1>7, <2>1, <2>2
  <1>8. faults'.losses \in {faults.losses, faults.losses + 1}
    BY <1>6, <1>7 DEF Next
  <1> QED BY <1>1, <1>2, <1>8

(* Who takes, gives back or loses the lock; no other step touches it.      *)
LEMMA SessionMoves ==
  ASSUME TypeOK, NEW w \in Workers, Step(w) \/ Environment(w)
  PROVE  \/ /\ lock = NoWorker /\ lock' = w
            /\ auth' = [auth EXCEPT ![w] = "held"] /\ pc'[w] = "findActive"
         \/ /\ pc'[w] = "idle" /\ auth' = [auth EXCEPT ![w] = "none"]
            /\ lock' = IF lock = w THEN NoWorker ELSE lock
         \/ SessionLoss(w) \/ SilentSessionLoss(w) \/ NoticeLoss(w)
         \/ /\ UNCHANGED <<lock, auth>>
            /\ pc'[w] \in {"idle", "lock"} \/ pc[w] \notin {"idle", "lock"}
  <1>1. CASE StartExecution(w)
    BY <1>1 DEF StartExecution, Goto, TypeOK
  <1>2. CASE Acquire(w)
    BY <1>2 DEF Acquire, Goto, TypeOK
  <1>3. CASE Release(w) \/ Crash(w)
    BY <1>3 DEF Release, Crash, Goto, TypeOK
  <1>4. CASE HttpFailure(w) \/ HttpTerminalFailure(w)
    BY <1>4 DEF HttpFailure, HttpTerminalFailure
  <1>5. CASE DbFailure(w)
    <2>1. pc[w] # "lock" \/ Goto(w, "idle")
      BY <1>5 DEF DbFailure, AttemptCalls
    <2> QED BY <1>5, <2>1 DEF DbFailure, Goto, TypeOK
  <1>6. CASE FindActive(w) \/ CreateQueuedRun(w) \/ InitFind(w) \/ LoadBins(w) \/ InitTx(w)
             \/ StartMetadata(w) \/ StartTx(w) \/ ResumeList(w) \/ ReadyList(w)
             \/ ResumeMetadata(w) \/ ListBatches(w) \/ FindBatch(w) \/ FetchPage(w)
             \/ EndMetadata(w) \/ FailTx(w) \/ AcceptTx(w) \/ PersistEnd(w)
             \/ FailCommit(w) \/ AcceptCommit(w)
    BY <1>6 DEF FindActive, CreateQueuedRun, InitFind, LoadBins, InitTx,
       StartMetadata, StartTx, ResumeList, ReadyList, ResumeMetadata, ListBatches, FindBatch,
       FetchPage, EndMetadata, FailTx, AcceptTx, PersistEnd, FailCommit, AcceptCommit,
       Reads, Awaits
  <1>7. CASE MarkExhausted(w) \/ IncrementAttempt(w) \/ SetRunning(w) \/ StageRow(w)
             \/ UpdateProgress(w) \/ MarkCompleted(w) \/ MarkFailed(w) \/ MarkPageLimit(w)
    BY <1>7 DEF MarkExhausted, IncrementAttempt, SetRunning, StageRow,
       UpdateProgress, MarkCompleted, MarkFailed, MarkPageLimit, WritesBatch, Awaits
  <1> QED BY <1>1, <1>2, <1>3, <1>4, <1>5, <1>6, <1>7 DEF Step, Environment

-----------------------------------------------------------------------------
(* The attempt budget, overspent at most once for each lost session *)

(* Workers that go on executing without their lock session. *)
Stale == {w \in Workers : pc[w] \notin {"idle", "lock"} /\ lock # w}

(* Workers that found budget for batch b of run r and have not spent it.   *)
Spending(r, b) ==
  {w \in Workers : pc[w] = "incrementAttempt" /\ loc[w].run = r /\ loc[w].batch = b}

BudgetInv ==
  /\ IsFiniteSet(Stale) /\ Cardinality(Stale) <= faults.losses
  /\ \A r \in Runs, b \in BatchIds :
       batch[r][b].attempts + Cardinality(Spending(r, b)) <= MaxAttempts + faults.losses

LEMMA StaleStep ==
  ASSUME TypeOK, IsFiniteSet(Stale), Cardinality(Stale) <= faults.losses, [Next]_vars
  PROVE  IsFiniteSet(Stale') /\ Cardinality(Stale') <= faults'.losses
  <1>0. /\ Cardinality(Stale) \in Nat /\ faults.losses \in Nat /\ faults'.losses \in Nat
        /\ faults.losses <= faults'.losses
    BY FS_CardinalityType, LossesCounted
  <1>1. ASSUME Stale' \subseteq Stale
        PROVE  IsFiniteSet(Stale') /\ Cardinality(Stale') <= faults'.losses
    <2>1. IsFiniteSet(Stale') /\ Cardinality(Stale') <= Cardinality(Stale)
      BY <1>1, FS_Subset
    <2> QED BY <1>0, <2>1, FS_CardinalityType
  <1>2. CASE SourceChange \/ UNCHANGED vars
    BY <1>1, <1>2 DEF SourceChange, vars, Stale
  <1>3. ASSUME NEW w \in Workers, Step(w) \/ Environment(w)
        PROVE  IsFiniteSet(Stale') /\ Cardinality(Stale') <= faults'.losses
    <2>1. WorkerOnly(w)
      BY <1>3, StepFrame
    <2>2. CASE SessionLoss(w) \/ SilentSessionLoss(w)
      <3>1. Stale' \subseteq Stale \cup {w}
        BY <2>2, WorkersAssumption DEF SessionLoss, SilentSessionLoss, LosesSession, Stale
      <3>2. IsFiniteSet(Stale \cup {w}) /\ Cardinality(Stale \cup {w}) <= Cardinality(Stale) + 1
        BY <1>0, FS_AddElement
      <3>3. IsFiniteSet(Stale') /\ Cardinality(Stale') <= Cardinality(Stale \cup {w})
        BY <3>1, <3>2, FS_Subset
      <3>4. faults'.losses = faults.losses + 1
        BY <2>2, LossesCounted
      <3> QED BY <1>0, <3>2, <3>3, <3>4, FS_CardinalityType
    <2>3. CASE ~(SessionLoss(w) \/ SilentSessionLoss(w))
      <3>1. Stale' \subseteq Stale
        BY <1>3, <2>1, <2>3, SessionMoves, WorkersAssumption
           DEF Stale, WorkerOnly, NoticeLoss
      <3> QED BY <1>1, <3>1
    <2> QED BY <2>2, <2>3
  <1> QED BY <1>2, <1>3 DEF Next

(* Only the executor and the stale workers spend. *)
LEMMA SpendingFinite ==
  ASSUME TypeOK, IsFiniteSet(Stale), NEW w \in Workers, NEW r, NEW b
  PROVE  /\ IsFiniteSet(Spending(r, b)) /\ Cardinality(Spending(r, b)) \in Nat
         /\ pc[w] \notin {"idle", "lock"} /\ w \notin Spending(r, b) =>
              Cardinality(Spending(r, b)) <= Cardinality(Stale)
  <1>1. Spending(r, b) \subseteq Stale \cup {lock}
    BY DEF Spending, Stale
  <1>2. IsFiniteSet(Spending(r, b))
    <2>1. IsFiniteSet(Stale \cup {lock})
      BY FS_AddElement
    <2> QED BY <1>1, <2>1, FS_Subset
  <1>3. ASSUME pc[w] \notin {"idle", "lock"}, w \notin Spending(r, b)
        PROVE  Cardinality(Spending(r, b)) <= Cardinality(Stale)
    <2>1. CASE lock = w
      <3>1. Spending(r, b) \subseteq Stale
        BY <1>1, <1>3, <2>1
      <3> QED BY <3>1, FS_Subset
    <2>2. CASE lock # w
      <3>1. w \in Stale
        BY <1>3, <2>2 DEF Stale
      <3>2. IsFiniteSet(Stale \ {w}) /\ Cardinality(Stale \ {w}) = Cardinality(Stale) - 1
        BY <3>1, FS_RemoveElement
      <3>3. /\ IsFiniteSet((Stale \ {w}) \cup {lock})
            /\ Cardinality((Stale \ {w}) \cup {lock}) <= Cardinality(Stale)
        <4> DEFINE rest == Stale \ {w}
        <4>1. /\ IsFiniteSet(rest \cup {lock})
              /\ Cardinality(rest \cup {lock}) \in {Cardinality(rest), Cardinality(rest) + 1}
          <5> HIDE DEF rest
          <5>1. IsFiniteSet(rest)
            BY <3>2 DEF rest
          <5> QED BY <5>1, FS_AddElement
        <4>2. Cardinality(Stale) \in Nat /\ Cardinality(rest) = Cardinality(Stale) - 1
          BY <3>2, FS_CardinalityType
        <4> QED BY <4>1, <4>2
      <3>4. Spending(r, b) \subseteq (Stale \ {w}) \cup {lock}
        BY <1>1, <1>3
      <3>5. Cardinality(Spending(r, b)) <= Cardinality((Stale \ {w}) \cup {lock})
        BY <3>3, <3>4, FS_Subset
      <3> QED BY <1>2, <3>3, <3>5, FS_CardinalityType
    <2> QED BY <2>1, <2>2
  <1> QED BY <1>2, <1>3, FS_CardinalityType

LEMMA OnlyFindBatchSpends ==
  ASSUME TypeOK, NEW w \in Workers, Step(w) \/ Environment(w),
         pc'[w] = "incrementAttempt", pc'[w] # pc[w] \/ loc'[w] # loc[w]
  PROVE  FindBatch(w)
  <1>1. ~(StartExecution(w) \/ Acquire(w) \/ Release(w) \/ Crash(w))
    BY DEF StartExecution, Acquire, Release, Crash, Goto, TypeOK
  <1>2. ~(\/ FindActive(w) \/ CreateQueuedRun(w) \/ InitFind(w) \/ LoadBins(w) \/ InitTx(w)
          \/ StartMetadata(w) \/ StartTx(w))
    <2>1. (\/ FindActive(w) \/ CreateQueuedRun(w) \/ InitFind(w) \/ LoadBins(w) \/ InitTx(w)
           \/ StartMetadata(w) \/ StartTx(w)) =>
             pc'[w] \in {"createRun", "initFind", "resumeList", "listBatches", "loadBins", "initTx",
                        "startMetadata", "startTx", "release"}
      BY GotoEffect DEF FindActive, CreateQueuedRun, InitFind, LoadBins, InitTx,
         StartMetadata, StartTx
    <2> QED BY <2>1
  <1>3. ~(\/ ResumeList(w) \/ ReadyList(w) \/ ResumeMetadata(w) \/ ListBatches(w)
          \/ EndMetadata(w) \/ PersistEnd(w))
    BY GotoEffect DEF ResumeList, ReadyList, ResumeMetadata, ListBatches, EndMetadata, PersistEnd
  <1>4. ~(FailTx(w) \/ FailCommit(w) \/ AcceptTx(w) \/ AcceptCommit(w))
    BY GotoEffect DEF FailTx, FailCommit, AcceptTx, AcceptCommit
  <1>5. ~(\/ MarkExhausted(w) \/ IncrementAttempt(w) \/ SetRunning(w) \/ FetchPage(w)
          \/ StageRow(w) \/ UpdateProgress(w) \/ MarkCompleted(w) \/ MarkFailed(w)
          \/ MarkPageLimit(w))
    BY GotoEffect DEF MarkExhausted, IncrementAttempt, SetRunning, FetchPage, StageRow,
       UpdateProgress, MarkCompleted, MarkFailed, MarkPageLimit
  <1>6. ~(SessionLoss(w) \/ SilentSessionLoss(w) \/ NoticeLoss(w))
    BY DEF SessionLoss, SilentSessionLoss, NoticeLoss
  <1>7. ~(HttpFailure(w) \/ HttpTerminalFailure(w) \/ DbFailure(w))
    BY GotoEffect DEF HttpFailure, HttpTerminalFailure, DbFailure
  <1> QED BY <1>1, <1>2, <1>3, <1>4, <1>5, <1>6, <1>7 DEF Step, Environment

(* Attempts are counted only by a worker that was about to, after it has   *)
(* found that the budget allows it.                                        *)
LEMMA SpendingStep ==
  ASSUME TypeOK, ControlInv, WatermarkInv, CoverInv, NEW w \in Workers, Step(w) \/ Environment(w),
         NEW r \in Runs, NEW b \in BatchIds
  PROVE  /\ \/ batch'[r][b].attempts = batch[r][b].attempts
            \/ /\ batch'[r][b].attempts = batch[r][b].attempts + 1
               /\ w \in Spending(r, b) /\ w \notin Spending(r, b)'
         /\ w \in Spending(r, b)' /\ w \notin Spending(r, b) =>
              /\ batch[r][b].attempts < MaxAttempts /\ pc[w] = "findBatch"
              /\ batch'[r][b].attempts = batch[r][b].attempts
  <1>0. [Next]_vars /\ WorkerOnly(w) /\ \A v \in Workers : AttemptAt(v)
    BY StepFrame DEF Next, CoverInv
  <1>1. ASSUME batch'[r][b].attempts # batch[r][b].attempts
        PROVE  /\ batch'[r][b].attempts = batch[r][b].attempts + 1
               /\ w \in Spending(r, b) /\ w \notin Spending(r, b)'
    <2>1. PICK v \in Workers : BatchWrites(v) /\ loc[v].run = r /\ loc[v].batch = b
      BY <1>0, <1>1, BatchRowWriter
    <2>2. batch'[r][b].attempts = batch[r][b].attempts + 1 /\ pc[v] = "incrementAttempt"
      BY <1>0, <1>1, <2>1, BatchWriter
    <2>3. pc'[v] = "setRunning"
      BY <2>1, <2>2 DEF BatchWrites, MarkExhausted, IncrementAttempt, SetRunning, MarkCompleted,
         MarkFailed, MarkPageLimit, WritesBatch, Awaits, Goto, TypeOK
    <2>4. v = w
      BY <1>0, <2>2, <2>3 DEF WorkerOnly
    <2> QED BY <2>1, <2>2, <2>3, <2>4 DEF Spending
  <1>2. ASSUME w \in Spending(r, b)', w \notin Spending(r, b)
        PROVE  /\ batch[r][b].attempts < MaxAttempts /\ pc[w] = "findBatch"
               /\ batch'[r][b].attempts = batch[r][b].attempts
    <2>1. pc'[w] = "incrementAttempt" /\ loc'[w].run = r /\ loc'[w].batch = b
      BY <1>2 DEF Spending
    <2>2. pc'[w] # pc[w] \/ loc'[w] # loc[w]
      BY <1>2, <2>1 DEF Spending
    <2>3. FindBatch(w)
      BY <2>1, <2>2, OnlyFindBatchSpends
    <2>4. UNCHANGED <<batch, loc>> /\ pc[w] = "findBatch" /\ ~budgetSpent(batch[r][b])
      BY <2>1, <2>3, GotoEffect DEF FindBatch, Reads, MyBatch
    <2>5. batch[r][b].attempts \in Nat
      BY BatchRow
    <2> QED BY <2>4, <2>5, BoundsAssumption DEF budgetSpent
  <1> QED BY <1>1, <1>2

LEMMA BudgetStep ==
  ASSUME TypeOK, ControlInv, WatermarkInv, CoverInv, BudgetInv, IsFiniteSet(Stale'), [Next]_vars,
         NEW r \in Runs, NEW b \in BatchIds
  PROVE  batch'[r][b].attempts + Cardinality(Spending(r, b)') <= MaxAttempts + faults'.losses
  <1> DEFINE old == Spending(r, b)
             new == Spending(r, b)'
             spent == batch[r][b].attempts
  <1>0. /\ spent \in Nat /\ MaxAttempts \in Nat /\ faults.losses \in Nat /\ faults'.losses \in Nat
        /\ faults.losses <= faults'.losses
        /\ spent + Cardinality(old) <= MaxAttempts + faults.losses
    BY BatchRow, LossesCounted, BoundsAssumption DEF BudgetInv
  <1>1. ASSUME SourceChange \/ UNCHANGED vars
        PROVE  batch'[r][b].attempts + Cardinality(new) <= MaxAttempts + faults'.losses
    <2>1. UNCHANGED <<batch, pc, loc, faults>>
      BY <1>1 DEF SourceChange, vars, dbVars
    <2>2. new = old /\ batch'[r][b].attempts = spent /\ faults'.losses = faults.losses
      BY <2>1 DEF Spending
    <2> HIDE DEF old, new, spent
    <2> QED BY <1>0, <2>2
  <1>2. ASSUME NEW w \in Workers, Step(w) \/ Environment(w)
        PROVE  batch'[r][b].attempts + Cardinality(new) <= MaxAttempts + faults'.losses
    <2>1. WorkerOnly(w)
      BY <1>2, StepFrame
    <2>2. /\ w \in new => new = old \cup {w}
          /\ w \notin new => new = old \ {w}
      BY <2>1 DEF WorkerOnly, Spending
    <2>3. /\ IsFiniteSet(old) /\ Cardinality(old) \in Nat
          /\ pc[w] \notin {"idle", "lock"} /\ w \notin old =>
               Cardinality(old) <= Cardinality(Stale)
      BY SpendingFinite DEF BudgetInv
    <2>4. \/ batch'[r][b].attempts = spent
          \/ batch'[r][b].attempts = spent + 1 /\ w \in old /\ w \notin new
      BY <1>2, <2>1, SpendingStep
    <2>5. w \in new /\ w \notin old => spent < MaxAttempts /\ pc[w] = "findBatch"
                                        /\ batch'[r][b].attempts = spent
      BY <1>2, <2>1, SpendingStep
    <2>6. Cardinality(Stale) <= faults.losses /\ Cardinality(Stale) \in Nat
      BY FS_CardinalityType DEF BudgetInv
    <2> HIDE DEF old, new, spent
    <2>7. CASE w \in new /\ w \notin old
      <3>1. Cardinality(new) = Cardinality(old) + 1
        BY <2>2, <2>3, <2>7, FS_AddElement
      <3> QED BY <1>0, <2>3, <2>5, <2>6, <2>7, <3>1
    <2>8. CASE w \in new /\ w \in old
      <3>1. new = old
        BY <2>2, <2>8
      <3> QED BY <1>0, <2>3, <2>4, <2>8, <3>1
    <2>9. CASE w \notin new /\ w \in old
      <3>1. Cardinality(new) = Cardinality(old) - 1
        BY <2>2, <2>3, <2>9, FS_RemoveElement
      <3> QED BY <1>0, <2>3, <2>4, <3>1
    <2>10. CASE w \notin new /\ w \notin old
      <3>1. new = old
        BY <2>2, <2>10
      <3> QED BY <1>0, <2>3, <2>4, <2>10, <3>1
    <2> QED BY <2>7, <2>8, <2>9, <2>10
  <1> QED BY <1>1, <1>2 DEF Next

LEMMA NextBudget ==
  ASSUME TypeOK, ControlInv, WatermarkInv, CoverInv, BudgetInv, [Next]_vars
  PROVE  BudgetInv'
  <1>1. IsFiniteSet(Stale') /\ Cardinality(Stale') <= faults'.losses
    BY StaleStep DEF BudgetInv
  <1> QED BY <1>1, BudgetStep DEF BudgetInv

LEMMA InitBudget == Init => BudgetInv
  <1> SUFFICES ASSUME Init PROVE BudgetInv
    OBVIOUS
  <1>1. Stale = {} /\ faults.losses = 0
    BY DEF Init, Stale
  <1>2. ASSUME NEW r \in Runs, NEW b \in BatchIds
        PROVE  batch[r][b].attempts = 0 /\ Spending(r, b) = {}
    BY DEF Init, Spending
  <1>3. MaxAttempts \in Nat
    BY BoundsAssumption
  <1>4. IsFiniteSet(Stale) /\ Cardinality(Stale) <= faults.losses
    BY <1>1, FS_EmptySet
  <1>5. ASSUME NEW r \in Runs, NEW b \in BatchIds
        PROVE  batch[r][b].attempts + Cardinality(Spending(r, b)) <= MaxAttempts + faults.losses
    BY <1>1, <1>2, <1>3, FS_EmptySet
  <1> QED BY <1>4, <1>5 DEF BudgetInv

LEMMA BudgetInvariant == Spec => []BudgetInv
  <1>1. IInv /\ WatermarkInv /\ CoverInv /\ BudgetInv /\ [Next]_vars => BudgetInv'
    BY NextBudget DEF IInv
  <1> QED BY <1>1, InitBudget, CoverInvariant, PTL DEF Spec

(* The budget of logical attempts is read in one call and spent in         *)
(* another: executors that lost their session come in between, and         *)
(* overspend it by one attempt each at most.                               *)
THEOREM AttemptsAreBounded == Spec => []AttemptBudget
  <1>1. TypeOK /\ BudgetInv => AttemptBudget
    <2> SUFFICES ASSUME TypeOK, BudgetInv, NEW r \in Runs, NEW b \in BatchIds
                 PROVE  batch[r][b].attempts <= MaxAttempts + faults.losses
      BY DEF AttemptBudget
    <2>1. batch[r][b].attempts \in Nat /\ MaxAttempts \in Nat /\ faults.losses \in Nat
      BY BatchRow, BoundsAssumption DEF TypeOK
    <2>2. Cardinality(Spending(r, b)) \in Nat
      <3>1. Spending(r, b) \subseteq Stale \cup {lock}
        BY DEF Spending, Stale
      <3>2. IsFiniteSet(Stale \cup {lock})
        BY FS_AddElement DEF BudgetInv
      <3> QED BY <3>1, <3>2, FS_Subset, FS_CardinalityType
    <2> QED BY <2>1, <2>2 DEF BudgetInv
  <1> QED BY <1>1, BudgetInvariant, InductiveInvariant, PTL DEF IInv

-----------------------------------------------------------------------------
(* Until a session is lost the advisory lock excludes all but one executor *)

(* Only the session that holds the advisory lock executes, and it knows. *)
Exclusion ==
  \A w \in Workers :
    /\ auth[w] = IF lock = w THEN "held" ELSE "none"
    /\ pc[w] \notin {"idle", "lock"} => lock = w

LEMMA NextExclusion ==
  ASSUME TypeOK, Exclusion, [Next]_vars, faults'.losses = 0
  PROVE  Exclusion'
  <1>1. CASE SourceChange \/ UNCHANGED vars
    BY <1>1 DEF SourceChange, vars, Exclusion
  <1>2. ASSUME NEW w \in Workers, Step(w) \/ Environment(w) PROVE Exclusion'
    <2>1. WorkerOnly(w)
      BY <1>2, StepFrame
    <2>2. ~SessionLoss(w) /\ ~SilentSessionLoss(w)
      BY LossesCounted
    <2>3. ~NoticeLoss(w)
      BY DEF NoticeLoss, Exclusion
    <2>4. CASE lock = NoWorker /\ lock' = w /\ auth' = [auth EXCEPT ![w] = "held"]
      BY <2>1, <2>4, WorkersAssumption DEF Exclusion, WorkerOnly, TypeOK
    <2>5. CASE /\ pc'[w] = "idle" /\ auth' = [auth EXCEPT ![w] = "none"]
               /\ lock' = IF lock = w THEN NoWorker ELSE lock
      BY <2>1, <2>5, WorkersAssumption DEF Exclusion, WorkerOnly, TypeOK
    <2>6. CASE /\ UNCHANGED <<lock, auth>>
               /\ pc'[w] \in {"idle", "lock"} \/ pc[w] \notin {"idle", "lock"}
      BY <2>1, <2>6 DEF Exclusion, WorkerOnly
    <2> QED BY <1>2, <2>2, <2>3, <2>4, <2>5, <2>6, SessionMoves
  <1> QED BY <1>1, <1>2 DEF Next

-----------------------------------------------------------------------------
(* What the one executor has written, and what it relies on *)

(* Exactly the source rows of the start watermark are staged. *)
Exact(r) ==
  \A b \in BatchIds :
    staged[r][b] = IF b \in Batches(r) THEN RowsAt(b, run[r].startWm) ELSE NoRows[b]

RunData(r) ==
  /\ Measurable(r) => AllCompleted(r) /\ Exact(r)
  /\ run[r].status = "COMPLETED" => Measurable(r) /\ published[r] = staged[r]

HasFailedBatch(r) == \E b \in Batches(r) : batch[r][b].status = "FAILED"

(* A worker that completes call c with locals l and the rows of its run. *)
CallInv(c, l) ==
  /\ c \in QueuedCalls => run[l.run].status = "QUEUED"
  /\ c \in StartedCalls \cup {"acceptCommit"} => run[l.run].status = "RUNNING"
  /\ c \in BatchCalls => l.batch \in Incomplete(l.run)

HandoffInv(c, l) ==
  /\ c \in {"endMetadata", "persistEnd"} => AllCompleted(l.run)
  /\ c = "persistEnd" /\ l.wm = run[l.run].startWm => Exact(l.run)
  /\ c \in {"failTx", "failCommit"} /\ l.decision = "FAILED" =>
       run[l.run].status = "QUEUED" \/ HasFailedBatch(l.run)
  /\ c = "acceptCommit" => Measurable(l.run) /\ l.live = staged[l.run]

ExecutionInv(c, l) == CallInv(c, l) /\ HandoffInv(c, l)

SnapshotInv ==
  /\ Exclusion
  /\ \A r \in Runs : RunData(r)
  /\ \A w \in Workers : ExecutionInv(pc[w], loc[w])

(* The rows of a run after a step: a measured run is no longer written,    *)
(* and an accepted one neither measured nor published again.               *)
LEMMA RunDataStep ==
  ASSUME TypeOK, ControlInv, WatermarkInv, CoverInv, [Next]_vars,
         \A w \in Workers : ExecutionInv(pc[w], loc[w]), NEW r \in Runs, RunData(r)
  PROVE  RunData(r)'
  <1>0. \A w \in Workers : AttemptAt(w)
    BY DEF CoverInv
  <1>1. ASSUME AllCompleted(r), Begun(r)
        PROVE  AllCompleted(r)' /\ staged'[r] = staged[r]
    <2>1. Incomplete(r) = {} /\ Batches(r)' = Batches(r) /\ Batches(r) \subseteq BatchIds
      BY <1>1, BegunStays, BatchesInRange DEF AllCompleted, Incomplete
    <2>2. ASSUME staged'[r] # staged[r] PROVE FALSE
      <3>1. PICK w \in Workers : StageRow(w) /\ loc[w].run = r
        BY <1>0, <2>2, StagedWriter
      <3> QED BY <2>1, <3>1 DEF StageRow, Awaits, ExecutionInv, CallInv, BatchCalls
    <2>3. ASSUME NEW b \in Batches(r), batch'[r][b] # batch[r][b] PROVE FALSE
      <3>1. PICK w \in Workers : BatchWrites(w) /\ loc[w].run = r
        BY <1>0, <2>1, <2>3, BatchRowWriter
      <3>2. pc[w] \in BatchCalls
        BY <1>0, <3>1, BatchWriter
      <3> QED BY <2>1, <3>1, <3>2 DEF ExecutionInv, CallInv
    <2> QED BY <1>1, <2>1, <2>2, <2>3 DEF AllCompleted
  <1>2. ASSUME Begun(r), staged'[r] = staged[r] PROVE Exact(r)' <=> Exact(r)
    <2>1. Batches(r)' = Batches(r) /\ run'[r].startWm = run[r].startWm
      BY <1>2, BegunStays
    <2> QED BY <1>2, <2>1 DEF Exact
  <1>3. ASSUME Measurable(r)' PROVE AllCompleted(r)' /\ Exact(r)'
    <2>1. Begun(r) /\ run'[r].startWm = run[r].startWm
      <3>1. Begun(r)
        BY <1>3, QueuedRunStep DEF Measurable
      <3> QED BY <3>1, BegunStays
    <2>2. AllCompleted(r) /\ Exact(r)
      <3>1. CASE run'[r].endWm = run[r].endWm
        BY <1>3, <2>1, <3>1 DEF RunData, Measurable
      <3>2. CASE run'[r].endWm # run[r].endWm
        <4>1. PICK w \in Workers : PersistEnd(w) /\ loc[w].run = r /\ run'[r].endWm = loc[w].wm
          BY <3>2, RunMoves
        <4> QED BY <1>3, <2>1, <4>1 DEF PersistEnd, Awaits, ExecutionInv, HandoffInv, Measurable
      <3> QED BY <3>1, <3>2
    <2> QED BY <1>1, <1>2, <2>1, <2>2
  <1>4. ASSUME run'[r].status = "COMPLETED" PROVE Measurable(r)' /\ published'[r] = staged'[r]
    <2>1. CASE run[r].status = "COMPLETED"
      <3>1. Measurable(r) /\ published[r] = staged[r] /\ Begun(r)
        BY <2>1 DEF RunData, Begun
      <3>2. run'[r].startWm = run[r].startWm /\ staged'[r] = staged[r]
        BY <1>1, <3>1, BegunStays DEF RunData
      <3>3. run'[r].endWm = run[r].endWm
        <4>1. ASSUME NEW w \in Workers, PersistEnd(w) PROVE run[loc[w].run].status = "RUNNING"
          BY <4>1 DEF PersistEnd, Awaits, ExecutionInv, CallInv, StartedCalls
        <4> QED BY <2>1, <4>1, RunMoves
      <3>4. published'[r] = published[r]
        BY <2>1, PublishedWriter
      <3> QED BY <3>1, <3>2, <3>3, <3>4 DEF Measurable
    <2>2. CASE run[r].status # "COMPLETED"
      <3>1. PICK w \in Workers : AcceptCommit(w) /\ loc[w].run = r
        BY <1>4, <2>2, RunMoves
      <3>2. /\ pc[w] = "acceptCommit" /\ published'[r] = loc[w].live /\ staged' = staged
            /\ run' = [run EXCEPT ![r].status = "COMPLETED"]
        BY <3>1 DEF AcceptCommit, Awaits, TypeOK
      <3>3. Measurable(r) /\ loc[w].live = staged[r]
        BY <3>1, <3>2 DEF ExecutionInv, HandoffInv
      <3>4. Measurable(r)'
        BY <3>2, <3>3, StatusWrite DEF Measurable
      <3> QED BY <3>2, <3>3, <3>4
    <2> QED BY <2>1, <2>2
  <1> QED BY <1>3, <1>4 DEF RunData

-----------------------------------------------------------------------------
(* What the next call of a worker relies on *)

(* Off a run there is nothing to rely on. *)
RestCalls == {"idle", "lock", "findActive", "createRun", "initFind", "release"}

LEMMA RestingInv ==
  ASSUME NEW w \in Workers, pc'[w] \in RestCalls
  PROVE  ExecutionInv(pc[w], loc[w])'
  BY DEF RestCalls, ExecutionInv, CallInv, HandoffInv, QueuedCalls, StartedCalls, BatchCalls

RunningCalls == {"resumeList", "readyList", "resumeMetadata", "listBatches", "acceptTx"}

LEMMA RunningTarget ==
  ASSUME NEW w \in Workers, pc'[w] \in RunningCalls \cup RestCalls,
         pc'[w] \in RunningCalls => run'[loc'[w].run].status = "RUNNING"
  PROVE  ExecutionInv(pc[w], loc[w])'
  <1>1. CASE pc'[w] \in RestCalls
    BY <1>1, RestingInv
  <1>2. CASE pc'[w] \in RunningCalls
    BY <1>2 DEF RunningCalls, ExecutionInv, CallInv, HandoffInv, QueuedCalls, BatchCalls
  <1> QED BY <1>1, <1>2

LEMMA QueuedTarget ==
  ASSUME NEW w \in Workers, pc'[w] \in QueuedCalls \cup RestCalls,
         pc'[w] \in QueuedCalls => run'[loc'[w].run].status = "QUEUED"
  PROVE  ExecutionInv(pc[w], loc[w])'
  <1>1. CASE pc'[w] \in RestCalls
    BY <1>1, RestingInv
  <1>2. CASE pc'[w] \in QueuedCalls
    BY <1>2 DEF QueuedCalls, ExecutionInv, CallInv, HandoffInv, StartedCalls, BatchCalls
  <1> QED BY <1>1, <1>2

LEMMA FailTarget ==
  ASSUME NEW w \in Workers, pc'[w] \in {"failTx", "failCommit", "release"},
         loc'[w].decision = "FAILED" =>
           run'[loc'[w].run].status = "QUEUED" \/ HasFailedBatch(loc[w].run)'
  PROVE  ExecutionInv(pc[w], loc[w])'
  <1>1. CASE pc'[w] = "release"
    BY <1>1, RestingInv DEF RestCalls
  <1>2. CASE pc'[w] # "release"
    <2>1. HandoffInv(pc[w], loc[w])'
      BY <1>2 DEF HandoffInv
    <2> QED BY <1>2, <2>1 DEF ExecutionInv, CallInv, QueuedCalls, StartedCalls, BatchCalls
  <1> QED BY <1>1, <1>2

LEMMA BatchTarget ==
  ASSUME NEW w \in Workers, pc'[w] \in BatchCalls \cup {"release"}, UNCHANGED run,
         NEW r \in Runs, loc'[w].run = r, run[r].status = "RUNNING",
         loc'[w].batch \in Incomplete(r)'
  PROVE  ExecutionInv(pc[w], loc[w])'
  <1>1. CASE pc'[w] = "release"
    BY <1>1, RestingInv DEF RestCalls
  <1>2. CASE pc'[w] # "release"
    <2>1. CallInv(pc[w], loc[w])'
      BY <1>2 DEF CallInv, QueuedCalls, BatchCalls, StartedCalls, Incomplete, Batches
    <2>2. HandoffInv(pc[w], loc[w])'
      BY <1>2 DEF HandoffInv, BatchCalls
    <2> QED BY <2>1, <2>2 DEF ExecutionInv
  <1> QED BY <1>1, <1>2

-----------------------------------------------------------------------------
(* A batch attempt *)

LEMMA AttemptExecution ==
  ASSUME TypeOK, ControlInv, WatermarkInv, NEW w \in Workers, AttemptAt(w),
         ExecutionInv(pc[w], loc[w]), pc[w] \in BatchCalls,
         \/ FindBatch(w) \/ BatchWrites(w) \/ FetchPage(w) \/ StageRow(w) \/ UpdateProgress(w)
         \/ HttpFailure(w) \/ DbFailure(w)
  PROVE  ExecutionInv(pc[w], loc[w])'
  <1> PICK r, b : r = loc[w].run /\ b = loc[w].batch
    OBVIOUS
  <1>1. /\ r \in Runs /\ run[r].status = "RUNNING" /\ b \in Incomplete(r) /\ b \in Batches(r)
        /\ b \in BatchIds /\ batch[r][b].status # "COMPLETED"
    BY AttemptFacts DEF ExecutionInv, CallInv, StartedCalls, Incomplete
  <1>2. CASE MarkExhausted(w) \/ MarkPageLimit(w)
    <2>1. PICK c, record : /\ WritesBatch(w, c, record)
                           /\ record = [batch[r][b] EXCEPT !.status = "FAILED"]
      BY <1>2 DEF MarkExhausted, MarkPageLimit, MyBatch
    <2>2. record.status = "FAILED"
      BY <1>1, <2>1, BatchRow
    <2>3. batch'[r][b] = record /\ run' = run
      BY <1>1, <2>1, AttemptWrite
    <2>4. pc'[w] \in {"failTx", "release"} /\ loc'[w].run = r
      BY <1>2, GotoEffect, DecideEffect DEF MarkExhausted, MarkPageLimit
    <2>5. HasFailedBatch(loc[w].run)'
      BY <1>1, <2>2, <2>3, <2>4 DEF HasFailedBatch, Batches
    <2> QED BY <2>4, <2>5, FailTarget
  <1>3. CASE MarkCompleted(w)
    <2>1. UNCHANGED <<run, loc>> /\ pc'[w] \in {"listBatches", "release"}
      BY <1>3, GotoEffect DEF MarkCompleted, WritesBatch
    <2> QED BY <1>1, <2>1, RunningTarget DEF RunningCalls, RestCalls
  <1>4. ASSUME run' = run, batch'[r][b].status # "COMPLETED",
               loc'[w].run = r, loc'[w].batch = b,
               pc'[w] \in BatchCalls \cup {"listBatches", "release", "idle"}
        PROVE  ExecutionInv(pc[w], loc[w])'
    <2>1. b \in Incomplete(r)'
      BY <1>1, <1>4 DEF Incomplete, Batches
    <2>2. CASE pc'[w] \in BatchCalls
      BY <1>1, <1>4, <2>1, <2>2, BatchTarget
    <2>3. CASE pc'[w] \notin BatchCalls
      BY <1>1, <1>4, <2>3, RunningTarget DEF RunningCalls, RestCalls
    <2> QED BY <2>2, <2>3
  <1>5. CASE IncrementAttempt(w) \/ SetRunning(w) \/ MarkFailed(w)
    <2>1. /\ run' = run /\ pc[w] # "markCompleted"
          /\ pc'[w] \in {"setRunning", "fetchPage", "listBatches", "release"}
      BY <1>5, GotoEffect DEF IncrementAttempt, SetRunning, MarkFailed, WritesBatch, Awaits
    <2>2. batch'[r][b].status # "COMPLETED"
      BY <1>1, <1>5, <2>1, BatchWriter DEF BatchWrites
    <2>3. loc'[w].run = r /\ loc'[w].batch = b
      BY <1>5, PagesEffect DEF IncrementAttempt, MarkFailed
    <2> QED BY <1>4, <2>1, <2>2, <2>3 DEF BatchCalls
  <1>6. CASE FetchPage(w) \/ StageRow(w)
    <2>1. UNCHANGED <<run, batch>> /\ pc'[w] \in {"stageRow", "updateProgress", "release"}
      BY <1>6, GotoEffect DEF FetchPage, StageRow, Reads, Awaits
    <2>2. loc'[w].run = r /\ loc'[w].batch = b
      <3>1. CASE FetchPage(w)
        <4>1. PICK pages, next, last, k :
                /\ k = [loc[w] EXCEPT !.pages = pages, !.next = next, !.last = last, !.wm = source]
                /\ loc' = [loc EXCEPT ![w] = k]
          BY <3>1 DEF FetchPage
        <4> QED BY <4>1, PageEffect
      <3>2. CASE StageRow(w)
        BY <3>2, NextEffect DEF StageRow
      <3> QED BY <1>6, <3>1, <3>2
    <2> QED BY <1>1, <1>4, <2>1, <2>2 DEF BatchCalls
  <1>7. CASE FindBatch(w) \/ UpdateProgress(w) \/ HttpFailure(w) \/ DbFailure(w)
    <2>1. UNCHANGED <<run, batch, loc>>
      BY <1>7 DEF FindBatch, UpdateProgress, HttpFailure, DbFailure, Reads, dbVars
    <2>2. pc'[w] \in {"listBatches", "markExhausted", "incrementAttempt", "markCompleted",
                      "markPageLimit", "fetchPage", "markFailed", "release", "idle"}
      BY <1>7, GotoEffect DEF FindBatch, UpdateProgress, HttpFailure, DbFailure
    <2> QED BY <1>1, <1>4, <2>1, <2>2 DEF BatchCalls
  <1> QED BY <1>2, <1>3, <1>5, <1>6, <1>7 DEF BatchWrites

-----------------------------------------------------------------------------
(* Before and after the batches *)

LEMMA SetupExecution ==
  ASSUME TypeOK, ControlInv, NEW w \in Workers, ExecutionInv(pc[w], loc[w]),
         \/ StartExecution(w) \/ Acquire(w) \/ Release(w) \/ Crash(w)
         \/ FindActive(w) \/ CreateQueuedRun(w) \/ InitFind(w) \/ LoadBins(w)
         \/ InitTx(w) \/ StartMetadata(w) \/ StartTx(w)
  PROVE  ExecutionInv(pc[w], loc[w])'
  <1> PICK l, r : l \in Locals /\ l = loc[w] /\ r = l.run
    BY LocalsTyped
  <1>a. pc[w] \in QueuedCalls => r \in Runs /\ run[r].status = "QUEUED"
    BY RunOf DEF ExecutionInv, CallInv
  <1>1. CASE StartExecution(w) \/ Acquire(w) \/ Release(w) \/ Crash(w)
    BY <1>1, RestingInv DEF StartExecution, Acquire, Release, Crash, Goto, TypeOK, RestCalls
  <1>2. CASE FindActive(w)
    <2>1. CASE ActiveRuns = {}
      BY <1>2, <2>1, GotoEffect, RestingInv DEF FindActive, RestCalls
    <2>2. CASE ActiveRuns # {}
      <3>1. PICK s \in ActiveRuns :
              /\ loc' = [loc EXCEPT ![w].run = s,
                                    ![w].ready = run[s].endWm = run[s].startWm]
              /\ GotoIfAuthorized(w, IF run[s].status = "QUEUED" THEN "initFind"
                                                                  ELSE "resumeList")
        BY <1>2, <2>2 DEF FindActive
      <3> DEFINE k == [l EXCEPT !.run = s, !.ready = run[s].endWm = run[s].startWm]
      <3>2. k.run = s
        BY DEF Locals
      <3>3. loc'[w] = k
        BY <3>1 DEF TypeOK
      <3> HIDE DEF k
      <3>4. loc'[w].run = s /\ run' = run /\ run[s].status \in Active
        BY <1>2, <3>2, <3>3 DEF FindActive, Reads, ActiveRuns
      <3>5. pc'[w] \in {"initFind", "release"}
              \/ (pc'[w] = "resumeList" /\ run[s].status = "RUNNING")
        BY <3>1, <3>4, GotoEffect DEF Active
      <3> QED BY <3>4, <3>5, RunningTarget DEF RunningCalls, RestCalls
    <2> QED BY <2>1, <2>2
  <1>3. CASE CreateQueuedRun(w)
    BY <1>3, GotoEffect, RestingInv DEF CreateQueuedRun, RestCalls
  <1>4. CASE InitFind(w)
    <2>1. UNCHANGED <<run, loc>>
      BY <1>4 DEF InitFind, Reads
    <2>2. CASE run[r].status = "RUNNING"
      <3>1. pc'[w] \in {"listBatches", "release"}
        BY <1>4, <2>2, GotoEffect DEF InitFind, MyRun
      <3> QED BY <2>1, <2>2, <3>1, RunningTarget DEF RunningCalls, RestCalls
    <2>3. CASE run[r].status # "RUNNING"
      <3>1. \/ pc'[w] = "release"
            \/ pc'[w] \in {"loadBins", "startMetadata"} /\ run[r].status = "QUEUED"
        BY <1>4, <2>3, GotoEffect DEF InitFind, MyRun
      <3> QED BY <2>1, <3>1, QueuedTarget DEF QueuedCalls, RestCalls
    <2> QED BY <2>2, <2>3
  <1>5. CASE LoadBins(w)
    <2>1. PICK n \in 0..MaxBatches : loc' = [loc EXCEPT ![w] = [l EXCEPT !.batches = n]]
      BY <1>5 DEF LoadBins
    <2>2. loc'[w].run = r
      BY <2>1, LocUpdate DEF Locals
    <2>3. pc'[w] \in {"initTx", "release"} /\ run' = run /\ pc[w] = "loadBins"
      BY <1>5, GotoEffect DEF LoadBins, Reads
    <2> QED BY <1>a, <2>2, <2>3, QueuedTarget DEF QueuedCalls, RestCalls
  <1>6. CASE InitTx(w)
    <2>1. loc' = loc /\ pc[w] = "initTx" /\ pc'[w] \in {"startMetadata", "release"}
      BY <1>6, GotoEffect DEF InitTx, Awaits
    <2>2. r \in Runs /\ run[r].status = "QUEUED"
      BY <1>a, <2>1 DEF QueuedCalls
    <2>3. run'[r].status = "QUEUED"
      BY <1>6, <2>2, InitWrite DEF InitTx
    <2> QED BY <2>1, <2>3, QueuedTarget DEF QueuedCalls, RestCalls
  <1>7. CASE StartMetadata(w)
    <2>1. loc'[w].run = r /\ run' = run /\ pc[w] = "startMetadata"
          /\ pc'[w] \in {"startTx", "release"}
      BY <1>7, WmEffect, GotoEffect DEF StartMetadata, Reads
    <2> QED BY <1>a, <2>1, QueuedTarget DEF QueuedCalls, RestCalls
  <1>8. CASE StartTx(w)
    <2>1. loc' = loc /\ pc[w] = "startTx" /\ pc'[w] \in {"listBatches", "release"}
      BY <1>8, GotoEffect DEF StartTx, Awaits
    <2>2. r \in Runs
      BY <1>a, <2>1 DEF QueuedCalls
    <2>3. pc'[w] = "listBatches" => run'[r].status = "RUNNING"
      BY <1>8, <2>2, StartWrite DEF StartTx, Goto, TypeOK
    <2> QED BY <2>1, <2>3, RunningTarget DEF RunningCalls, RestCalls
  <1> QED BY <1>1, <1>2, <1>3, <1>4, <1>5, <1>6, <1>7, <1>8

LEMMA HandoffExecution ==
  ASSUME TypeOK, ControlInv, NEW w \in Workers, ExecutionInv(pc[w], loc[w]),
         CoverInv,
         \/ ResumeList(w) \/ ReadyList(w) \/ ResumeMetadata(w) \/ ListBatches(w)
         \/ EndMetadata(w) \/ PersistEnd(w)
         \/ FailTx(w) \/ FailCommit(w) \/ AcceptTx(w) \/ AcceptCommit(w)
  PROVE  ExecutionInv(pc[w], loc[w])'
  <1> PICK l, r : l \in Locals /\ l = loc[w] /\ r = l.run
    BY LocalsTyped
  <1>a. pc[w] \in StartedCalls => r \in Runs /\ run[r].status = "RUNNING"
    BY RunOf DEF ExecutionInv, CallInv
  <1>b. ASSUME pc[w] \in StartedCalls, UNCHANGED <<run, loc>>,
               NEW c \in RunningCalls, Goto(w, c) \/ GotoIfAuthorized(w, c)
        PROVE  ExecutionInv(pc[w], loc[w])'
    BY <1>a, <1>b, GotoEffect, RunningTarget DEF RestCalls
  <1>c. ASSUME UNCHANGED <<run, batch>>, HasFailedBatch(r), Decide(w, "FAILED"),
               GotoIfAuthorized(w, "failTx")
        PROVE  ExecutionInv(pc[w], loc[w])'
    <2>1. pc'[w] \in {"failTx", "release"} /\ loc'[w].run = r
      BY <1>c, GotoEffect, DecideEffect
    <2>2. HasFailedBatch(loc[w].run)'
      BY <1>c, <2>1 DEF HasFailedBatch, Batches
    <2> QED BY <2>1, <2>2, FailTarget
  <1>d. ASSUME Decide(w, "SOURCE_CHANGED"), GotoIfAuthorized(w, "failTx")
        PROVE  ExecutionInv(pc[w], loc[w])'
    BY <1>d, GotoEffect, DecideEffect, FailTarget
  <1>1. CASE ResumeList(w)
    BY <1>1, <1>b, <1>c DEF ResumeList, Reads, Exhausted, HasFailedBatch, StartedCalls, RunningCalls
  <1>2. CASE ReadyList(w)
    BY <1>2, <1>b DEF ReadyList, Reads, StartedCalls, RunningCalls
  <1>3. CASE ResumeMetadata(w)
    BY <1>3, <1>b, <1>d DEF ResumeMetadata, Reads, StartedCalls, RunningCalls
  <1>4. CASE ListBatches(w)
    <2>1. UNCHANGED <<run, batch, source>> /\ r \in Runs /\ run[r].status = "RUNNING"
      BY <1>4, <1>a DEF ListBatches, Reads, StartedCalls
    <2>2. CASE Incomplete(r) = {}
      <3>1. loc' = loc /\ pc'[w] \in {"endMetadata", "release"}
        BY <1>4, <2>2, GotoEffect DEF ListBatches
      <3>2. AllCompleted(loc[w].run)'
        BY <2>1, <2>2, <3>1 DEF AllCompleted, Incomplete, Batches
      <3>3. CASE pc'[w] = "release"
        BY <3>3, RestingInv DEF RestCalls
      <3>4. CASE pc'[w] = "endMetadata"
        BY <2>1, <3>1, <3>2, <3>4
           DEF ExecutionInv, CallInv, HandoffInv, QueuedCalls, BatchCalls
      <3> QED BY <3>1, <3>3, <3>4
    <2>3. CASE Incomplete(r) # {}
      <3>1. PICK b \in Incomplete(r) :
              IF Exhausted(batch[r][b])
                THEN Decide(w, "FAILED") /\ GotoIfAuthorized(w, "failTx")
                ELSE loc' = [loc EXCEPT ![w].batch = b] /\ GotoIfAuthorized(w, "findBatch")
        BY <1>4, <2>3 DEF ListBatches
      <3>2. CASE Exhausted(batch[r][b])
        <4>1. HasFailedBatch(r)
          BY <3>2 DEF Exhausted, HasFailedBatch, Incomplete
        <4> QED BY <1>c, <2>1, <3>1, <3>2, <4>1
      <3>3. CASE ~Exhausted(batch[r][b])
        <4>1. pc'[w] \in {"findBatch", "release"} /\ loc'[w].run = r /\ loc'[w].batch = b
          BY <3>1, <3>3, GotoEffect, BatchEffect
        <4>2. loc'[w].batch \in Incomplete(r)'
          BY <2>1, <4>1 DEF Incomplete, Batches
        <4> QED BY <2>1, <4>1, <4>2, BatchTarget DEF BatchCalls
      <3> QED BY <3>2, <3>3
    <2> QED BY <2>2, <2>3
  <1>5. CASE EndMetadata(w)
    <2>1. /\ UNCHANGED <<run, batch, staged, source>> /\ r \in Runs /\ run[r].status = "RUNNING"
          /\ AllCompleted(r)
      BY <1>5, <1>a DEF EndMetadata, Reads, StartedCalls, ExecutionInv, HandoffInv
    <2>2. loc'[w].run = r /\ loc'[w].wm = source /\ pc'[w] \in {"persistEnd", "release"}
      BY <1>5, GotoEffect, WmEffect DEF EndMetadata
    <2>3. ASSUME Still(r) PROVE Exact(r)
      BY <2>1, <2>3 DEF CoverInv, RunCover, StagedRows, AllCompleted, Exact, Still
    <2>4. AllCompleted(loc[w].run)' /\ (loc'[w].wm = run'[loc'[w].run].startWm => Exact(loc[w].run)')
      BY <2>1, <2>2, <2>3 DEF AllCompleted, Exact, Batches, Still
    <2>5. CASE pc'[w] = "release"
      BY <2>5, RestingInv DEF RestCalls
    <2>6. CASE pc'[w] = "persistEnd"
      BY <2>1, <2>2, <2>4, <2>6 DEF ExecutionInv, CallInv, HandoffInv, QueuedCalls, BatchCalls
    <2> QED BY <2>2, <2>5, <2>6
  <1>6. CASE PersistEnd(w)
    <2>1. CASE l.wm = run[r].startWm
      <3>1. /\ r \in Runs /\ run[r].status = "RUNNING" /\ loc' = loc
            /\ pc'[w] \in {"acceptTx", "release"} /\ run' = [run EXCEPT ![r].endWm = l.wm]
        BY <1>6, <1>a, <2>1, GotoEffect DEF PersistEnd, Awaits, MyRun, StartedCalls
      <3>2. run'[r].status = "RUNNING"
        BY <3>1, EndWrite
      <3> QED BY <3>1, <3>2, RunningTarget DEF RunningCalls, RestCalls
    <2>2. CASE l.wm # run[r].startWm
      BY <1>6, <1>d, <2>2 DEF PersistEnd, MyRun
    <2> QED BY <2>1, <2>2
  <1>7. CASE FailTx(w)
    <2>1. UNCHANGED <<run, batch, loc>> /\ pc[w] = "failTx" /\ pc'[w] \in {"failCommit", "release"}
      BY <1>7, GotoEffect DEF FailTx, Reads
    <2>2. l.decision = "FAILED" => run[r].status = "QUEUED" \/ HasFailedBatch(r)
      BY <2>1 DEF ExecutionInv, HandoffInv
    <2>3. HasFailedBatch(loc[w].run)' <=> HasFailedBatch(r)
      BY <2>1 DEF HasFailedBatch, Batches
    <2> QED BY <2>1, <2>2, <2>3, FailTarget
  <1>8. CASE FailCommit(w) \/ AcceptCommit(w)
    BY <1>8, GotoEffect, RestingInv DEF FailCommit, AcceptCommit, RestCalls
  <1>9. CASE AcceptTx(w)
    <2>1. CASE ~(mayAccept(r) /\ checkAuthorized(w))
      BY <1>9, <2>1, GotoEffect, RestingInv DEF AcceptTx, RestCalls
    <2>2. CASE mayAccept(r) /\ checkAuthorized(w)
      <3> PICK k : k = [l EXCEPT !.live = staged[r]]
        OBVIOUS
      <3>1. loc' = [loc EXCEPT ![w] = k] /\ Goto(w, "acceptCommit") /\ UNCHANGED <<run, batch, staged>>
        BY <1>9, <2>2 DEF AcceptTx, Reads
      <3>2. loc'[w] = k
        BY <3>1, LocUpdate
      <3>3. k.run = r /\ k.live = staged[r]
        BY DEF Locals
      <3>4. pc'[w] = "acceptCommit" /\ run[r].status = "RUNNING" /\ Measurable(r)
        BY <2>2, <3>1 DEF Goto, TypeOK, mayAccept, Measurable
      <3>5. loc'[w].run = r /\ loc'[w].live = staged'[r]
        BY <3>1, <3>2, <3>3
      <3>6. HandoffInv(pc[w], loc[w])'
        BY <3>1, <3>4, <3>5 DEF HandoffInv, Measurable
      <3>7. CallInv(pc[w], loc[w])'
        BY <3>1, <3>4, <3>5 DEF CallInv, QueuedCalls, BatchCalls
      <3> QED BY <3>4, <3>6, <3>7 DEF ExecutionInv, BatchCalls
    <2> QED BY <2>1, <2>2
  <1> QED BY <1>1, <1>2, <1>3, <1>4, <1>5, <1>6, <1>7, <1>8, <1>9

(* A failed call outside an attempt ends the execution. *)
LEMMA FailureExecution ==
  ASSUME TypeOK, ControlInv, NEW w \in Workers, ExecutionInv(pc[w], loc[w]),
         HttpFailure(w) \/ HttpTerminalFailure(w) \/ DbFailure(w), pc[w] \notin BatchCalls
  PROVE  ExecutionInv(pc[w], loc[w])'
  <1>1. CASE HttpFailure(w) \/ DbFailure(w)
    <2>1. pc'[w] \in {"release", "idle"}
      BY <1>1, GotoEffect DEF HttpFailure, DbFailure, AttemptCalls, BatchCalls
    <2> QED BY <2>1, RestingInv DEF RestCalls
  <1>2. CASE HttpTerminalFailure(w)
    <2>1. /\ pc'[w] \in {"failTx", "release"} /\ loc'[w].run = loc[w].run
          /\ pc[w] = "startMetadata" /\ run' = run
      BY <1>2, GotoEffect, DecideEffect DEF HttpTerminalFailure, dbVars
    <2>2. run'[loc'[w].run].status = "QUEUED"
      BY <2>1 DEF ExecutionInv, CallInv, QueuedCalls
    <2> QED BY <2>1, <2>2, FailTarget
  <1> QED BY <1>1, <1>2

-----------------------------------------------------------------------------
(* The invariant of the one executor *)

LEMMA StepExecution ==
  ASSUME TypeOK, ControlInv, WatermarkInv, CoverInv, NEW w \in Workers,
         ExecutionInv(pc[w], loc[w]), Step(w) \/ Environment(w)
  PROVE  ExecutionInv(pc[w], loc[w])'
  <1>0. AttemptAt(w)
    BY DEF CoverInv
  <1>1. ASSUME UNCHANGED <<run, batch, staged, pc, loc>> PROVE ExecutionInv(pc[w], loc[w])'
    BY <1>1 DEF ExecutionInv, CallInv, HandoffInv, Exact, AllCompleted, HasFailedBatch,
       Incomplete, Measurable, Batches
  <1>2. CASE SessionLoss(w) \/ SilentSessionLoss(w) \/ NoticeLoss(w)
    BY <1>1, <1>2 DEF SessionLoss, SilentSessionLoss, NoticeLoss, dbVars
  <1>3. CASE \/ FindBatch(w) \/ BatchWrites(w) \/ FetchPage(w) \/ StageRow(w) \/ UpdateProgress(w)
             \/ HttpFailure(w) \/ HttpTerminalFailure(w) \/ DbFailure(w)
    <2>1. CASE pc[w] \in BatchCalls
      BY <1>0, <1>3, <2>1, AttemptExecution DEF HttpTerminalFailure, BatchCalls
    <2>2. CASE pc[w] \notin BatchCalls
      BY <1>3, <2>2, FailureExecution DEF FindBatch, BatchWrites, MarkExhausted, IncrementAttempt,
         SetRunning, MarkCompleted, MarkFailed, MarkPageLimit, WritesBatch, FetchPage, StageRow,
         UpdateProgress, Reads, Awaits, BatchCalls
    <2> QED BY <2>1, <2>2
  <1> QED BY <1>2, <1>3, SetupExecution, HandoffExecution DEF Step, Environment, BatchWrites

LEMMA NextSnapshot ==
  ASSUME IInv, WatermarkInv, CoverInv, SnapshotInv, [Next]_vars, faults'.losses = 0
  PROVE  SnapshotInv'
  <1>0. TypeOK /\ ControlInv /\ Exclusion /\ Exclusion'
    BY NextExclusion DEF IInv, SnapshotInv
  <1>1. \A r \in Runs : RunData(r)'
    BY <1>0, RunDataStep DEF SnapshotInv
  <1>2. ASSUME NEW v \in Workers, UNCHANGED <<run, batch, staged>>, pc'[v] = pc[v], loc'[v] = loc[v]
        PROVE  ExecutionInv(pc[v], loc[v])'
    BY <1>2 DEF SnapshotInv, ExecutionInv, CallInv, HandoffInv, Exact, AllCompleted,
       HasFailedBatch, Incomplete, Measurable, Batches
  <1>3. CASE SourceChange \/ UNCHANGED vars
    <2>1. UNCHANGED <<run, batch, staged, pc, loc>>
      BY <1>3 DEF SourceChange, vars, dbVars
    <2> QED BY <1>0, <1>1, <1>2, <2>1 DEF SnapshotInv
  <1>4. ASSUME NEW w \in Workers, Step(w) \/ Environment(w) PROVE SnapshotInv'
    <2>1. WorkerOnly(w) /\ ExecutionInv(pc[w], loc[w])'
      BY <1>0, <1>4, StepFrame, StepExecution DEF SnapshotInv
    <2>2. ASSUME NEW v \in Workers \ {w} PROVE ExecutionInv(pc[v], loc[v])'
      <3>1. pc'[v] = pc[v] /\ loc'[v] = loc[v]
        BY <2>1 DEF WorkerOnly
      <3>2. CASE pc[v] \in {"idle", "lock"}
        BY <3>1, <3>2, RestingInv DEF RestCalls
      <3>3. CASE pc[v] \notin {"idle", "lock"}
        <4>1. pc[w] \in {"idle", "lock"}
          BY <1>0, <3>3 DEF Exclusion
        <4>2. UNCHANGED dbVars
          BY <1>4, <4>1
             DEF Step, Environment, StartExecution, Acquire, Release, FindActive,
             CreateQueuedRun, InitFind, LoadBins, InitTx, StartMetadata, StartTx, ResumeList, ReadyList,
             ResumeMetadata, ListBatches, FindBatch, MarkExhausted, IncrementAttempt, SetRunning,
             FetchPage, StageRow, UpdateProgress, MarkCompleted, MarkFailed, MarkPageLimit,
             EndMetadata, PersistEnd, FailTx, FailCommit, AcceptTx, AcceptCommit, Crash,
             SessionLoss, SilentSessionLoss, NoticeLoss, HttpFailure, HttpTerminalFailure,
             DbFailure, Reads, Awaits, WritesBatch
        <4> QED BY <1>2, <3>1, <4>2 DEF dbVars
      <3> QED BY <3>2, <3>3
    <2> QED BY <1>0, <1>1, <2>1, <2>2 DEF SnapshotInv
  <1> QED BY <1>3, <1>4 DEF Next

LEMMA InitSnapshot == Init => SnapshotInv
  <1> SUFFICES ASSUME Init PROVE SnapshotInv
    OBVIOUS
  <1>1. Exclusion
    BY WorkersAssumption DEF Init, Exclusion
  <1>2. ASSUME NEW w \in Workers PROVE ExecutionInv(pc[w], loc[w])
    BY DEF Init, ExecutionInv, CallInv, HandoffInv, QueuedCalls, StartedCalls, BatchCalls
  <1>3. ASSUME NEW r \in Runs PROVE RunData(r)
    BY DEF Init, RunData, Measurable
  <1> QED BY <1>1, <1>2, <1>3 DEF SnapshotInv

LEMMA SnapshotInvariant ==
  Spec => [](IInv /\ WatermarkInv /\ CoverInv /\ (faults.losses = 0 => SnapshotInv))
  <1>1. IInv /\ WatermarkInv /\ CoverInv /\ (faults.losses = 0 => SnapshotInv) /\ [Next]_vars =>
          (faults.losses = 0 => SnapshotInv)'
    <2>1. ASSUME IInv, [Next]_vars, faults'.losses = 0 PROVE faults.losses = 0
      BY <2>1, LossesCounted DEF IInv
    <2> QED BY <2>1, NextSnapshot
  <1>2. Init => (faults.losses = 0 => SnapshotInv)
    BY InitSnapshot
  <1> QED BY <1>1, <1>2, CoverInvariant, PTL DEF Spec

(* Until a lock session is lost, an accepted run has published exactly the *)
(* source of its watermark, over any number of pages, attempts, crashes    *)
(* and changes of the source.                                              *)
THEOREM AcceptedRunsAreSnapshots == Spec => [](faults.losses = 0 => AcceptedIsSourceSnapshot)
  <1>1. SnapshotInv => AcceptedIsSourceSnapshot
    <2> SUFFICES ASSUME SnapshotInv, NEW r \in Runs, run[r].status = "COMPLETED",
                        NEW b \in BatchIds
                 PROVE  published[r][b] = IF b \in Batches(r) THEN RowsAt(b, run[r].startWm)
                                                              ELSE [i \in 1..MaxRows |-> 0]
      BY DEF AcceptedIsSourceSnapshot
    <2>1. published[r] = staged[r] /\ Exact(r)
      BY DEF SnapshotInv, RunData
    <2> QED BY <2>1 DEF Exact, NoRows
  <1> QED BY <1>1, SnapshotInvariant, PTL

(* A RUNNING run is decided FAILED only while one of its batches is.       *)
LEMMA FailureStep ==
  ASSUME TypeOK, ControlInv, SnapshotInv, [Next]_vars, NEW r \in Runs,
         run[r].status = "RUNNING", run'[r].status = "FAILED"
  PROVE  HasFailedBatch(r)
  <1>0. \A w \in Workers : ExecutionInv(pc[w], loc[w])
    BY DEF SnapshotInv
  <1>1. PICK w \in Workers : RunWrites(w)
    BY RunWriters
  <1>2. FailCommit(w)
    <2>1. CASE CreateQueuedRun(w)
      BY <2>1, StatusWrite DEF CreateQueuedRun, OtherRowsKept
    <2>2. CASE InitTx(w) \/ StartTx(w)
      <3>1. loc[w].run \in Runs
        BY <2>2, RunOf DEF InitTx, StartTx, Awaits, QueuedCalls
      <3> QED BY <2>2, <3>1, InitWrite, StartWrite DEF InitTx, StartTx, OtherRowsKept
    <2>3. CASE PersistEnd(w) \/ AcceptCommit(w)
      <3>1. loc[w].run \in Runs
        BY <2>3, RunOf DEF PersistEnd, AcceptCommit, Awaits, StartedCalls
      <3> QED BY <2>3, <3>1, EndWrite, StatusWrite DEF PersistEnd, AcceptCommit, OtherRowsKept
    <2> QED BY <1>1, <2>1, <2>2, <2>3 DEF RunWrites
  <1>3. pc[w] = "failCommit" /\ loc[w].run \in Runs
        /\ run' = [run EXCEPT ![loc[w].run].status = loc[w].decision]
    BY <1>2, RunOf DEF FailCommit, Awaits
  <1>4. loc[w].run = r /\ loc[w].decision = "FAILED"
    BY <1>3, StatusWrite DEF OtherRowsKept
  <1> QED BY <1>0, <1>3, <1>4 DEF ExecutionInv, HandoffInv

(* Without lost sessions a RUNNING run is decided FAILED only while one of *)
(* its batches is.                                                         *)
THEOREM FailuresAreBatchFailures == ASSUME MaxLosses = 0 PROVE Spec => FailureHasFailedBatch
  <1>1. TypeOK => faults.losses = 0
    BY DEF TypeOK
  <1>2. IInv /\ SnapshotInv /\ [Next]_vars =>
          [\A r \in Runs :
             run[r].status = "RUNNING" /\ run'[r].status = "FAILED" =>
               \E b \in Batches(r) : batch[r][b].status = "FAILED"]_vars
    BY FailureStep DEF IInv, HasFailedBatch
  <1> QED BY <1>1, <1>2, SnapshotInvariant, PTL DEF Spec, FailureHasFailedBatch, IInv

-----------------------------------------------------------------------------
(* An accepted run, after one lost session that was noticed *)

(* Only the holder of the lock has authority. *)
NoticedOnly == \A w \in Workers : auth[w] = "held" <=> lock = w

(* The run is accepted, or the transaction that accepts it is open. *)
Closing(r) ==
  \/ run[r].status = "COMPLETED"
  \/ \E v \in Workers : pc[v] = "acceptCommit" /\ loc[v].run = r

(* Calls of an attempt to complete the run, and those from which its end   *)
(* watermark is still to be measured.                                      *)
UnmeasuredCalls ==
  BatchCalls \cup {"resumeMetadata", "listBatches", "endMetadata", "persistEnd"}

WorkCalls == UnmeasuredCalls \cup QueuedCalls \cup {"initFind"}

(* The source has moved, and nobody has measured that it had not: the run  *)
(* is never going to be accepted.                                          *)
Doomed(r) ==
  /\ Begun(r) /\ run[r].startWm < source
  /\ run[r].endWm # run[r].startWm
  /\ ~Closing(r)
  /\ \A v \in Workers :
       pc[v] = "persistEnd" /\ loc[v].run = r => loc[v].wm # run[r].startWm

(* No executor that lost its session is in an attempt of the run. *)
NoLateAttempt(r) ==
  \A u \in Stale : pc[u] \in BatchCalls => loc[u].run # r

(* The executor does not work on a run that is being accepted, and finds   *)
(* it ready for publication when it resumes it.                            *)
HeldInv(c, l) ==
  /\ c \in WorkCalls => ~Closing(l.run)
  /\ c \in {"resumeList", "readyList"} /\ Closing(l.run) =>
       Begun(l.run) /\ AllCompleted(l.run) /\ NoLateAttempt(l.run)
  /\ c = "resumeList" /\ Closing(l.run) => l.ready

(* What an executor that lost its session may still write. *)
LateInv(c, l) ==
  /\ c = "persistEnd" => l.wm = run[l.run].startWm \/ Doomed(l.run)
  /\ c = "acceptCommit" => AllCompleted(l.run)

(* What the one executor knows of the end watermark before it measures it. *)
ResumeInv(c, l) ==
  /\ c = "initFind" => run[l.run].status = "QUEUED"
  /\ c = "resumeList" => l.ready = (run[l.run].endWm = run[l.run].startWm)
  /\ c = "readyList" => Measurable(l.run)
  /\ c \in UnmeasuredCalls => ~Measurable(l.run)

FrozenInv ==
  /\ NoticedOnly
  /\ \A r \in Runs : run[r].status = "COMPLETED" => run[r].endWm = run[r].startWm
  /\ \A w \in Workers :
       /\ auth[w] = "held" => HeldInv(pc[w], loc[w])
       /\ auth[w] # "held" => LateInv(pc[w], loc[w])
       /\ pc[w] = "acceptCommit" => Measurable(loc[w].run)
  /\ faults.losses = 0 => \A w \in Workers : ResumeInv(pc[w], loc[w])


LEMMA AuthorityMoves ==
  ASSUME TypeOK, NoticedOnly, "silentLoss" \notin FaultKinds,
         NEW w \in Workers, Step(w) \/ Environment(w)
  PROVE  /\ NoticedOnly'
         /\ \A v \in Workers \ {w} : auth'[v] = auth[v]
         /\ \/ auth'[w] = auth[w]
            \/ auth'[w] = "held" /\ pc'[w] = "findActive"
            \/ auth'[w] # "held" /\ pc'[w] = "idle"
            \/ auth'[w] # "held" /\ SessionLoss(w)
  <1>1. CASE /\ lock = NoWorker /\ lock' = w
             /\ auth' = [auth EXCEPT ![w] = "held"] /\ pc'[w] = "findActive"
    BY <1>1, WorkersAssumption DEF NoticedOnly, TypeOK
  <1>2. CASE /\ pc'[w] = "idle" /\ auth' = [auth EXCEPT ![w] = "none"]
             /\ lock' = IF lock = w THEN NoWorker ELSE lock
    BY <1>2, WorkersAssumption DEF NoticedOnly, TypeOK
  <1>3. CASE SessionLoss(w)
    BY <1>3, WorkersAssumption DEF NoticedOnly, TypeOK, SessionLoss, LosesSession
  <1>4. CASE UNCHANGED <<lock, auth>>
    BY <1>4 DEF NoticedOnly
  <1>5. ~SilentSessionLoss(w)
    BY DEF SilentSessionLoss, LosesSession, MayFault
  <1>6. ~NoticeLoss(w)
    BY DEF NoticeLoss, NoticedOnly
  <1> QED BY <1>1, <1>2, <1>3, <1>4, <1>5, <1>6, SessionMoves

(* A worker stays with its run until it is idle. *)
LEMMA RunKept ==
  ASSUME TypeOK, NEW w \in Workers, Step(w) \/ Environment(w)
  PROVE  loc'[w].run = loc[w].run \/ FindActive(w) \/ CreateQueuedRun(w) \/ pc'[w] = "idle"
  <1>1. CASE Release(w) \/ Crash(w)
    BY <1>1 DEF Release, Crash, Goto, TypeOK
  <1>2. ASSUME loc' = loc \/ Decide(w, "FAILED") \/ Decide(w, "SOURCE_CHANGED")
        PROVE  loc'[w].run = loc[w].run
    BY <1>2, DecideEffect
  <1>3. CASE StartExecution(w) \/ Acquire(w) \/ InitFind(w) \/ InitTx(w) \/ StartTx(w)
             \/ ReadyList(w) \/ FindBatch(w) \/ IncrementAttempt(w) \/ UpdateProgress(w)
             \/ MarkCompleted(w) \/ MarkFailed(w) \/ FailTx(w) \/ FailCommit(w) \/ AcceptCommit(w)
    BY <1>2, <1>3 DEF StartExecution, Acquire, InitFind, InitTx, StartTx, ReadyList, FindBatch,
       IncrementAttempt, UpdateProgress, MarkCompleted, MarkFailed, FailTx, FailCommit, AcceptCommit
  <1>4. CASE ResumeList(w) \/ ResumeMetadata(w) \/ MarkExhausted(w) \/ MarkPageLimit(w)
             \/ PersistEnd(w) \/ HttpTerminalFailure(w)
    BY <1>2, <1>4 DEF ResumeList, ResumeMetadata, MarkExhausted, MarkPageLimit, PersistEnd,
       HttpTerminalFailure
  <1>5. CASE SessionLoss(w) \/ SilentSessionLoss(w) \/ NoticeLoss(w) \/ HttpFailure(w)
             \/ DbFailure(w)
    BY <1>2, <1>5 DEF SessionLoss, SilentSessionLoss, NoticeLoss, HttpFailure, DbFailure
  <1>6. CASE LoadBins(w)
    <2>1. PICK n, k : k = [loc[w] EXCEPT !.batches = n] /\ loc' = [loc EXCEPT ![w] = k]
      BY <1>6 DEF LoadBins
    <2>2. k.run = loc[w].run
      BY <2>1, LocalsTyped DEF Locals
    <2> QED BY <2>1, <2>2, LocUpdate
  <1>7. CASE StartMetadata(w) \/ EndMetadata(w)
    BY <1>7, WmEffect DEF StartMetadata, EndMetadata
  <1>8. CASE ListBatches(w)
    <2>1. CASE \E b : loc' = [loc EXCEPT ![w].batch = b]
      BY <2>1, BatchEffect
    <2> QED BY <1>2, <1>8, <2>1 DEF ListBatches
  <1>9. CASE SetRunning(w) \/ StageRow(w)
    BY <1>9, PagesEffect, NextEffect DEF StageRow
  <1>10. CASE FetchPage(w)
    <2>1. PICK pages, next, last, k :
            /\ k = [loc[w] EXCEPT !.pages = pages, !.next = next, !.last = last, !.wm = source]
            /\ loc' = [loc EXCEPT ![w] = k]
      BY <1>10 DEF FetchPage
    <2> QED BY <2>1, PageEffect
  <1>11. CASE AcceptTx(w)
    <2>1. CASE loc' = loc
      BY <2>1
    <2>2. CASE \E k : k = [loc[w] EXCEPT !.live = staged[loc[w].run]] /\ loc' = [loc EXCEPT ![w] = k]
      <3>1. PICK k : k = [loc[w] EXCEPT !.live = staged[loc[w].run]] /\ loc' = [loc EXCEPT ![w] = k]
        BY <2>2
      <3>2. k.run = loc[w].run
        BY <3>1, LocalsTyped DEF Locals
      <3> QED BY <3>1, <3>2, LocUpdate
    <2> QED BY <1>11, <2>1, <2>2 DEF AcceptTx
  <1> QED BY <1>1, <1>3, <1>4, <1>5, <1>6, <1>7, <1>8, <1>9, <1>10, <1>11
          DEF Step, Environment

(* Where a worker that makes a new call came from. *)
Arrival(w) ==
  /\ pc'[w] = "persistEnd" => EndMetadata(w)
  /\ pc'[w] = "acceptCommit" => AcceptTx(w)
  /\ pc'[w] = "resumeList" => FindActive(w)
  /\ pc'[w] = "readyList" => ResumeList(w)
  /\ pc'[w] = "resumeMetadata" => ResumeList(w) \/ ReadyList(w)
  /\ pc'[w] = "initFind" => FindActive(w) \/ CreateQueuedRun(w)
  /\ pc'[w] \in WorkCalls \ {"resumeMetadata", "initFind"} => pc[w] \in WorkCalls
  /\ pc'[w] \in UnmeasuredCalls \ {"resumeMetadata"} =>
       pc[w] \in UnmeasuredCalls \/ InitFind(w) \/ StartTx(w)
  /\ pc'[w] \in BatchCalls => pc[w] \in BatchCalls \/ auth[w] = "held"

LEMMA Arrivals ==
  ASSUME TypeOK, NEW w \in Workers, Step(w) \/ Environment(w),
         pc'[w] # pc[w] \/ loc'[w] # loc[w]
  PROVE  Arrival(w)
  <1> USE DEF WorkCalls, UnmeasuredCalls, QueuedCalls, BatchCalls
  <1>1. CASE StartExecution(w) \/ Acquire(w) \/ Release(w) \/ Crash(w)
    <2>1. pc'[w] \in {"lock", "findActive", "idle"}
      BY <1>1 DEF StartExecution, Acquire, Release, Crash, Goto, TypeOK
    <2> QED BY <2>1 DEF Arrival
  <1>2. CASE FindActive(w)
    <2>1. pc'[w] \in {"createRun", "initFind", "resumeList", "release"}
      BY <1>2, GotoEffect DEF FindActive
    <2> QED BY <1>2, <2>1 DEF Arrival
  <1>3. CASE CreateQueuedRun(w)
    <2>1. pc'[w] \in {"initFind", "release"}
      BY <1>3, GotoEffect DEF CreateQueuedRun
    <2> QED BY <1>3, <2>1 DEF Arrival
  <1>4. CASE InitFind(w) \/ LoadBins(w) \/ InitTx(w) \/ StartMetadata(w) \/ StartTx(w)
    <2>1. /\ pc'[w] \in QueuedCalls \cup {"listBatches", "release"}
          /\ pc[w] \in QueuedCalls \cup {"initFind"}
          /\ pc'[w] = "listBatches" => InitFind(w) \/ StartTx(w)
      BY <1>4, GotoEffect DEF InitFind, LoadBins, InitTx, StartMetadata, StartTx, Reads, Awaits
    <2> QED BY <2>1 DEF Arrival
  <1>5. CASE ResumeList(w)
    <2>1. pc'[w] \in {"failTx", "readyList", "resumeMetadata", "release"}
      BY <1>5, GotoEffect DEF ResumeList
    <2> QED BY <1>5, <2>1 DEF Arrival
  <1>6. CASE ReadyList(w)
    <2>1. pc'[w] \in {"acceptTx", "resumeMetadata", "release"}
      BY <1>6, GotoEffect DEF ReadyList
    <2> QED BY <1>6, <2>1 DEF Arrival
  <1>7. CASE ResumeMetadata(w)
    <2>1. pc[w] = "resumeMetadata" /\ pc'[w] \in {"listBatches", "failTx", "release"}
      BY <1>7, GotoEffect DEF ResumeMetadata, Reads
    <2> QED BY <2>1 DEF Arrival
  <1>8. CASE ListBatches(w)
    <2>1. /\ pc[w] = "listBatches" /\ pc'[w] \in {"endMetadata", "failTx", "findBatch", "release"}
          /\ pc'[w] = "findBatch" => auth[w] = "held"
      BY <1>8, GotoEffect DEF ListBatches, Reads, GotoIfAuthorized, checkAuthorized, Goto, TypeOK
    <2> QED BY <2>1 DEF Arrival
  <1>9. CASE FindBatch(w) \/ MarkExhausted(w) \/ IncrementAttempt(w) \/ SetRunning(w)
             \/ FetchPage(w) \/ StageRow(w) \/ UpdateProgress(w) \/ MarkCompleted(w)
             \/ MarkFailed(w) \/ MarkPageLimit(w)
    <2>1. pc[w] \in BatchCalls
      BY <1>9 DEF FindBatch, MarkExhausted, IncrementAttempt, SetRunning, FetchPage, StageRow,
         UpdateProgress, MarkCompleted, MarkFailed, MarkPageLimit, WritesBatch, Reads, Awaits
    <2>2. pc'[w] \in BatchCalls \cup {"listBatches", "failTx", "release"}
      BY <1>9, GotoEffect DEF FindBatch, MarkExhausted, IncrementAttempt, SetRunning, FetchPage,
         StageRow, UpdateProgress, MarkCompleted, MarkFailed, MarkPageLimit
    <2> QED BY <2>1, <2>2 DEF Arrival
  <1>10. CASE EndMetadata(w)
    <2>1. pc[w] = "endMetadata" /\ pc'[w] \in {"persistEnd", "release"}
      BY <1>10, GotoEffect DEF EndMetadata, Reads
    <2> QED BY <1>10, <2>1 DEF Arrival
  <1>11. CASE PersistEnd(w) \/ FailTx(w) \/ FailCommit(w) \/ AcceptCommit(w) \/ HttpTerminalFailure(w)
    <2>1. pc'[w] \in {"acceptTx", "failTx", "failCommit", "release"}
      BY <1>11, GotoEffect DEF PersistEnd, FailTx, FailCommit, AcceptCommit, HttpTerminalFailure
    <2> QED BY <2>1 DEF Arrival
  <1>12. CASE AcceptTx(w)
    <2>1. pc'[w] \in {"acceptCommit", "release"}
      BY <1>12, GotoEffect DEF AcceptTx
    <2> QED BY <1>12, <2>1 DEF Arrival
  <1>13. CASE HttpFailure(w) \/ DbFailure(w)
    <2>1. \/ pc'[w] \in {"idle", "release"}
          \/ pc'[w] = "markFailed" /\ pc[w] \in BatchCalls
      BY <1>13, GotoEffect DEF HttpFailure, DbFailure, AttemptCalls
    <2> QED BY <2>1 DEF Arrival
  <1>14. ~(SessionLoss(w) \/ SilentSessionLoss(w) \/ NoticeLoss(w))
    BY DEF SessionLoss, SilentSessionLoss, NoticeLoss
  <1> QED BY <1>1, <1>2, <1>3, <1>4, <1>5, <1>6, <1>7, <1>8, <1>9, <1>10, <1>11, <1>12, <1>13,
             <1>14 DEF Step, Environment


LEMMA MovedWorker ==
  ASSUME TypeOK, [Next]_vars, NEW w \in Workers, pc'[w] # pc[w] \/ loc'[w] # loc[w]
  PROVE  /\ Step(w) \/ Environment(w)
         /\ Arrival(w)
         /\ loc'[w].run = loc[w].run \/ FindActive(w) \/ CreateQueuedRun(w) \/ pc'[w] = "idle"
  <1>1. ~(SourceChange \/ UNCHANGED vars)
    BY DEF SourceChange, vars
  <1>2. PICK v \in Workers : Step(v) \/ Environment(v)
    BY <1>1 DEF Next
  <1>3. v = w
    BY <1>2, StepFrame DEF WorkerOnly
  <1> QED BY <1>2, <1>3, RunKept, Arrivals

LEMMA AuthorityStep ==
  ASSUME TypeOK, NoticedOnly, "silentLoss" \notin FaultKinds, [Next]_vars, NEW w \in Workers
  PROVE  /\ NoticedOnly'
         /\ \/ auth'[w] = auth[w]
            \/ auth'[w] = "held" /\ pc'[w] = "findActive"
            \/ auth'[w] # "held" /\ pc'[w] = "idle"
            \/ auth'[w] # "held" /\ SessionLoss(w)
  <1>1. CASE SourceChange \/ UNCHANGED vars
    BY <1>1 DEF SourceChange, vars, NoticedOnly
  <1>2. ASSUME NEW v \in Workers, Step(v) \/ Environment(v)
        PROVE  /\ NoticedOnly'
               /\ \/ auth'[w] = auth[w]
                  \/ auth'[w] = "held" /\ pc'[w] = "findActive"
                  \/ auth'[w] # "held" /\ pc'[w] = "idle"
                  \/ auth'[w] # "held" /\ SessionLoss(w)
    BY <1>2, AuthorityMoves
  <1> QED BY <1>1, <1>2 DEF Next

(* Only an authorised executor opens the transaction that accepts a run,   *)
(* and only a run that is measured and complete.                           *)
LEMMA AcceptOpens ==
  ASSUME TypeOK, NEW w \in Workers, AcceptTx(w), pc'[w] = "acceptCommit"
  PROVE  /\ pc[w] = "acceptTx" /\ auth[w] = "held" /\ mayAccept(loc[w].run)
         /\ loc'[w].run = loc[w].run
         /\ UNCHANGED <<run, batch, lock, auth, source>>
  <1>1. pc[w] = "acceptTx" /\ UNCHANGED <<run, batch, lock, auth, source>>
    BY DEF AcceptTx, Reads
  <1>2. mayAccept(loc[w].run) /\ checkAuthorized(w)
    BY DEF AcceptTx, Goto, TypeOK
  <1>3. loc'[w].run = loc[w].run
    BY <1>1, RunKept DEF Step, FindActive, CreateQueuedRun, Reads, Awaits
  <1> QED BY <1>1, <1>2, <1>3 DEF checkAuthorized

LEMMA ClosingMoves ==
  ASSUME TypeOK, ControlInv, [Next]_vars, NEW r \in Runs, Closing(r)'
  PROVE  \/ Closing(r)
         \/ \E w \in Workers : AcceptTx(w) /\ pc'[w] = "acceptCommit" /\ loc[w].run = r
  <1>1. CASE run'[r].status = "COMPLETED"
    <2>1. CASE run'[r].status = run[r].status
      BY <1>1, <2>1 DEF Closing
    <2>2. CASE \E w \in Workers : AcceptCommit(w) /\ loc[w].run = r
      BY <2>2 DEF AcceptCommit, Awaits, Closing
    <2> QED BY <1>1, <2>1, <2>2, RunMoves
  <1>2. ASSUME NEW w \in Workers, pc'[w] = "acceptCommit", loc'[w].run = r
        PROVE  Closing(r) \/ (AcceptTx(w) /\ pc'[w] = "acceptCommit" /\ loc[w].run = r)
    <2>1. CASE pc'[w] = pc[w] /\ loc'[w] = loc[w]
      BY <1>2, <2>1 DEF Closing
    <2>2. CASE ~(pc'[w] = pc[w] /\ loc'[w] = loc[w])
      <3>1. AcceptTx(w)
        BY <1>2, <2>2, MovedWorker DEF Arrival
      <3> QED BY <1>2, <3>1, AcceptOpens
    <2> QED BY <2>1, <2>2
  <1> QED BY <1>1, <1>2 DEF Closing

LEMMA DoomedStays ==
  ASSUME TypeOK, ControlInv, WatermarkInv, [Next]_vars, NEW r \in Runs, Doomed(r)
  PROVE  Doomed(r)'
  <1>0. /\ Begun(r) /\ run[r].startWm < source /\ run[r].endWm # run[r].startWm /\ ~Closing(r)
        /\ \A v \in Workers : pc[v] = "persistEnd" /\ loc[v].run = r => loc[v].wm # run[r].startWm
    BY DEF Doomed
  <1>1. Begun(r)' /\ run'[r].startWm = run[r].startWm
    BY <1>0, BegunStays
  <1>2. run'[r].startWm < source'
    BY <1>0, <1>1, NumbersTyped, SourceGrows
  <1>3. run'[r].endWm # run'[r].startWm
    <2>1. ASSUME NEW v \in Workers, PersistEnd(v), loc[v].run = r PROVE loc[v].wm # run[r].startWm
      BY <1>0, <2>1 DEF PersistEnd, Awaits
    <2> QED BY <1>0, <1>1, <2>1, RunMoves
  <1>4. ~Closing(r)'
    <2>1. ASSUME NEW w \in Workers, AcceptTx(w), pc'[w] = "acceptCommit", loc[w].run = r PROVE FALSE
      BY <1>0, <2>1, AcceptOpens DEF mayAccept
    <2> QED BY <1>0, <2>1, ClosingMoves
  <1>5. ASSUME NEW v \in Workers, pc'[v] = "persistEnd", loc'[v].run = r
        PROVE  loc'[v].wm # run'[r].startWm
    <2>1. CASE pc'[v] = pc[v] /\ loc'[v] = loc[v]
      BY <1>0, <1>1, <1>5, <2>1
    <2>2. CASE ~(pc'[v] = pc[v] /\ loc'[v] = loc[v])
      <3>1. EndMetadata(v)
        BY <1>5, <2>2, MovedWorker DEF Arrival
      <3>2. loc'[v].wm = source
        BY <3>1, WmEffect DEF EndMetadata
      <3>3. source \in Nat /\ run[r].startWm \in Nat
        BY NumbersTyped
      <3> QED BY <1>0, <1>1, <3>2, <3>3
    <2> QED BY <2>1, <2>2
  <1> QED BY <1>1, <1>2, <1>3, <1>4, <1>5 DEF Doomed

(* No executor without authority begins an attempt. *)
LEMMA NoLateAttemptStays ==
  ASSUME TypeOK, NoticedOnly, [Next]_vars, NEW w \in Workers, lock = w,
         pc'[w] \notin BatchCalls, NEW r, NoLateAttempt(r)
  PROVE  NoLateAttempt(r)'
  <1> SUFFICES ASSUME NEW u \in Workers, pc'[u] \in BatchCalls, loc'[u].run = r
               PROVE  FALSE
    BY DEF NoLateAttempt, Stale
  <1>1. lock # u /\ auth[u] # "held"
    BY DEF NoticedOnly
  <1>2. pc[u] \in BatchCalls /\ loc[u].run = r
    <2>1. CASE pc'[u] = pc[u] /\ loc'[u] = loc[u]
      BY <2>1
    <2>2. CASE ~(pc'[u] = pc[u] /\ loc'[u] = loc[u])
      <3>1. pc[u] \in BatchCalls
        BY <1>1, <2>2, MovedWorker DEF Arrival
      <3>2. ~FindActive(u) /\ ~CreateQueuedRun(u) /\ pc'[u] # "idle"
        BY <3>1 DEF FindActive, CreateQueuedRun, Reads, Awaits, BatchCalls
      <3> QED BY <2>2, <3>1, <3>2, MovedWorker
    <2> QED BY <2>1, <2>2
  <1> QED BY <1>1, <1>2 DEF NoLateAttempt, Stale, BatchCalls

(* The run that findActive found. *)
LEMMA FoundRun ==
  ASSUME TypeOK, NEW w \in Workers, FindActive(w), pc'[w] \in {"initFind", "resumeList"}
  PROVE  /\ pc[w] = "findActive" /\ UNCHANGED <<run, batch, lock, auth, source>>
         /\ loc'[w].run \in Runs
         /\ pc'[w] = "initFind" => run[loc'[w].run].status = "QUEUED"
         /\ pc'[w] = "resumeList" =>
              /\ run[loc'[w].run].status = "RUNNING"
              /\ loc'[w].ready = (run[loc'[w].run].endWm = run[loc'[w].run].startWm)
  <1>1. pc[w] = "findActive" /\ UNCHANGED <<run, batch, lock, auth, source>>
    BY DEF FindActive, Reads
  <1>2. ActiveRuns # {}
    BY GotoEffect DEF FindActive
  <1>3. PICK s \in ActiveRuns :
          \E k : /\ k = [loc[w] EXCEPT !.run = s, !.ready = run[s].endWm = run[s].startWm]
                 /\ loc' = [loc EXCEPT ![w] = k]
                 /\ GotoIfAuthorized(w, IF run[s].status = "QUEUED" THEN "initFind" ELSE "resumeList")
    BY <1>2 DEF FindActive
  <1>4. PICK k : /\ k = [loc[w] EXCEPT !.run = s, !.ready = run[s].endWm = run[s].startWm]
                 /\ loc' = [loc EXCEPT ![w] = k]
                 /\ GotoIfAuthorized(w, IF run[s].status = "QUEUED" THEN "initFind" ELSE "resumeList")
    BY <1>3
  <1>5. k.run = s /\ k.ready = (run[s].endWm = run[s].startWm)
    BY <1>4, LocalsTyped DEF Locals
  <1>6. loc'[w] = k
    BY <1>4, LocUpdate
  <1>7. s \in Runs /\ run[s].status \in Active
    BY DEF ActiveRuns
  <1>8. /\ pc'[w] = "initFind" => run[s].status = "QUEUED"
        /\ pc'[w] = "resumeList" => run[s].status = "RUNNING"
    BY <1>4, <1>7, GotoEffect DEF Active
  <1> QED BY <1>1, <1>5, <1>6, <1>7, <1>8

LEMMA CreatedRun ==
  ASSUME TypeOK, NEW w \in Workers, CreateQueuedRun(w), pc'[w] = "initFind"
  PROVE  /\ loc'[w].run \in Runs /\ run[loc'[w].run].status = "ABSENT"
         /\ run'[loc'[w].run].status = "QUEUED"
  <1>1. mayCreate /\ \E r \in Runs : run[r].status = "ABSENT"
    BY GotoEffect DEF CreateQueuedRun
  <1>2. PICK r, k :
          /\ r \in Runs
          /\ run[r].status = "ABSENT" /\ run' = [run EXCEPT ![r].status = "QUEUED"]
          /\ k = [loc[w] EXCEPT !.run = r] /\ loc' = [loc EXCEPT ![w] = k]
    BY <1>1 DEF CreateQueuedRun
  <1>3. r \in Runs /\ k.run = r
    BY <1>2, LocalsTyped DEF Locals
  <1>4. loc'[w] = k
    BY <1>2, LocUpdate
  <1>5. run'[r].status = "QUEUED" /\ run[r].status = "ABSENT"
    BY <1>2, StatusWrite
  <1> QED BY <1>3, <1>4, <1>5


OneLate == \A u, v \in Stale : u = v

LEMMA StaleAreFew == ASSUME BudgetInv, faults.losses \in {0, 1} PROVE OneLate
  <1> SUFFICES ASSUME NEW u \in Stale, NEW v \in Stale, u # v PROVE FALSE
    BY DEF OneLate
  <1>1. IsFiniteSet(Stale) /\ Cardinality(Stale) <= faults.losses /\ Cardinality(Stale) \in Nat
    BY FS_CardinalityType DEF BudgetInv
  <1>2. IsFiniteSet(Stale \ {u}) /\ Cardinality(Stale \ {u}) = Cardinality(Stale) - 1
    BY <1>1, FS_RemoveElement
  <1>3. Cardinality(Stale \ {u}) = 0
    BY <1>1, <1>2, FS_CardinalityType
  <1>4. Stale \ {u} = {}
    BY <1>2, <1>3, FS_EmptySet
  <1> QED BY <1>4

(* Who writes the batches of a run. *)
LEMMA CompletedStays ==
  ASSUME TypeOK, ControlInv, WatermarkInv, CoverInv, [Next]_vars, NEW r \in Runs,
         Begun(r), AllCompleted(r),
         \A u \in Workers : pc[u] \in BatchCalls => loc[u].run # r
  PROVE  AllCompleted(r)'
  <1>0. \A u \in Workers : AttemptAt(u)
    BY DEF CoverInv
  <1>1. Batches(r)' = Batches(r) /\ Batches(r) \subseteq BatchIds
    BY BegunStays, BatchesInRange
  <1>2. ASSUME NEW b \in Batches(r) PROVE batch'[r][b] = batch[r][b]
    <2>1. ASSUME NEW u \in Workers, BatchWrites(u), loc[u].run = r PROVE FALSE
      BY <1>0, <2>1, BatchWriter
    <2>2. b \in BatchIds
      BY <1>1
    <2> QED BY <1>0, <2>1, <2>2, BatchRowWriter
  <1> QED BY <1>1, <1>2 DEF AllCompleted

LEMMA HeldStep ==
  ASSUME TypeOK, ControlInv, WatermarkInv, CoverInv, FrozenInv, OneLate,
         "silentLoss" \notin FaultKinds, [Next]_vars, NEW w \in Workers, auth'[w] = "held"
  PROVE  HeldInv(pc[w], loc[w])'
  <1> PICK r : r = loc'[w].run
    OBVIOUS
  <1>a. NoticedOnly /\ ControlInv' /\ \A v \in Workers : AttemptAt(v)
    BY StepControl DEF FrozenInv, CoverInv
  <1> SUFFICES ASSUME pc'[w] \in WorkCalls \cup {"resumeList", "readyList"}
               PROVE  /\ pc'[w] \in WorkCalls => ~Closing(r)'
                      /\ pc'[w] \in {"resumeList", "readyList"} /\ Closing(r)' =>
                           Begun(r)' /\ AllCompleted(r)' /\ NoLateAttempt(r)'
                      /\ pc'[w] = "resumeList" /\ Closing(r)' => loc'[w].ready
    <2>1. /\ Closing(loc[w].run)' <=> Closing(r)'
          /\ Begun(loc[w].run)' <=> Begun(r)'
          /\ AllCompleted(loc[w].run)' <=> AllCompleted(r)'
          /\ NoLateAttempt(loc[w].run)' <=> NoLateAttempt(r)'
      BY DEF Closing, Begun, AllCompleted, Batches, NoLateAttempt, Stale
    <2> QED BY <2>1 DEF HeldInv
  <1>b. /\ pc'[w] \in RunCalls /\ pc'[w] \notin {"acceptCommit", "findActive", "idle"}
        /\ r \in Runs
    <2>1. pc'[w] \in RunCalls /\ pc'[w] \notin {"acceptCommit", "findActive", "idle"}
      BY DEF WorkCalls, UnmeasuredCalls, QueuedCalls, BatchCalls, RunCalls, Calls, ReadCalls,
             WriteCalls
    <2>2. WorkerConsistent(pc[w], loc[w])'
      BY <1>a DEF ControlInv
    <2> QED BY <2>1, <2>2 DEF WorkerConsistent
  <1>c. auth[w] = "held" /\ lock = w /\ HeldInv(pc[w], loc[w])
    BY <1>a, <1>b, AuthorityStep DEF FrozenInv, NoticedOnly
  <1>d. ASSUME Closing(r)' PROVE Closing(r)
    <2>1. ASSUME NEW v \in Workers, AcceptTx(v), pc'[v] = "acceptCommit" PROVE FALSE
      <3>1. auth[v] = "held"
        BY <2>1, AcceptOpens
      <3>2. v = w
        BY <1>a, <1>c, <3>1 DEF NoticedOnly
      <3> QED BY <1>b, <2>1, <3>2
    <2> QED BY <1>b, <1>d, <2>1, ClosingMoves
  <1>e. ASSUME pc[w] \in {"resumeList", "readyList"}, loc[w].run = r, Closing(r),
               pc'[w] \in {"resumeList", "readyList"}
        PROVE  Begun(r)' /\ AllCompleted(r)' /\ NoLateAttempt(r)'
    <2>1. Begun(r) /\ AllCompleted(r) /\ NoLateAttempt(r)
      BY <1>c, <1>e DEF HeldInv
    <2>2. ASSUME NEW u \in Workers, pc[u] \in BatchCalls PROVE loc[u].run # r
      BY <1>c, <1>e, <2>1, <2>2 DEF NoLateAttempt, Stale, BatchCalls
    <2>3. NoLateAttempt(r)'
      BY <1>a, <1>c, <1>e, <2>1, NoLateAttemptStays DEF BatchCalls
    <2> QED BY <1>b, <2>1, <2>2, <2>3, BegunStays, CompletedStays
  <1>1. CASE pc'[w] = pc[w] /\ loc'[w] = loc[w]
    BY <1>1, <1>c, <1>d, <1>e DEF HeldInv
  <1>2. CASE ~(pc'[w] = pc[w] /\ loc'[w] = loc[w])
    <2>1. /\ Step(w) \/ Environment(w)
          /\ Arrival(w)
          /\ r = loc[w].run \/ FindActive(w) \/ CreateQueuedRun(w)
      BY <1>2, <1>b, MovedWorker
    <2>2. ASSUME run[r].status \in {"ABSENT", "QUEUED"} PROVE ~Closing(r)
      <3>1. ASSUME NEW v \in Workers, pc[v] = "acceptCommit", loc[v].run = r PROVE FALSE
        BY <2>2, <3>1 DEF ControlInv, WorkerConsistent
      <3> QED BY <2>2, <3>1 DEF Closing
    <2>3. CASE pc'[w] = "initFind"
      <3>1. CASE FindActive(w)
        BY <1>d, <2>2, <2>3, <3>1, FoundRun
      <3>2. CASE CreateQueuedRun(w)
        BY <1>d, <2>2, <2>3, <3>2, CreatedRun
      <3> QED BY <1>d, <2>1, <2>3, <3>1, <3>2 DEF Arrival
    <2>4. CASE pc'[w] = "resumeMetadata"
      <3>1. CASE ResumeList(w)
        <4>1. pc[w] = "resumeList" /\ r = loc[w].run
          BY <2>1, <3>1 DEF ResumeList, FindActive, CreateQueuedRun, Reads, Awaits
        <4>2. ~loc[w].ready
          BY <2>4, <3>1, GotoEffect DEF ResumeList
        <4> QED BY <1>c, <1>d, <2>4, <4>1, <4>2 DEF HeldInv
      <3>2. CASE ReadyList(w)
        <4>1. pc[w] = "readyList" /\ r = loc[w].run
          BY <2>1, <3>2 DEF ReadyList, FindActive, CreateQueuedRun, Reads, Awaits
        <4>2. ~AllCompleted(r)
          BY <2>4, <3>2, <4>1, GotoEffect DEF ReadyList
        <4> QED BY <1>c, <1>d, <2>4, <4>1, <4>2 DEF HeldInv
      <3> QED BY <2>1, <2>4, <3>1, <3>2 DEF Arrival
    <2>5. CASE pc'[w] \in WorkCalls \ {"resumeMetadata", "initFind"}
      <3>1. pc[w] \in WorkCalls
        BY <2>1, <2>5 DEF Arrival
      <3>2. r = loc[w].run
        BY <2>1, <3>1 DEF FindActive, CreateQueuedRun, Reads, Awaits, WorkCalls, UnmeasuredCalls,
           QueuedCalls, BatchCalls
      <3> QED BY <1>c, <1>d, <2>5, <3>1, <3>2
              DEF HeldInv, WorkCalls, UnmeasuredCalls, QueuedCalls, BatchCalls
    <2>6. CASE pc'[w] = "resumeList"
      <3>1. FindActive(w)
        BY <2>1, <2>6 DEF Arrival
      <3>2. /\ pc[w] = "findActive" /\ UNCHANGED <<run, batch, lock>> /\ run[r].status = "RUNNING"
            /\ loc'[w].ready = (run[r].endWm = run[r].startWm)
        BY <2>6, <3>1, FoundRun
      <3>3. ASSUME NEW v \in Workers, pc[v] = "acceptCommit", loc[v].run = r
            PROVE  /\ AllCompleted(r) /\ Measurable(r) /\ NoLateAttempt(r)
        <4>1. v \in Stale /\ auth[v] # "held"
          BY <1>a, <1>c, <3>2, <3>3 DEF NoticedOnly, Stale
        <4>2. AllCompleted(r) /\ Measurable(r)
          BY <3>3, <4>1 DEF FrozenInv, LateInv
        <4>3. NoLateAttempt(r)
          BY <3>3, <4>1 DEF NoLateAttempt, OneLate, BatchCalls
        <4> QED BY <4>2, <4>3
      <3>4. Closing(r)' => AllCompleted(r) /\ Measurable(r) /\ NoLateAttempt(r)
        BY <1>d, <3>2, <3>3 DEF Closing
      <3>5. NoLateAttempt(r) => NoLateAttempt(r)'
        BY <1>a, <1>c, <2>6, NoLateAttemptStays DEF BatchCalls
      <3>6. AllCompleted(r) => AllCompleted(r)'
        BY <3>2 DEF AllCompleted, Batches
      <3>7. Begun(r)'
        BY <3>2 DEF Begun
      <3> QED BY <2>6, <3>2, <3>4, <3>5, <3>6, <3>7
              DEF Measurable, WorkCalls, UnmeasuredCalls, QueuedCalls, BatchCalls
    <2>7. CASE pc'[w] = "readyList"
      <3>1. ResumeList(w)
        BY <2>1, <2>7 DEF Arrival
      <3>2. pc[w] = "resumeList" /\ r = loc[w].run
        BY <2>1, <3>1 DEF ResumeList, FindActive, CreateQueuedRun, Reads, Awaits
      <3> QED BY <1>d, <1>e, <2>7, <3>2 DEF WorkCalls, UnmeasuredCalls, QueuedCalls, BatchCalls
    <2> QED BY <2>3, <2>4, <2>5, <2>6, <2>7
  <1> QED BY <1>1, <1>2

(* The row of a run that is being accepted does not move under the         *)
(* transaction: it has the row lock.                                       *)
LEMMA MeasuredCommit ==
  ASSUME TypeOK, ControlInv, FrozenInv, [Next]_vars, NEW w \in Workers, pc'[w] = "acceptCommit"
  PROVE  Measurable(loc[w].run)'
  <1> PICK r : r = loc'[w].run
    OBVIOUS
  <1>1. CASE pc'[w] = pc[w] /\ loc'[w] = loc[w]
    <2>1. r \in Runs /\ Begun(r) /\ Measurable(r)
      BY <1>1, RunOf DEF ControlInv, WorkerConsistent, Begun, FrozenInv
    <2>2. ASSUME NEW u \in Workers, PersistEnd(u), loc[u].run = r PROVE FALSE
      BY <1>1, <2>2 DEF PersistEnd, Awaits, RunRowLocked
    <2>3. run'[r].startWm = run[r].startWm /\ run'[r].endWm = run[r].endWm
      BY <2>1, <2>2, BegunStays, RunMoves
    <2> QED BY <2>1, <2>3 DEF Measurable
  <1>2. CASE ~(pc'[w] = pc[w] /\ loc'[w] = loc[w])
    <2>1. AcceptTx(w)
      BY <1>2, MovedWorker DEF Arrival
    <2>2. mayAccept(r) /\ run' = run
      BY <2>1, AcceptOpens
    <2> QED BY <2>2 DEF mayAccept, Measurable
  <1> QED BY <1>1, <1>2

LEMMA AcceptedStays ==
  ASSUME TypeOK, ControlInv, FrozenInv, [Next]_vars, NEW r \in Runs
  PROVE  /\ run[r].status = "COMPLETED" => run'[r] = run[r]
         /\ run'[r].status = "COMPLETED" => run'[r].endWm = run'[r].startWm
  <1>1. ASSUME run[r].status = "COMPLETED" PROVE run'[r] = run[r]
    <2>1. CASE run' = run
      BY <2>1
    <2>2. CASE \E s \in Runs : RunChange(s)
      <3>1. PICK s \in Runs : RunChange(s)
        BY <2>2
      <3>2. CASE s # r
        BY <3>1, <3>2 DEF RunChange, OtherRowsKept
      <3>3. CASE s = r
        <4>1. PICK w \in Workers : PersistEnd(w) /\ loc[w].run = r
          BY <1>1, <3>1, <3>3 DEF RunChange, Created, Sealed, Started, Measured, Decided
        <4>2. pc[w] = "persistEnd" /\ run' = [run EXCEPT ![r].endWm = loc[w].wm] /\ Closing(r)
          BY <1>1, <4>1 DEF PersistEnd, Awaits, Closing
        <4>3. auth[w] # "held"
          BY <4>1, <4>2 DEF FrozenInv, HeldInv, WorkCalls, UnmeasuredCalls
        <4>4. loc[w].wm = run[r].startWm
          BY <4>1, <4>2, <4>3 DEF FrozenInv, LateInv, Doomed
        <4>5. loc[w].wm = run[r].endWm
          BY <1>1, <4>4 DEF FrozenInv
        <4>6. run[r] \in RunRecords /\ run'[r] = [run[r] EXCEPT !.endWm = run[r].endWm]
          BY <4>2, <4>5 DEF TypeOK
        <4> QED BY <4>6 DEF RunRecords
      <3> QED BY <3>2, <3>3
    <2> QED BY <2>1, <2>2, StepControl
  <1>2. ASSUME run[r].status # "COMPLETED", run'[r].status = "COMPLETED"
        PROVE  run'[r].endWm = run'[r].startWm
    <2>1. PICK w \in Workers : AcceptCommit(w) /\ loc[w].run = r
      BY <1>2, RunMoves
    <2>2. pc[w] = "acceptCommit" /\ run' = [run EXCEPT ![r].status = "COMPLETED"]
      BY <2>1 DEF AcceptCommit, Awaits
    <2>3. Measurable(r)
      BY <2>1, <2>2 DEF FrozenInv
    <2> QED BY <2>2, <2>3, StatusWrite DEF Measurable
  <1> QED BY <1>1, <1>2 DEF FrozenInv

(* The session is lost while the executor is at a write that counts: its   *)
(* end watermark differs and dooms the run, or the run is complete.        *)
LEMMA LossInv ==
  ASSUME TypeOK, ControlInv, WatermarkInv, SnapshotInv, NEW w \in Workers, lock = w,
         ResumeInv(pc[w], loc[w])
  PROVE  LateInv(pc[w], loc[w])
  <1> PICK r, wm : r = loc[w].run /\ wm = loc[w].wm
    OBVIOUS
  <1>1. ASSUME pc[w] = "persistEnd", wm # run[r].startWm PROVE Doomed(r)
    <2>1. r \in Runs /\ run[r].status = "RUNNING" /\ run[r].startWm # 0
      <3>1. r \in Runs /\ run[r].status = "RUNNING"
        BY <1>1, RunOf DEF SnapshotInv, ExecutionInv, CallInv, StartedCalls
      <3> QED BY <3>1 DEF ControlInv, RunConsistent
    <2>2. run[r].endWm # run[r].startWm
      BY <1>1, <2>1 DEF ResumeInv, UnmeasuredCalls, Measurable
    <2>3. run[r].startWm < source
      <3>1. run[r].startWm <= wm /\ wm <= source
        BY <1>1 DEF WatermarkInv, WatermarkAt
      <3> QED BY <1>1, <2>1, <3>1, NumbersTyped
    <2>4. \A v \in Workers : pc[v] \in {"persistEnd", "acceptCommit"} => v = w
      BY DEF SnapshotInv, Exclusion
    <2> QED BY <1>1, <2>1, <2>2, <2>3, <2>4 DEF Doomed, Begun, Closing
  <1>2. ASSUME pc[w] = "acceptCommit" PROVE AllCompleted(r)
    <2>1. r \in Runs /\ Measurable(r)
      BY <1>2, RunOf DEF SnapshotInv, ExecutionInv, HandoffInv
    <2> QED BY <2>1 DEF SnapshotInv, RunData
  <1> QED BY <1>1, <1>2 DEF LateInv

LEMMA LateStep ==
  ASSUME TypeOK, ControlInv, WatermarkInv, CoverInv, FrozenInv, OneLate, MaxLosses <= 1,
         faults.losses = 0 => SnapshotInv, "silentLoss" \notin FaultKinds,
         [Next]_vars, NEW w \in Workers, auth'[w] # "held"
  PROVE  LateInv(pc[w], loc[w])'
  <1> PICK r : r = loc'[w].run
    OBVIOUS
  <1> SUFFICES ASSUME pc'[w] \in {"persistEnd", "acceptCommit"}
               PROVE  /\ pc'[w] = "persistEnd" => loc'[w].wm = run'[r].startWm \/ Doomed(r)'
                      /\ pc'[w] = "acceptCommit" => AllCompleted(r)'
    <2>1. /\ Doomed(loc[w].run)' <=> Doomed(r)'
          /\ AllCompleted(loc[w].run)' <=> AllCompleted(r)'
      BY DEF Doomed, Closing, Begun, AllCompleted, Batches
    <2> QED BY <2>1 DEF LateInv
  <1>0. ASSUME SessionLoss(w) PROVE faults.losses = 0 /\ lock = w
    <2>1. faults.losses < MaxLosses /\ lock = w
      BY <1>0 DEF SessionLoss, LosesSession
    <2>2. faults.losses \in Nat /\ MaxLosses \in Nat
      BY LossesCounted, BoundsAssumption
    <2> QED BY <2>1, <2>2
  <1>1. auth'[w] = auth[w] \/ SessionLoss(w)
    BY AuthorityStep DEF FrozenInv
  <1>2. pc'[w] = pc[w] /\ loc'[w] = loc[w]
    <2> SUFFICES ASSUME ~(pc'[w] = pc[w] /\ loc'[w] = loc[w]) PROVE FALSE
      OBVIOUS
    <2>1. EndMetadata(w) \/ AcceptTx(w)
      BY MovedWorker DEF Arrival
    <2>2. ~AcceptTx(w)
      <3>1. ASSUME AcceptTx(w) PROVE pc'[w] = "acceptCommit"
        BY <3>1, GotoEffect DEF AcceptTx
      <3> QED BY <3>1, AcceptOpens
    <2>3. ~EndMetadata(w)
      BY GotoEffect DEF EndMetadata, Reads, GotoIfAuthorized, checkAuthorized, Goto, TypeOK
    <2> QED BY <2>1, <2>2, <2>3
  <1>3. LateInv(pc[w], loc[w])
    <2>1. CASE auth[w] # "held"
      BY <2>1 DEF FrozenInv
    <2>2. CASE SessionLoss(w)
      BY <1>0, <2>2, LossInv DEF FrozenInv
    <2> QED BY <1>1, <2>1, <2>2
  <1>4. r \in Runs /\ Begun(r)
    BY <1>2, RunOf DEF StartedCalls, WatermarkInv, WatermarkAt, ControlInv, WorkerConsistent, Begun
  <1>5. ASSUME pc'[w] = "persistEnd" PROVE loc'[w].wm = run'[r].startWm \/ Doomed(r)'
    BY <1>2, <1>3, <1>4, <1>5, BegunStays, DoomedStays DEF LateInv
  <1>6. ASSUME pc'[w] = "acceptCommit" PROVE AllCompleted(r)'
    <2>1. AllCompleted(r) /\ Closing(r)
      BY <1>2, <1>3, <1>6 DEF LateInv, Closing
    <2>2. ASSUME NEW u \in Workers, pc[u] \in BatchCalls, loc[u].run = r PROVE FALSE
      <3>1. auth[u] # "held"
        BY <2>1, <2>2 DEF FrozenInv, HeldInv, WorkCalls, UnmeasuredCalls
      <3>2. u # w
        BY <1>2, <1>6, <2>2 DEF BatchCalls
      <3>3. CASE auth[w] # "held"
        BY <1>2, <1>6, <2>2, <3>1, <3>2, <3>3 DEF FrozenInv, NoticedOnly, OneLate, Stale, BatchCalls
      <3>4. CASE SessionLoss(w)
        BY <1>0, <2>2, <3>2, <3>4 DEF SnapshotInv, Exclusion, BatchCalls
      <3> QED BY <1>1, <3>3, <3>4
    <2> QED BY <1>4, <2>1, <2>2, CompletedStays
  <1> QED BY <1>5, <1>6

LEMMA ResumeStep ==
  ASSUME TypeOK, ControlInv, WatermarkInv, CoverInv, SnapshotInv, [Next]_vars,
         NEW w \in Workers, ResumeInv(pc[w], loc[w])
  PROVE  ResumeInv(pc[w], loc[w])'
  <1> PICK r : r = loc'[w].run
    OBVIOUS
  <1> SUFFICES ASSUME pc'[w] \in UnmeasuredCalls \cup {"initFind", "resumeList", "readyList"}
               PROVE  /\ pc'[w] = "initFind" => run'[r].status = "QUEUED"
                      /\ pc'[w] = "resumeList" =>
                           loc'[w].ready = (run'[r].endWm = run'[r].startWm)
                      /\ pc'[w] = "readyList" => Measurable(r)'
                      /\ pc'[w] \in UnmeasuredCalls => ~Measurable(r)'
    <2>1. Measurable(loc[w].run)' <=> Measurable(r)'
      BY DEF Measurable
    <2> QED BY <2>1 DEF ResumeInv
  <1>a. pc'[w] \notin {"idle", "lock", "release", "acceptTx", "failTx"}
    BY DEF UnmeasuredCalls, BatchCalls
  (* The one executor writes ingestion_runs, on its way from the queue.    *)
  <1>b. ASSUME run' # run, pc[w] \notin {"idle", "lock"}
        PROVE  CreateQueuedRun(w) \/ InitTx(w) \/ StartTx(w)
    <2>1. PICK u \in Workers : RunWrites(u)
      BY <1>b, RunWriters
    <2>2. pc[u] \notin {"idle", "lock"}
      BY <2>1 DEF RunWrites, CreateQueuedRun, InitTx, StartTx, PersistEnd, FailCommit,
         AcceptCommit, Awaits
    <2>3. u = w
      BY <1>b, <2>2 DEF SnapshotInv, Exclusion
    <2>4. ~(PersistEnd(w) \/ FailCommit(w) \/ AcceptCommit(w))
      BY <1>a, GotoEffect DEF PersistEnd, FailCommit, AcceptCommit
    <2> QED BY <2>1, <2>3, <2>4 DEF RunWrites
  <1>1. CASE pc'[w] = pc[w] /\ loc'[w] = loc[w]
    <2>1. run' = run
      BY <1>1, <1>a, <1>b DEF CreateQueuedRun, InitTx, StartTx, Awaits, UnmeasuredCalls, BatchCalls
    <2> QED BY <1>1, <2>1 DEF ResumeInv, Measurable
  <1>2. CASE ~(pc'[w] = pc[w] /\ loc'[w] = loc[w])
    <2>1. /\ Arrival(w)
          /\ r = loc[w].run \/ FindActive(w) \/ CreateQueuedRun(w)
      BY <1>2, <1>a, MovedWorker
    <2>2. CASE pc'[w] = "initFind"
      BY <2>1, <2>2, FoundRun, CreatedRun DEF Arrival, UnmeasuredCalls, BatchCalls
    <2>3. CASE pc'[w] = "resumeList"
      BY <2>1, <2>3, FoundRun DEF Arrival, UnmeasuredCalls, BatchCalls
    <2>4. ASSUME ResumeList(w), pc'[w] \in {"readyList", "resumeMetadata"}
          PROVE  /\ run' = run
                 /\ pc'[w] = "readyList" <=> Measurable(r)
      <3>1. pc[w] = "resumeList" /\ run' = run /\ r = loc[w].run
        BY <2>1, <2>4 DEF ResumeList, Reads, FindActive, CreateQueuedRun, Awaits
      <3>2. pc'[w] = "readyList" <=> loc[w].ready
        BY <2>4, GotoEffect DEF ResumeList
      <3>3. r \in Runs /\ run[r].startWm # 0
        <4>1. r \in Runs /\ run[r].status = "RUNNING"
          BY <3>1, RunOf DEF SnapshotInv, ExecutionInv, CallInv, StartedCalls
        <4> QED BY <4>1 DEF ControlInv, RunConsistent
      <3> QED BY <3>1, <3>2, <3>3 DEF ResumeInv, Measurable
    <2>5. ASSUME ReadyList(w) PROVE pc'[w] # "resumeMetadata"
      <3>1. pc[w] = "readyList"
        BY <2>5 DEF ReadyList, Reads
      <3>2. AllCompleted(loc[w].run)
        <4>1. loc[w].run \in Runs /\ Measurable(loc[w].run)
          BY <3>1, RunOf DEF ResumeInv, StartedCalls
        <4> QED BY <4>1 DEF SnapshotInv, RunData
      <3> QED BY <2>5, <3>2, GotoEffect DEF ReadyList
    <2>6. CASE pc'[w] \in {"readyList", "resumeMetadata"}
      <3>1. ResumeList(w)
        BY <2>1, <2>5, <2>6 DEF Arrival
      <3> QED BY <2>4, <2>6, <3>1 DEF Measurable, UnmeasuredCalls, BatchCalls
    <2>7. CASE pc'[w] \in UnmeasuredCalls \ {"resumeMetadata"}
      <3>1. CASE pc[w] \in UnmeasuredCalls
        <4>1. run' = run /\ r = loc[w].run
          BY <1>b, <2>1, <3>1 DEF FindActive, CreateQueuedRun, InitTx, StartTx, Reads, Awaits,
             UnmeasuredCalls, BatchCalls
        <4> QED BY <2>7, <3>1, <4>1 DEF ResumeInv, Measurable, UnmeasuredCalls, BatchCalls
      <3>2. ~InitFind(w)
        <4>1. ASSUME InitFind(w) PROVE run[loc[w].run].status = "QUEUED"
          BY <4>1 DEF InitFind, Reads, ResumeInv
        <4> QED BY <2>7, <4>1, GotoEffect DEF InitFind, MyRun, UnmeasuredCalls, BatchCalls
      <3>3. CASE StartTx(w)
        <4>1. /\ pc[w] = "startTx" /\ r = loc[w].run /\ r \in Runs
              /\ loc[w].wm \in Watermarks
          BY <2>1, <3>3, RunOf DEF StartTx, Awaits, FindActive, CreateQueuedRun, Reads, QueuedCalls,
             ControlInv, WorkerConsistent
        <4>2. mayStart(r) /\ run' = [run EXCEPT ![r].status = "RUNNING", ![r].startWm = loc[w].wm]
          BY <1>a, <3>3, <4>1, GotoEffect DEF StartTx, Goto, TypeOK
        <4>3. run[r].endWm = 0
          BY <4>1, <4>2 DEF mayStart, Begun, CoverInv, RunCover, Untouched
        <4>4. run'[r].endWm = 0 /\ run'[r].startWm \in Watermarks
          BY <4>1, <4>2, <4>3, StartWrite
        <4> QED BY <2>7, <4>4, BoundsAssumption
                DEF Measurable, Watermarks, UnmeasuredCalls, BatchCalls
      <3> QED BY <2>1, <2>7, <3>1, <3>2, <3>3 DEF Arrival
    <2> QED BY <2>2, <2>3, <2>6, <2>7
  <1> QED BY <1>1, <1>2

LEMMA NextFrozen ==
  ASSUME TypeOK, ControlInv, WatermarkInv, CoverInv, FrozenInv, OneLate, MaxLosses <= 1,
         faults.losses = 0 => SnapshotInv, "silentLoss" \notin FaultKinds, [Next]_vars
  PROVE  FrozenInv'
  <1>1. NoticedOnly'
    <2>1. ASSUME NEW w \in Workers PROVE NoticedOnly'
      BY AuthorityStep DEF FrozenInv
    <2> QED BY <2>1 DEF NoticedOnly
  <1>2. \A r \in Runs : run'[r].status = "COMPLETED" => run'[r].endWm = run'[r].startWm
    BY AcceptedStays
  <1>3. ASSUME NEW w \in Workers
        PROVE  /\ auth'[w] = "held" => HeldInv(pc[w], loc[w])'
               /\ auth'[w] # "held" => LateInv(pc[w], loc[w])'
               /\ pc'[w] = "acceptCommit" => Measurable(loc[w].run)'
    BY HeldStep, LateStep, MeasuredCommit
  <1>4. ASSUME faults'.losses = 0, NEW w \in Workers PROVE ResumeInv(pc[w], loc[w])'
    <2>1. faults.losses = 0
      BY <1>4, LossesCounted
    <2> QED BY <2>1, ResumeStep DEF FrozenInv
  <1> QED BY <1>1, <1>2, <1>3, <1>4 DEF FrozenInv

LEMMA InitFrozen == Init => FrozenInv
  BY WorkersAssumption
     DEF Init, FrozenInv, NoticedOnly, HeldInv, LateInv, ResumeInv, WorkCalls, UnmeasuredCalls,
         QueuedCalls, BatchCalls

(* When at most one session is lost, and its client notices, an accepted   *)
(* run is never written again: an executor that lost its session before    *)
(* it measured the end of the source either still measures the watermark   *)
(* the run was accepted at, or has seen the source move, and then nobody   *)
(* accepts the run.                                                        *)
THEOREM AcceptedRunsAreFrozen ==
  ASSUME MaxLosses <= 1, "silentLoss" \notin FaultKinds
  PROVE  Spec => AcceptedRunFrozen
  <1> DEFINE Known == /\ IInv /\ WatermarkInv /\ CoverInv
                      /\ faults.losses = 0 => SnapshotInv
                      /\ BudgetInv
  <1>1. Known => OneLate
    <2>1. TypeOK => faults.losses \in {0, 1}
      <3>1. TypeOK => faults.losses \in 0..MaxLosses
        BY DEF TypeOK
      <3>2. MaxLosses \in Nat
        BY BoundsAssumption
      <3> QED BY <3>1, <3>2
    <2> QED BY <2>1, StaleAreFew DEF IInv
  <1>2. Known /\ FrozenInv /\ [Next]_vars => FrozenInv'
    BY <1>1, NextFrozen DEF IInv
  <1>3. Known /\ FrozenInv /\ [Next]_vars =>
          [\A r \in Runs : run[r].status = "COMPLETED" => run'[r] = run[r]]_vars
    BY AcceptedStays DEF IInv
  <1>4. Spec => []Known
    <2> HIDE DEF Known
    <2>1. IInv /\ WatermarkInv /\ CoverInv /\ (faults.losses = 0 => SnapshotInv) /\ BudgetInv => Known
      BY DEF Known
    <2> QED BY <2>1, SnapshotInvariant, BudgetInvariant, PTL
  <1> HIDE DEF Known
  <1> QED BY <1>2, <1>3, <1>4, InitFrozen, PTL DEF Spec, AcceptedRunFrozen

=============================================================================
