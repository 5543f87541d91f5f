-------------------------- MODULE IngestionWorker --------------------------
(***************************************************************************)
(* The processes that execute ingestions: the scheduled worker             *)
(* (src/workers/ingestion.worker.ts, src/workers/scheduler.ts) and the     *)
(* manual command (src/cli/ingest-ecb.ts), with the runner's lock          *)
(* acquisition and release (ingestion-runner.service.ts,                   *)
(* ingestion-lock.service.ts).  What an execution does while it works is   *)
(* EcbIngestion's; here it only yields an outcome.                         *)
(***************************************************************************)
EXTENDS Naturals, FiniteSets

CONSTANTS
    Scheduled,      \* worker processes
    Manual,         \* command-line processes
    MaxExecutions,  \* bound: executions a process starts
    NoProcess

Processes == Scheduled \cup Manual
Execs == 1..MaxExecutions
None == 0

ASSUME WorkerAssumption ==
    /\ Scheduled \cap Manual = {}
    /\ NoProcess \notin Processes
    /\ MaxExecutions \in Nat \ {0}

VARIABLES
    proc,             \* the process
    timer,            \* the interval timer is set
    current,          \* currentExecution
    stage,            \* where each execution is
    result,           \* its outcome
    shutdown,         \* progress of shutdownPromise
    awaited,          \* the execution stop() awaits
    shutdownExitCode,
    exitCode,         \* process.exitCode
    holder,           \* process whose session really holds the advisory lock
    lease,            \* the execution that the process's lock service leased to
    revoked           \* the lease's authority was revoked

lockVars == <<holder, lease, revoked>>
execVars == <<current, stage, result>>
exitVars == <<shutdown, awaited, shutdownExitCode, exitCode>>
vars == <<proc, timer, execVars, exitVars, lockVars>>

Stages == {"none", "acquiring", "working", "releasing", "counting", "reporting", "ended"}
(* REJECTED stands for TERMINAL_FAILURE_PUBLISHED and                      *)
(* SOURCE_CHANGED_PUBLISHED, which the callers treat alike.                *)
Published == {"COMPLETED", "REJECTED"}
Lost == "EXECUTION_AUTHORITY_LOST"
Results == {"none", "ERROR", "ACTIVE_EXECUTOR", Lost} \cup Published
Running(p) == proc[p] = "running"
InProgress(p, e) == stage[p][e] \notin {"none", "ended"}

TypeOK ==
    /\ proc \in [Processes -> {"running", "exited", "killed"}]
    /\ timer \in [Processes -> BOOLEAN]
    /\ current \in [Processes -> Execs \cup {None}]
    /\ stage \in [Processes -> [Execs -> Stages]]
    /\ result \in [Processes -> [Execs -> Results]]
    /\ shutdown \in [Processes -> {"none", "stopping", "disconnecting", "done"}]
    /\ awaited \in [Processes -> Execs \cup {None}]
    /\ shutdownExitCode \in [Processes -> {0, 1}]
    /\ exitCode \in [Processes -> {0, 1, 2}]
    /\ holder \in Processes \cup {NoProcess}
    /\ lease \in [Processes -> Execs \cup {None}]
    /\ revoked \in [Processes -> BOOLEAN]

(* scheduler.start and main() start the first execution at once. *)
Init ==
    /\ proc = [p \in Processes |-> "running"]
    /\ timer = [p \in Processes |-> p \in Scheduled]
    /\ current = [p \in Processes |-> 1]
    /\ stage = [p \in Processes |-> [e \in Execs |-> IF e = 1 THEN "acquiring" ELSE "none"]]
    /\ result = [p \in Processes |-> [e \in Execs |-> "none"]]
    /\ shutdown = [p \in Processes |-> "none"]
    /\ awaited = [p \in Processes |-> None]
    /\ shutdownExitCode = [p \in Processes |-> 0]
    /\ exitCode = [p \in Processes |-> 0]
    /\ holder = NoProcess
    /\ lease = [p \in Processes |-> None]
    /\ revoked = [p \in Processes |-> FALSE]

-----------------------------------------------------------------------------
MoveTo(p, e, s) == stage' = [stage EXCEPT ![p][e] = s]
Yield(p, e, r) == result' = [result EXCEPT ![p][e] = r]

(* runOnce does nothing while an execution is current. *)
maySchedule_overlapping(p) == timer[p]
maySchedule(p) == timer[p] /\ current[p] = None

(* The interval timer fires. *)
Tick(p) ==
    /\ Running(p)
    /\ maySchedule(p)
    /\ \E e \in Execs :
         /\ stage[p][e] = "none"
         /\ \A d \in Execs : d < e => stage[p][d] # "none"
         /\ MoveTo(p, e, "acquiring")
         /\ current' = [current EXCEPT ![p] = e]
    /\ UNCHANGED <<proc, timer, result, exitVars, lockVars>>

(* An execution that throws: the runner reports lost authority when the    *)
(* lock service's authority is no longer valid, whoever it was issued to.  *)
thrown(p) == IF lease[p] # None /\ revoked[p] THEN Lost ELSE "ERROR"

(* EcbIngestionLockService.acquire, by way of the executor.  A service     *)
(* that already has a lease, and a failed connection, throw.               *)
Acquire(p, e) ==
    /\ Running(p)
    /\ stage[p][e] = "acquiring"
    /\ \/ /\ Yield(p, e, thrown(p))
          /\ MoveTo(p, e, "releasing")
          /\ UNCHANGED lockVars
       \/ /\ lease[p] = None
          /\ holder # NoProcess
          /\ Yield(p, e, "ACTIVE_EXECUTOR")
          /\ MoveTo(p, e, "releasing")
          /\ UNCHANGED lockVars
       \/ /\ lease[p] = None
          /\ holder = NoProcess
          /\ MoveTo(p, e, "working")
          /\ holder' = p
          /\ lease' = [lease EXCEPT ![p] = e]
          /\ revoked' = [revoked EXCEPT ![p] = FALSE]
          /\ UNCHANGED result
    /\ UNCHANGED <<proc, timer, current, exitVars>>

(* The executor and the publication: a published outcome, or an error.     *)
(* An authority lost after the last assertion does not change the outcome. *)
Work(p, e) ==
    /\ Running(p)
    /\ stage[p][e] = "working"
    /\ \E r \in Published \cup {thrown(p)} : Yield(p, e, r)
    /\ MoveTo(p, e, "releasing")
    /\ UNCHANGED <<proc, timer, current, exitVars, lockVars>>

(* The runner's finally block.  The lock service releases its lease,       *)
(* whichever execution it was issued to; a result without a run is final,  *)
(* the others get their counters.                                          *)
Release(p, e) ==
    /\ Running(p)
    /\ stage[p][e] = "releasing"
    /\ lease' = [lease EXCEPT ![p] = None]
    /\ holder' = IF holder = p THEN NoProcess ELSE holder
    /\ revoked' = [revoked EXCEPT ![p] = FALSE]
    /\ MoveTo(p, e, IF result[p][e] \in Published THEN "counting" ELSE "reporting")
    /\ UNCHANGED <<proc, timer, current, result, exitVars>>

(* createOperationalIngestionExecutor: a failed query throws the result    *)
(* away.                                                                   *)
LoadCounts(p, e) ==
    /\ Running(p)
    /\ stage[p][e] = "counting"
    /\ \/ UNCHANGED result
       \/ Yield(p, e, "ERROR")
    /\ MoveTo(p, e, "reporting")
    /\ UNCHANGED <<proc, timer, current, exitVars, lockVars>>

(* worker.shutdown with exit code `code`; scheduler.stop clears the timer  *)
(* and awaits the current execution.  A later call only upgrades the code. *)
requestedExitCode_first(p, code) == IF shutdown[p] = "none" THEN code ELSE shutdownExitCode[p]
requestedExitCode(p, code) == IF code # 0 THEN code ELSE shutdownExitCode[p]

timerAfterStop_kept(p) == timer[p]
timerAfterStop(p) == FALSE

Shutdown(p, code) ==
    /\ shutdownExitCode' = [shutdownExitCode EXCEPT ![p] = requestedExitCode(p, code)]
    /\ IF shutdown[p] = "none"
       THEN /\ shutdown' = [shutdown EXCEPT ![p] = "stopping"]
            /\ timer' = [timer EXCEPT ![p] = timerAfterStop(p)]
            /\ awaited' = [awaited EXCEPT ![p] = current[p]]
       ELSE UNCHANGED <<shutdown, timer, awaited>>

manualExitCode(r) ==
    CASE r = "COMPLETED" -> 0 [] r = "ACTIVE_EXECUTOR" -> 2 [] OTHER -> 1

(* executeScheduledRun and runOnce: report, and forget the execution.      *)
cleared_kept(p, e) == current[p]
cleared(p, e) == IF current[p] = e THEN None ELSE current[p]

ReportScheduled(p, e) ==
    /\ p \in Scheduled
    /\ Running(p)
    /\ stage[p][e] = "reporting"
    /\ MoveTo(p, e, "ended")
    /\ current' = [current EXCEPT ![p] = cleared(p, e)]
    /\ IF result[p][e] = Lost
       THEN Shutdown(p, 1)
       ELSE UNCHANGED <<shutdownExitCode, shutdown, timer, awaited>>
    /\ UNCHANGED <<proc, result, exitCode, lockVars>>

(* runManualIngestion and main: the code is chosen, the pool disconnected. *)
ReportManual(p, e) ==
    /\ p \in Manual
    /\ Running(p)
    /\ stage[p][e] = "reporting"
    /\ MoveTo(p, e, "ended")
    /\ current' = [current EXCEPT ![p] = None]
    /\ exitCode' = [exitCode EXCEPT ![p] = manualExitCode(result[p][e])]
    /\ shutdown' = [shutdown EXCEPT ![p] = "disconnecting"]
    /\ UNCHANGED <<proc, timer, result, awaited, shutdownExitCode, lockVars>>

(* SIGTERM and SIGINT have once-handlers in the worker.  Of two signals     *)
(* only the first has an effect here; a third, or one to the command, ends *)
(* the process (Kill).                                                     *)
Signal(p) ==
    /\ p \in Scheduled
    /\ Running(p)
    /\ Shutdown(p, 0)
    /\ UNCHANGED <<proc, execVars, exitCode, lockVars>>

(* A crash or an unhandled signal; the server ends the lock session. *)
Kill(p) ==
    /\ Running(p)
    /\ proc' = [proc EXCEPT ![p] = "killed"]
    /\ timer' = [timer EXCEPT ![p] = FALSE]
    /\ holder' = IF holder = p THEN NoProcess ELSE holder
    /\ UNCHANGED <<execVars, exitVars, lease, revoked>>

(* scheduler.stop resolves once the awaited execution has. *)
mayDisconnect_eager(p) == TRUE
mayDisconnect(p) == awaited[p] # None => stage[p][awaited[p]] = "ended"

Stopped(p) ==
    /\ Running(p)
    /\ shutdown[p] = "stopping"
    /\ mayDisconnect(p)
    /\ shutdown' = [shutdown EXCEPT ![p] = "disconnecting"]
    /\ UNCHANGED <<proc, timer, execVars, awaited, shutdownExitCode, exitCode, lockVars>>

(* disconnectPrisma, which may fail, and the final exit code. *)
Disconnect(p) ==
    /\ Running(p)
    /\ shutdown[p] = "disconnecting"
    /\ shutdown' = [shutdown EXCEPT ![p] = "done"]
    /\ \E ok \in BOOLEAN :
         exitCode' = [exitCode EXCEPT ![p] =
             IF ~ok THEN 1 ELSE IF p \in Manual THEN @ ELSE shutdownExitCode[p]]
    /\ UNCHANGED <<proc, timer, execVars, awaited, shutdownExitCode, lockVars>>

(* Nothing is left in the event loop: no timer, no session, no execution. *)
Exit(p) ==
    /\ Running(p)
    /\ shutdown[p] = "done"
    /\ ~timer[p] /\ lease[p] = None
    /\ \A e \in Execs : ~InProgress(p, e)
    /\ proc' = [proc EXCEPT ![p] = "exited"]
    /\ UNCHANGED <<timer, execVars, exitVars, lockVars>>

(* The server ends the session; the client notices later, if still leased. *)
EndSession(p) ==
    /\ holder = p
    /\ holder' = NoProcess
    /\ UNCHANGED <<proc, timer, execVars, exitVars, lease, revoked>>

NoticeLoss(p) ==
    /\ Running(p)
    /\ lease[p] # None /\ holder # p /\ ~revoked[p]
    /\ revoked' = [revoked EXCEPT ![p] = TRUE]
    /\ UNCHANGED <<proc, timer, execVars, exitVars, holder, lease>>

ProcessStep(p) ==
    \/ \E e \in Execs :
         \/ Acquire(p, e) \/ Work(p, e) \/ Release(p, e) \/ LoadCounts(p, e)
         \/ ReportScheduled(p, e) \/ ReportManual(p, e)
    \/ Stopped(p) \/ Disconnect(p) \/ Exit(p)

Next ==
    \E p \in Processes :
       \/ Tick(p) \/ ProcessStep(p)
       \/ Signal(p) \/ Kill(p) \/ EndSession(p) \/ NoticeLoss(p)

Spec == Init /\ [][Next]_vars

(* Awaited calls complete or fail: every query and request has a timeout.  *)
Fairness == \A p \in Processes : WF_vars(ProcessStep(p))
FairSpec == Spec /\ Fairness

-----------------------------------------------------------------------------
(* Exit code 0 says that no execution lost its authority, also when the    *)
(* loss was reported during a graceful stop, and, for the command, that    *)
(* its ingestion was accepted.                                             *)
ZeroExitIsClean ==
    \A p \in Processes : proc[p] = "exited" /\ exitCode[p] = 0 =>
        /\ \A e \in Execs : result[p][e] # Lost
        /\ p \in Manual => result[p][1] = "COMPLETED"

(* The database pool is not closed under an execution. *)
DisconnectedIsIdle ==
    \A p \in Processes : shutdown[p] \in {"disconnecting", "done"} =>
        \A e \in Execs : ~InProgress(p, e)

(* release() does not say whose lease it releases; it is the caller's own, *)
(* because executions of one process never overlap.                        *)
LeaseReleasedByOwner ==
    [][\A p \in Processes : lease[p] # None /\ lease'[p] # lease[p]
           => stage[p][lease[p]] = "releasing"]_vars

(* A shutdown that was requested ends the process. *)
ShutdownCompletes ==
    \A p \in Processes : shutdown[p] # "none" ~> ~Running(p)

(* The scheduler gets rid of every execution, so that a later tick can run *)
(* the next.                                                               *)
ExecutionIsForgotten ==
    \A p \in Processes : current[p] # None ~> current[p] = None \/ ~Running(p)
=============================================================================
