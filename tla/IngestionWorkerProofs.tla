------------------------ MODULE IngestionWorkerProofs ------------------------
(***************************************************************************)
(* Proofs about IngestionWorker for any processes and any number of        *)
(* executions.                                                             *)
(*                                                                         *)
(* Everything rests on SingleFlight: the execution in progress is the one  *)
(* the scheduler remembers.  StopInv carries it through a shutdown (the    *)
(* awaited execution is the last one), LeaseInv to the lock, and ScheduledCode *)
(* and ManualCode relate outcomes to exit codes.                           *)
(***************************************************************************)
EXTENDS IngestionWorker, TLAPS

SingleFlight ==
    \A p \in Processes, e \in Execs : InProgress(p, e) <=> current[p] = e

StopInv ==
    \A p \in Processes :
      /\ shutdown[p] = "stopping" => current[p] \in {None, awaited[p]}
      /\ shutdown[p] \in {"disconnecting", "done"} => current[p] = None
      /\ shutdown[p] # "none" \/ p \in Manual => ~timer[p]

LeaseInv ==
    \A p \in Processes, e \in Execs : lease[p] = e => stage[p][e] \in {"working", "releasing"}

(* A loss is either still to be reported or has set the code. *)
ScheduledCode ==
    \A p \in Scheduled :
      /\ \A e \in Execs : result[p][e] = Lost => InProgress(p, e) \/ shutdownExitCode[p] = 1
      /\ shutdown[p] = "done" => exitCode[p] \in {1, shutdownExitCode[p]}

(* The command runs one execution and takes its code from it. *)
ManualCode ==
    \A p \in Manual :
      /\ shutdown[p] # "stopping"
      /\ \A e \in Execs : e # 1 => stage[p][e] = "none"
      /\ shutdown[p] # "none" => exitCode[p] \in {1, manualExitCode(result[p][1])}

Untouched ==
    /\ \A p \in Processes, e \in Execs : stage[p][e] = "none" => result[p][e] = "none"
    /\ \A p \in Processes : proc[p] = "exited" => shutdown[p] = "done"

IInv == /\ TypeOK /\ SingleFlight /\ StopInv /\ LeaseInv
        /\ ScheduledCode /\ ManualCode /\ Untouched

-----------------------------------------------------------------------------
(* What the kinds of steps change *)

LEMMA MoveEffect ==
  ASSUME TypeOK, NEW p \in Processes, NEW e \in Execs, NEW s \in Stages, MoveTo(p, e, s)
  PROVE  /\ stage' \in [Processes -> [Execs -> Stages]]
         /\ stage'[p][e] = s
         /\ \A q \in Processes, d \in Execs : q # p \/ d # e => stage'[q][d] = stage[q][d]
  BY DEF TypeOK, MoveTo

LEMMA YieldEffect ==
  ASSUME TypeOK, NEW p \in Processes, NEW e \in Execs, NEW r \in Results, Yield(p, e, r)
  PROVE  /\ result' \in [Processes -> [Execs -> Results]]
         /\ result'[p][e] = r
         /\ \A q \in Processes, d \in Execs : q # p \/ d # e => result'[q][d] = result[q][d]
  BY DEF TypeOK, Yield

(* An execution goes on: the rest of its process does not notice. *)
Advance(p, e) == Acquire(p, e) \/ Work(p, e) \/ Release(p, e) \/ LoadCounts(p, e)

LEMMA AdvanceEffect ==
  ASSUME TypeOK, NEW p \in Processes, NEW e \in Execs, Advance(p, e)
  PROVE  /\ InProgress(p, e)
         /\ stage' \in [Processes -> [Execs -> Stages]]
         /\ stage'[p][e] \notin {"none", "ended"}
         /\ \A q \in Processes, d \in Execs : q # p \/ d # e => stage'[q][d] = stage[q][d]
         /\ result' \in [Processes -> [Execs -> Results]]
         /\ \A q \in Processes, d \in Execs : q # p \/ d # e => result'[q][d] = result[q][d]
         /\ UNCHANGED <<proc, timer, current, exitVars>>
  <1> DEFINE kept == /\ result' \in [Processes -> [Execs -> Results]]
                     /\ \A q \in Processes, d \in Execs :
                          q # p \/ d # e => result'[q][d] = result[q][d]
  <1>1. UNCHANGED result => kept
    BY DEF TypeOK
  <1>2. \A r \in Results : Yield(p, e, r) => kept
    BY YieldEffect
  <1>3. thrown(p) \in Results /\ "ERROR" \in Results /\ "ACTIVE_EXECUTOR" \in Results
        /\ Published \subseteq Results
    BY DEF thrown, Results
  <1>4. kept
    BY <1>1, <1>2, <1>3 DEF Advance, Acquire, Work, Release, LoadCounts
  <1>5. PICK s \in Stages \ {"none", "ended"} : MoveTo(p, e, s)
    BY DEF Advance, Acquire, Work, Release, LoadCounts, Stages
  <1>6. InProgress(p, e) /\ UNCHANGED <<proc, timer, current, exitVars>>
    BY DEF Advance, Acquire, Work, Release, LoadCounts, InProgress
  <1> QED BY <1>4, <1>5, <1>6, MoveEffect

(* What Shutdown does to the process that calls it, and to no other. *)
LEMMA ShutdownEffect ==
  ASSUME TypeOK, NEW p \in Processes, NEW code \in {0, 1}, Shutdown(p, code)
  PROVE  /\ shutdown' \in [Processes -> {"none", "stopping", "disconnecting", "done"}]
         /\ timer' \in [Processes -> BOOLEAN]
         /\ awaited' \in [Processes -> Execs \cup {None}]
         /\ shutdownExitCode' \in [Processes -> {0, 1}]
         /\ shutdownExitCode'[p] = (IF code # 0 THEN code ELSE shutdownExitCode[p])
         /\ shutdown[p] = "none" =>
              shutdown'[p] = "stopping" /\ ~timer'[p] /\ awaited'[p] = current[p]
         /\ shutdown[p] # "none" => UNCHANGED <<shutdown, timer, awaited>>
         /\ \A q \in Processes : q # p =>
              /\ shutdown'[q] = shutdown[q] /\ timer'[q] = timer[q]
              /\ awaited'[q] = awaited[q] /\ shutdownExitCode'[q] = shutdownExitCode[q]
  BY ZenonT(30) DEF TypeOK, Shutdown, requestedExitCode, timerAfterStop

LEMMA ReportEffect ==
  ASSUME TypeOK, NEW p \in Processes, NEW e \in Execs, ReportScheduled(p, e)
  PROVE  /\ p \in Scheduled /\ stage[p][e] = "reporting" /\ InProgress(p, e)
         /\ stage' \in [Processes -> [Execs -> Stages]] /\ stage'[p][e] = "ended"
         /\ \A q \in Processes, d \in Execs : q # p \/ d # e => stage'[q][d] = stage[q][d]
         /\ current' \in [Processes -> Execs \cup {None}]
         /\ current'[p] = (IF current[p] = e THEN None ELSE current[p])
         /\ \A q \in Processes : q # p => current'[q] = current[q]
         /\ result[p][e] = Lost => Shutdown(p, 1)
         /\ result[p][e] # Lost => UNCHANGED <<shutdownExitCode, shutdown, timer, awaited>>
         /\ UNCHANGED <<proc, result, exitCode, lockVars>>
  <1>1. MoveTo(p, e, "ended") /\ "ended" \in Stages
    BY DEF ReportScheduled, Stages
  <1>2. p \in Scheduled /\ stage[p][e] = "reporting" /\ InProgress(p, e)
    BY DEF ReportScheduled, InProgress
  <1>3. /\ current' \in [Processes -> Execs \cup {None}]
        /\ current'[p] = (IF current[p] = e THEN None ELSE current[p])
        /\ \A q \in Processes : q # p => current'[q] = current[q]
    BY DEF ReportScheduled, cleared, TypeOK
  <1> QED BY <1>1, <1>2, <1>3, MoveEffect DEF ReportScheduled

LEMMA ReportManualEffect ==
  ASSUME TypeOK, NEW p \in Processes, NEW e \in Execs, ReportManual(p, e)
  PROVE  /\ p \in Manual /\ stage[p][e] = "reporting" /\ InProgress(p, e)
         /\ stage' \in [Processes -> [Execs -> Stages]] /\ stage'[p][e] = "ended"
         /\ \A q \in Processes, d \in Execs : q # p \/ d # e => stage'[q][d] = stage[q][d]
         /\ current' \in [Processes -> Execs \cup {None}] /\ current'[p] = None
         /\ exitCode' \in [Processes -> {0, 1, 2}]
         /\ exitCode'[p] = manualExitCode(result[p][e])
         /\ shutdown' \in [Processes -> {"none", "stopping", "disconnecting", "done"}]
         /\ shutdown'[p] = "disconnecting"
         /\ \A q \in Processes : q # p =>
              /\ current'[q] = current[q] /\ exitCode'[q] = exitCode[q]
              /\ shutdown'[q] = shutdown[q]
         /\ UNCHANGED <<proc, timer, result, awaited, shutdownExitCode, lockVars>>
  <1>1. MoveTo(p, e, "ended") /\ "ended" \in Stages
    BY DEF ReportManual, Stages
  <1>2. p \in Manual /\ stage[p][e] = "reporting" /\ InProgress(p, e)
    BY DEF ReportManual, InProgress
  <1>3. PICK code \in {0, 1, 2} : code = manualExitCode(result[p][e])
    BY DEF manualExitCode
  <1>4. /\ current' = [current EXCEPT ![p] = None]
        /\ exitCode' = [exitCode EXCEPT ![p] = code]
        /\ shutdown' = [shutdown EXCEPT ![p] = "disconnecting"]
    BY <1>3 DEF ReportManual
  <1>5. /\ current' \in [Processes -> Execs \cup {None}] /\ current'[p] = None
        /\ exitCode' \in [Processes -> {0, 1, 2}] /\ exitCode'[p] = code
        /\ shutdown' \in [Processes -> {"none", "stopping", "disconnecting", "done"}]
        /\ shutdown'[p] = "disconnecting"
        /\ \A q \in Processes : q # p =>
             /\ current'[q] = current[q] /\ exitCode'[q] = exitCode[q]
             /\ shutdown'[q] = shutdown[q]
    BY <1>4 DEF TypeOK
  <1> QED BY <1>1, <1>2, <1>3, <1>5, MoveEffect DEF ReportManual

LEMMA TickEffect ==
  ASSUME TypeOK, NEW p \in Processes, Tick(p)
  PROVE  \E e \in Execs :
         /\ timer[p] /\ current[p] = None /\ stage[p][e] = "none"
         /\ stage' \in [Processes -> [Execs -> Stages]] /\ stage'[p][e] = "acquiring"
         /\ \A q \in Processes, d \in Execs : q # p \/ d # e => stage'[q][d] = stage[q][d]
         /\ current'[p] = e
         /\ \A q \in Processes : q # p => current'[q] = current[q]
         /\ UNCHANGED <<proc, timer, result, exitVars, lockVars>>
  <1>1. PICK e \in Execs : /\ stage[p][e] = "none"
                           /\ MoveTo(p, e, "acquiring")
                           /\ current' = [current EXCEPT ![p] = e]
    BY DEF Tick
  <1>2. "acquiring" \in Stages
    BY DEF Stages
  <1>3. current'[p] = e /\ \A q \in Processes : q # p => current'[q] = current[q]
    BY <1>1 DEF TypeOK
  <1> QED BY <1>1, <1>2, <1>3, MoveEffect DEF Tick, maySchedule

(* Steps that leave executions and exit codes alone. *)
Quiet(p) == Exit(p) \/ Kill(p) \/ EndSession(p) \/ NoticeLoss(p)

LEMMA QuietEffect ==
  ASSUME TypeOK, NEW p \in Processes, Quiet(p)
  PROVE  /\ UNCHANGED <<execVars, exitVars, lease>>
         /\ \A q \in Processes : timer'[q] => timer[q]
         /\ \A q \in Processes : proc'[q] = "exited" => proc[q] = "exited" \/ shutdown[q] = "done"
  <1>1. CASE Exit(p)
    BY <1>1 DEF TypeOK, Exit, execVars, exitVars, lockVars
  <1>2. CASE Kill(p)
    BY <1>2 DEF TypeOK, Kill, execVars, exitVars
  <1>3. CASE EndSession(p) \/ NoticeLoss(p)
    BY <1>3 DEF EndSession, NoticeLoss, execVars, exitVars
  <1> QED BY <1>1, <1>2, <1>3 DEF Quiet

(* Steps of a shutdown after it has begun. *)
LEMMA ClosingEffect ==
  ASSUME TypeOK, NEW p \in Processes, Stopped(p) \/ Disconnect(p)
  PROVE  /\ UNCHANGED <<proc, timer, execVars, awaited, shutdownExitCode, lockVars>>
         /\ \A q \in Processes : q # p => shutdown'[q] = shutdown[q] /\ exitCode'[q] = exitCode[q]
         /\ \/ /\ shutdown[p] = "stopping" /\ mayDisconnect(p)
               /\ shutdown'[p] = "disconnecting" /\ exitCode'[p] = exitCode[p]
            \/ /\ shutdown[p] = "disconnecting" /\ shutdown'[p] = "done"
               /\ exitCode'[p] \in {1, IF p \in Manual THEN exitCode[p] ELSE shutdownExitCode[p]}
  BY DEF TypeOK, Stopped, Disconnect

LEMMA NoneIsNoExecution == None \notin Execs /\ \A p \in Scheduled : p \notin Manual
  BY WorkerAssumption DEF None, Execs

-----------------------------------------------------------------------------
(* Type correctness *)

lockTypes ==
    /\ holder \in Processes \cup {NoProcess}
    /\ lease \in [Processes -> Execs \cup {None}]
    /\ revoked \in [Processes -> BOOLEAN]

LEMMA NextTypeOK == TypeOK /\ [Next]_vars => TypeOK'
  <1> SUFFICES ASSUME TypeOK, [Next]_vars PROVE TypeOK'
    OBVIOUS
  <1>1. ASSUME NEW p \in Processes, NEW e \in Execs, Advance(p, e) PROVE TypeOK'
    <2>1. ASSUME Acquire(p, e) PROVE lockTypes'
      <3>1. CASE UNCHANGED lockVars
        BY <3>1 DEF lockTypes, TypeOK, lockVars
      <3>2. CASE /\ holder' = p /\ lease' = [lease EXCEPT ![p] = e]
                 /\ revoked' = [revoked EXCEPT ![p] = FALSE]
        BY <3>2 DEF lockTypes, TypeOK
      <3> QED BY <2>1, <3>1, <3>2 DEF Acquire
    <2>2. ASSUME Release(p, e) PROVE lockTypes'
      BY <2>2 DEF Release, lockTypes, TypeOK
    <2>3. ASSUME Work(p, e) \/ LoadCounts(p, e) PROVE lockTypes'
      BY <2>3 DEF Work, LoadCounts, lockTypes, TypeOK, lockVars
    <2>4. lockTypes'
      BY <1>1, <2>1, <2>2, <2>3 DEF Advance
    <2> QED BY <1>1, <2>4, AdvanceEffect DEF TypeOK, lockTypes, exitVars
  <1>2. ASSUME NEW p \in Processes, NEW e \in Execs, ReportScheduled(p, e) PROVE TypeOK'
    <2>2. CASE result[p][e] = Lost
      <3>1. Shutdown(p, 1)
        BY <1>2, <2>2, ReportEffect
      <3> QED BY <1>2, <3>1, ReportEffect, ShutdownEffect DEF TypeOK, lockVars
    <2>3. CASE result[p][e] # Lost
      BY <1>2, <2>3, ReportEffect DEF TypeOK, lockVars
    <2> QED BY <2>2, <2>3
  <1>3. ASSUME NEW p \in Processes, NEW e \in Execs, ReportManual(p, e) PROVE TypeOK'
    BY <1>3, ReportManualEffect DEF TypeOK, lockVars
  <1>4. ASSUME NEW p \in Processes, Tick(p) PROVE TypeOK'
    <2>1. PICK e \in Execs : MoveTo(p, e, "acquiring") /\ current' = [current EXCEPT ![p] = e]
      BY <1>4 DEF Tick
    <2>2. "acquiring" \in Stages
      BY DEF Stages
    <2> QED BY <1>4, <2>1, <2>2, MoveEffect DEF Tick, TypeOK, exitVars, lockVars
  <1>5. ASSUME NEW p \in Processes, Signal(p) PROVE TypeOK'
    <2>1. Shutdown(p, 0)
      BY <1>5 DEF Signal
    <2> QED BY <1>5, <2>1, ShutdownEffect DEF Signal, TypeOK, execVars, lockVars
  <1>6. ASSUME NEW p \in Processes, Stopped(p) PROVE TypeOK'
    BY <1>6 DEF Stopped, TypeOK, execVars, lockVars
  <1>7. ASSUME NEW p \in Processes, Disconnect(p) PROVE TypeOK'
    BY <1>7 DEF Disconnect, TypeOK, execVars, lockVars
  <1>8. ASSUME NEW p \in Processes, Exit(p) PROVE TypeOK'
    BY <1>8 DEF Exit, TypeOK, execVars, exitVars, lockVars
  <1>9. ASSUME NEW p \in Processes, Kill(p) PROVE TypeOK'
    BY <1>9 DEF Kill, TypeOK, execVars, exitVars
  <1>10. ASSUME NEW p \in Processes, EndSession(p) \/ NoticeLoss(p) PROVE TypeOK'
    BY <1>10 DEF EndSession, NoticeLoss, TypeOK, execVars, exitVars
  <1>11. CASE UNCHANGED vars
    BY <1>11 DEF vars, TypeOK, execVars, exitVars, lockVars
  <1> QED BY <1>1, <1>2, <1>3, <1>4, <1>5, <1>6, <1>7, <1>8, <1>9, <1>10, <1>11
          DEF Next, ProcessStep, Advance

-----------------------------------------------------------------------------
(* Preservation *)

LEMMA SingleFlightStep == IInv /\ TypeOK' /\ [Next]_vars => SingleFlight'
  <1> SUFFICES ASSUME IInv, TypeOK', [Next]_vars PROVE SingleFlight'
    OBVIOUS
  <1> USE NoneIsNoExecution DEF IInv
  <1>1. ASSUME NEW p \in Processes, NEW e \in Execs, Advance(p, e) PROVE SingleFlight'
    BY <1>1, AdvanceEffect DEF SingleFlight, InProgress
  <1>2. ASSUME NEW p \in Processes, NEW e \in Execs, ReportScheduled(p, e) PROVE SingleFlight'
    BY <1>2, ReportEffect DEF SingleFlight, InProgress
  <1>3. ASSUME NEW p \in Processes, NEW e \in Execs, ReportManual(p, e) PROVE SingleFlight'
    BY <1>3, ReportManualEffect DEF SingleFlight, InProgress
  <1>4. ASSUME NEW p \in Processes, Tick(p) PROVE SingleFlight'
    BY <1>4, TickEffect DEF SingleFlight, InProgress
  <1>5. ASSUME NEW p \in Processes, Signal(p) PROVE SingleFlight'
    BY <1>5 DEF Signal, execVars, SingleFlight, InProgress
  <1>6. ASSUME NEW p \in Processes, Stopped(p) \/ Disconnect(p) PROVE SingleFlight'
    BY <1>6, ClosingEffect DEF execVars, SingleFlight, InProgress
  <1>7. ASSUME NEW p \in Processes, Quiet(p) PROVE SingleFlight'
    BY <1>7, QuietEffect DEF execVars, SingleFlight, InProgress
  <1>8. CASE UNCHANGED vars
    BY <1>8 DEF vars, execVars, SingleFlight, InProgress
  <1> QED BY <1>1, <1>2, <1>3, <1>4, <1>5, <1>6, <1>7, <1>8
          DEF Next, ProcessStep, Advance, Quiet

LEMMA StopStep == IInv /\ TypeOK' /\ [Next]_vars => StopInv'
  <1> SUFFICES ASSUME IInv, TypeOK', [Next]_vars PROVE StopInv'
    OBVIOUS
  <1> USE NoneIsNoExecution DEF IInv
  <1>1. ASSUME NEW p \in Processes, NEW e \in Execs, Advance(p, e) PROVE StopInv'
    BY <1>1, AdvanceEffect DEF StopInv, exitVars
  <1>2. ASSUME NEW p \in Processes, NEW e \in Execs, ReportScheduled(p, e) PROVE StopInv'
    <2>1. current[p] = e /\ current'[p] = None
      BY <1>2, ReportEffect DEF SingleFlight
    <2>2. CASE result[p][e] = Lost
      <3>1. Shutdown(p, 1)
        BY <1>2, <2>2, ReportEffect
      <3>2. \A q \in Processes : q # p =>
              shutdown'[q] = shutdown[q] /\ timer'[q] = timer[q] /\ awaited'[q] = awaited[q]
        BY <3>1, ShutdownEffect
      <3>3. \A q \in Processes : q # p => current'[q] = current[q]
        BY <1>2, ReportEffect
      <3>4. p \notin Manual /\ shutdown[p] \notin {"disconnecting", "done"}
        BY <1>2, <2>1, ReportEffect DEF StopInv
      <3>5. shutdown'[p] = "stopping" /\ ~timer'[p]
        BY <3>1, <3>4, ShutdownEffect DEF StopInv, TypeOK
      <3> QED BY <2>1, <3>2, <3>3, <3>4, <3>5 DEF StopInv
    <2>3. CASE result[p][e] # Lost
      BY <1>2, <2>1, <2>3, ReportEffect DEF StopInv
    <2> QED BY <2>2, <2>3
  <1>3. ASSUME NEW p \in Processes, NEW e \in Execs, ReportManual(p, e) PROVE StopInv'
    BY <1>3, ReportManualEffect DEF StopInv
  <1>4. ASSUME NEW p \in Processes, Tick(p) PROVE StopInv'
    BY <1>4, TickEffect DEF StopInv, exitVars
  <1>5. ASSUME NEW p \in Processes, Signal(p) PROVE StopInv'
    BY <1>5, ShutdownEffect DEF Signal, execVars, StopInv
  <1>6. ASSUME NEW p \in Processes, Stopped(p) \/ Disconnect(p) PROVE StopInv'
    <2>1. shutdown[p] = "stopping" /\ mayDisconnect(p) => current[p] = None
      BY DEF mayDisconnect, StopInv, SingleFlight, InProgress, TypeOK
    <2> QED BY <1>6, <2>1, ClosingEffect DEF execVars, StopInv
  <1>7. ASSUME NEW p \in Processes, Quiet(p) PROVE StopInv'
    BY <1>7, QuietEffect DEF execVars, exitVars, StopInv
  <1>8. CASE UNCHANGED vars
    BY <1>8 DEF vars, execVars, exitVars, StopInv
  <1> QED BY <1>1, <1>2, <1>3, <1>4, <1>5, <1>6, <1>7, <1>8
          DEF Next, ProcessStep, Advance, Quiet

LEMMA LeaseStep == IInv /\ TypeOK' /\ [Next]_vars => LeaseInv'
  <1> SUFFICES ASSUME IInv, TypeOK', [Next]_vars PROVE LeaseInv'
    OBVIOUS
  <1> USE NoneIsNoExecution DEF IInv
  <1>1. ASSUME NEW p \in Processes, NEW e \in Execs, Advance(p, e) PROVE LeaseInv'
    <2>1. CASE Acquire(p, e) /\ UNCHANGED lockVars
      BY <1>1, <2>1, AdvanceEffect DEF LeaseInv, Acquire, lockVars
    <2>2. CASE Acquire(p, e) /\ MoveTo(p, e, "working") /\ lease' = [lease EXCEPT ![p] = e]
      <3>1. stage'[p][e] = "working"
        BY <2>2, MoveEffect DEF Stages
      <3>2. lease'[p] = e /\ \A q \in Processes : q # p => lease'[q] = lease[q]
        BY <2>2 DEF TypeOK
      <3> QED BY <1>1, <3>1, <3>2, AdvanceEffect DEF LeaseInv
    <2>3. CASE Work(p, e)
      <3>1. stage'[p][e] = "releasing" /\ UNCHANGED lease
        BY <2>3, MoveEffect DEF Work, Stages, lockVars
      <3> QED BY <1>1, <3>1, AdvanceEffect DEF LeaseInv
    <2>4. CASE Release(p, e)
      <3>1. lease'[p] = None /\ \A q \in Processes : q # p => lease'[q] = lease[q]
        BY <2>4 DEF Release, TypeOK
      <3> QED BY <1>1, <3>1, AdvanceEffect DEF LeaseInv
    <2>5. CASE LoadCounts(p, e)
      BY <1>1, <2>5, AdvanceEffect DEF LeaseInv, LoadCounts, lockVars
    <2> QED BY <1>1, <2>1, <2>2, <2>3, <2>4, <2>5 DEF Advance, Acquire
  <1>2. ASSUME NEW p \in Processes, NEW e \in Execs, ReportScheduled(p, e) PROVE LeaseInv'
    BY <1>2, ReportEffect DEF LeaseInv, lockVars
  <1>3. ASSUME NEW p \in Processes, NEW e \in Execs, ReportManual(p, e) PROVE LeaseInv'
    BY <1>3, ReportManualEffect DEF LeaseInv, lockVars
  <1>4. ASSUME NEW p \in Processes, Tick(p) PROVE LeaseInv'
    BY <1>4, TickEffect DEF LeaseInv, lockVars
  <1>5. ASSUME NEW p \in Processes, Signal(p) PROVE LeaseInv'
    BY <1>5 DEF Signal, execVars, lockVars, LeaseInv
  <1>6. ASSUME NEW p \in Processes, Stopped(p) \/ Disconnect(p) PROVE LeaseInv'
    BY <1>6, ClosingEffect DEF execVars, lockVars, LeaseInv
  <1>7. ASSUME NEW p \in Processes, Quiet(p) PROVE LeaseInv'
    BY <1>7, QuietEffect DEF execVars, LeaseInv
  <1>8. CASE UNCHANGED vars
    BY <1>8 DEF vars, execVars, lockVars, LeaseInv
  <1> QED BY <1>1, <1>2, <1>3, <1>4, <1>5, <1>6, <1>7, <1>8
          DEF Next, ProcessStep, Advance, Quiet

LEMMA ScheduledCodeStep == IInv /\ TypeOK' /\ [Next]_vars => ScheduledCode'
  <1> SUFFICES ASSUME IInv, TypeOK', [Next]_vars PROVE ScheduledCode'
    OBVIOUS
  <1> USE NoneIsNoExecution DEF IInv
  <1>1. ASSUME NEW p \in Processes, NEW e \in Execs, Advance(p, e) PROVE ScheduledCode'
    BY <1>1, AdvanceEffect DEF ScheduledCode, InProgress, exitVars, Processes
  <1>2. ASSUME NEW p \in Processes, NEW e \in Execs, ReportScheduled(p, e) PROVE ScheduledCode'
    <2>1. current[p] = e /\ shutdown[p] # "done"
      BY <1>2, ReportEffect DEF SingleFlight, StopInv
    <2>2. CASE result[p][e] = Lost
      <3>1. Shutdown(p, 1)
        BY <1>2, <2>2, ReportEffect
      <3>2. shutdownExitCode'[p] = 1 /\ shutdown'[p] # "done"
        BY <2>1, <3>1, ShutdownEffect
      <3>3. \A q \in Processes : q # p =>
              shutdown'[q] = shutdown[q] /\ shutdownExitCode'[q] = shutdownExitCode[q]
        BY <3>1, ShutdownEffect
      <3> QED BY <1>2, <3>2, <3>3, ReportEffect DEF ScheduledCode, InProgress, Processes
    <2>3. CASE result[p][e] # Lost
      BY <1>2, <2>1, <2>3, ReportEffect DEF ScheduledCode, InProgress, Processes
    <2> QED BY <2>2, <2>3
  <1>3. ASSUME NEW p \in Processes, NEW e \in Execs, ReportManual(p, e) PROVE ScheduledCode'
    <2>1. /\ p \in Manual /\ UNCHANGED <<result, shutdownExitCode>>
          /\ \A q \in Processes : q # p =>
               /\ exitCode'[q] = exitCode[q] /\ shutdown'[q] = shutdown[q]
               /\ \A d \in Execs : stage'[q][d] = stage[q][d]
      BY <1>3, ReportManualEffect
    <2> QED BY <2>1 DEF ScheduledCode, InProgress, Processes
  <1>4. ASSUME NEW p \in Processes, Tick(p) PROVE ScheduledCode'
    BY <1>4, TickEffect DEF ScheduledCode, InProgress, exitVars, Processes
  <1>5. ASSUME NEW p \in Processes, Signal(p) PROVE ScheduledCode'
    <2>1. Shutdown(p, 0) /\ UNCHANGED <<execVars, exitCode>>
      BY <1>5 DEF Signal
    <2>2. \A q \in Processes : /\ shutdownExitCode'[q] = shutdownExitCode[q]
                               /\ shutdown'[q] = "done" => shutdown[q] = "done"
      BY <2>1, ShutdownEffect
    <2> QED BY <2>1, <2>2 DEF execVars, ScheduledCode, InProgress, Processes
  <1>6. ASSUME NEW p \in Processes, Stopped(p) \/ Disconnect(p) PROVE ScheduledCode'
    BY <1>6, ClosingEffect DEF execVars, ScheduledCode, InProgress, Processes
  <1>7. ASSUME NEW p \in Processes, Quiet(p) PROVE ScheduledCode'
    BY <1>7, QuietEffect DEF execVars, exitVars, ScheduledCode, InProgress
  <1>8. CASE UNCHANGED vars
    BY <1>8 DEF vars, execVars, exitVars, ScheduledCode, InProgress
  <1> QED BY <1>1, <1>2, <1>3, <1>4, <1>5, <1>6, <1>7, <1>8
          DEF Next, ProcessStep, Advance, Quiet

LEMMA ManualCodeStep == IInv /\ TypeOK' /\ [Next]_vars => ManualCode'
  <1> SUFFICES ASSUME IInv, TypeOK', [Next]_vars PROVE ManualCode'
    OBVIOUS
  <1> USE NoneIsNoExecution DEF IInv
  <1>0. 1 \in Execs
    BY WorkerAssumption DEF Execs
  <1>1. ASSUME NEW p \in Processes, NEW e \in Execs, Advance(p, e) PROVE ManualCode'
    <2>1. current[p] = e /\ stage[p][e] # "none"
      BY <1>1, AdvanceEffect DEF SingleFlight, InProgress
    <2>2. p \in Manual => e = 1 /\ shutdown[p] = "none"
      <3> SUFFICES ASSUME p \in Manual PROVE e = 1 /\ shutdown[p] = "none"
        OBVIOUS
      <3>1. shutdown[p] \in {"none", "stopping", "disconnecting", "done"}
        BY DEF TypeOK
      <3> QED BY <2>1, <3>1 DEF ManualCode, StopInv
    <2>3. /\ UNCHANGED <<shutdown, exitCode>>
          /\ \A q \in Processes, d \in Execs : q # p \/ d # e =>
               stage'[q][d] = stage[q][d] /\ result'[q][d] = result[q][d]
      BY <1>1, AdvanceEffect DEF exitVars
    <2> QED BY <1>0, <2>2, <2>3 DEF ManualCode, Processes
  <1>2. ASSUME NEW p \in Processes, NEW e \in Execs, ReportScheduled(p, e) PROVE ManualCode'
    <2>1. p \notin Manual /\ \A q \in Manual : q \in Processes /\ q # p
      BY <1>2, ReportEffect DEF Processes
    <2>2. \A q \in Manual : shutdown'[q] = shutdown[q]
      <3>1. CASE result[p][e] = Lost
        <4>1. Shutdown(p, 1)
          BY <1>2, <3>1, ReportEffect
        <4> QED BY <2>1, <4>1, ShutdownEffect
      <3>2. CASE result[p][e] # Lost
        BY <1>2, <3>2, ReportEffect
      <3> QED BY <3>1, <3>2
    <2>3. /\ \A q \in Manual, d \in Execs : stage'[q][d] = stage[q][d]
          /\ UNCHANGED <<result, exitCode>>
      BY <1>2, <2>1, ReportEffect
    <2> QED BY <2>2, <2>3 DEF ManualCode
  <1>3. ASSUME NEW p \in Processes, NEW e \in Execs, ReportManual(p, e) PROVE ManualCode'
    <2>1. e = 1
      BY <1>3, ReportManualEffect DEF ManualCode, InProgress
    <2>2. /\ UNCHANGED result
          /\ shutdown'[p] = "disconnecting" /\ exitCode'[p] = manualExitCode(result[p][e])
          /\ \A q \in Processes : q # p =>
               exitCode'[q] = exitCode[q] /\ shutdown'[q] = shutdown[q]
      BY <1>3, ReportManualEffect
    <2>3. \A q \in Processes, d \in Execs : d # 1 => stage'[q][d] = stage[q][d]
      BY <1>3, <2>1, ReportManualEffect
    <2>4. ASSUME NEW q \in Manual, shutdown'[q] # "none"
          PROVE  exitCode'[q] \in {1, manualExitCode(result'[q][1])}
      <3>1. CASE q = p
        BY <2>1, <2>2, <3>1
      <3>2. CASE q # p
        BY <2>2, <2>4, <3>2 DEF ManualCode, Processes
      <3> QED BY <3>1, <3>2
    <2>5. \A q \in Manual : shutdown'[q] # "stopping"
      BY <2>2 DEF ManualCode, Processes
    <2>6. \A q \in Manual, d \in Execs : d # 1 => stage'[q][d] = "none"
      BY <2>3 DEF ManualCode, Processes
    <2> QED BY <2>4, <2>5, <2>6 DEF ManualCode
  <1>4. ASSUME NEW p \in Processes, Tick(p) PROVE ManualCode'
    BY <1>4, TickEffect DEF ManualCode, StopInv, exitVars, Processes
  <1>5. ASSUME NEW p \in Processes, Signal(p) PROVE ManualCode'
    <2>1. Shutdown(p, 0) /\ p \in Scheduled /\ UNCHANGED <<execVars, exitCode>>
      BY <1>5 DEF Signal
    <2>2. \A q \in Manual : shutdown'[q] = shutdown[q]
      BY <2>1, ShutdownEffect DEF Processes
    <2> QED BY <2>1, <2>2 DEF execVars, ManualCode
  <1>6. ASSUME NEW p \in Processes, Stopped(p) \/ Disconnect(p) PROVE ManualCode'
    BY <1>6, ClosingEffect DEF execVars, ManualCode, Processes
  <1>7. ASSUME NEW p \in Processes, Quiet(p) PROVE ManualCode'
    BY <1>7, QuietEffect DEF execVars, exitVars, ManualCode
  <1>8. CASE UNCHANGED vars
    BY <1>8 DEF vars, execVars, exitVars, ManualCode
  <1> QED BY <1>1, <1>2, <1>3, <1>4, <1>5, <1>6, <1>7, <1>8
          DEF Next, ProcessStep, Advance, Quiet

LEMMA UntouchedStep == IInv /\ TypeOK' /\ [Next]_vars => Untouched'
  <1> SUFFICES ASSUME IInv, TypeOK', [Next]_vars PROVE Untouched'
    OBVIOUS
  <1> USE NoneIsNoExecution DEF IInv
  <1>1. ASSUME NEW p \in Processes, NEW e \in Execs, Advance(p, e) PROVE Untouched'
    BY <1>1, AdvanceEffect DEF Untouched, exitVars
  <1>2. ASSUME NEW p \in Processes, NEW e \in Execs, ReportScheduled(p, e) PROVE Untouched'
    <2>1. \A q \in Processes : shutdown[q] = "done" => shutdown'[q] = "done"
      <3>1. CASE result[p][e] = Lost
        <4>1. Shutdown(p, 1)
          BY <1>2, <3>1, ReportEffect
        <4> QED BY <4>1, ShutdownEffect
      <3>2. CASE result[p][e] # Lost
        BY <1>2, <3>2, ReportEffect
      <3> QED BY <3>1, <3>2
    <2> QED BY <1>2, <2>1, ReportEffect DEF Untouched
  <1>3. ASSUME NEW p \in Processes, NEW e \in Execs, ReportManual(p, e) PROVE Untouched'
    <2>1. proc[p] # "exited"
      BY <1>3 DEF ReportManual, Running
    <2>2. /\ UNCHANGED <<proc, result>>
          /\ \A q \in Processes : q # p => shutdown'[q] = shutdown[q]
          /\ \A q \in Processes, d \in Execs : stage'[q][d] = "none" => stage[q][d] = "none"
      BY <1>3, ReportManualEffect
    <2> QED BY <2>1, <2>2 DEF Untouched
  <1>4. ASSUME NEW p \in Processes, Tick(p) PROVE Untouched'
    BY <1>4, TickEffect DEF Untouched, exitVars
  <1>5. ASSUME NEW p \in Processes, Signal(p) PROVE Untouched'
    <2>1. Shutdown(p, 0) /\ UNCHANGED <<proc, execVars>>
      BY <1>5 DEF Signal
    <2>2. \A q \in Processes : shutdown[q] = "done" => shutdown'[q] = "done"
      BY <2>1, ShutdownEffect
    <2> QED BY <2>1, <2>2 DEF execVars, Untouched
  <1>6. ASSUME NEW p \in Processes, Stopped(p) \/ Disconnect(p) PROVE Untouched'
    BY <1>6, ClosingEffect DEF execVars, Untouched
  <1>7. ASSUME NEW p \in Processes, Quiet(p) PROVE Untouched'
    BY <1>7, QuietEffect DEF execVars, exitVars, Untouched
  <1>8. CASE UNCHANGED vars
    BY <1>8 DEF vars, execVars, exitVars, Untouched
  <1> QED BY <1>1, <1>2, <1>3, <1>4, <1>5, <1>6, <1>7, <1>8
          DEF Next, ProcessStep, Advance, Quiet

-----------------------------------------------------------------------------
(* The inductive invariant and what follows from it *)

LEMMA InitIInv == Init => IInv
  <1> SUFFICES ASSUME Init PROVE IInv
    OBVIOUS
  <1>0. 1 \in Execs /\ None \notin Execs
    BY WorkerAssumption DEF Execs, None
  <1>1. TypeOK
    BY <1>0 DEF Init, TypeOK, Stages, Results
  <1>2. SingleFlight
    BY <1>0 DEF Init, SingleFlight, InProgress
  <1>3. StopInv /\ LeaseInv /\ Untouched
    BY <1>0, WorkerAssumption DEF Init, StopInv, LeaseInv, Untouched, Processes
  <1>4. ScheduledCode /\ ManualCode
    BY <1>0 DEF Init, ScheduledCode, ManualCode, Lost, Processes
  <1> QED BY <1>1, <1>2, <1>3, <1>4 DEF IInv

LEMMA NextIInv == IInv /\ [Next]_vars => IInv'
  <1> SUFFICES ASSUME IInv, [Next]_vars PROVE IInv'
    OBVIOUS
  <1>1. TypeOK'
    BY NextTypeOK DEF IInv
  <1> QED BY <1>1, SingleFlightStep, StopStep, LeaseStep, ScheduledCodeStep,
             ManualCodeStep, UntouchedStep DEF IInv

THEOREM Invariance == Spec => []IInv
  BY InitIInv, NextIInv, PTL DEF Spec

(* Types, for any processes and number of executions. *)
THEOREM TypeCorrect == Spec => []TypeOK
  <1>1. IInv => TypeOK
    BY DEF IInv
  <1> QED BY <1>1, Invariance, PTL

(* Exit code 0 never hides a lost authority, nor an ingestion of the       *)
(* command that was not accepted.                                          *)
THEOREM ExitCodeIsHonest == Spec => []ZeroExitIsClean
  <1>1. IInv => ZeroExitIsClean
    <2> SUFFICES ASSUME IInv, NEW p \in Processes, proc[p] = "exited", exitCode[p] = 0
                 PROVE  /\ \A e \in Execs : result[p][e] # Lost
                        /\ p \in Manual => result[p][1] = "COMPLETED"
      BY DEF ZeroExitIsClean
    <2>1. shutdown[p] = "done" /\ \A e \in Execs : ~InProgress(p, e)
      BY NoneIsNoExecution DEF IInv, Untouched, StopInv, SingleFlight
    <2>2. CASE p \in Scheduled
      BY <2>1, <2>2, NoneIsNoExecution DEF IInv, ScheduledCode
    <2>3. CASE p \in Manual
      <3>1. result[p][1] = "COMPLETED"
        BY <2>1, <2>3 DEF IInv, ManualCode, manualExitCode
      <3>2. \A e \in Execs : e # 1 => result[p][e] = "none"
        BY <2>3 DEF IInv, ManualCode, Untouched
      <3> QED BY <3>1, <3>2 DEF Lost
    <2> QED BY <2>2, <2>3 DEF Processes
  <1> QED BY <1>1, Invariance, PTL

(* The pool is closed only when no execution of the process is in progress. *)
THEOREM PoolOutlivesExecutions == Spec => []DisconnectedIsIdle
  <1>1. IInv => DisconnectedIsIdle
    BY NoneIsNoExecution DEF IInv, DisconnectedIsIdle, StopInv, SingleFlight
  <1> QED BY <1>1, Invariance, PTL

(* A lease ends only when the execution it was issued to releases it,      *)
(* although release() does not identify the execution.                     *)
THEOREM LeaseIsOwn == Spec => LeaseReleasedByOwner
  <1> DEFINE own == \A p \in Processes : lease[p] # None /\ lease'[p] # lease[p]
                       => stage[p][lease[p]] = "releasing"
  <1>1. IInv /\ [Next]_vars => [own]_vars
    <2> SUFFICES ASSUME IInv, Next, NEW p \in Processes,
                        lease[p] # None, lease'[p] # lease[p]
                 PROVE  stage[p][lease[p]] = "releasing"
      BY DEF own
    <2> USE DEF IInv
    <2>1. PICK d \in Execs : d = lease[p]
      BY DEF TypeOK
    <2>2. ASSUME NEW q \in Processes, NEW e \in Execs, Release(q, e)
          PROVE  stage[p][lease[p]] = "releasing"
      <3>1. q = p /\ stage[p][e] = "releasing"
        BY <2>2 DEF Release, TypeOK
      <3>2. InProgress(p, e) /\ InProgress(p, d)
        BY <2>1, <3>1 DEF InProgress, LeaseInv
      <3>3. d = e
        BY <3>2 DEF SingleFlight
      <3> QED BY <2>1, <3>1, <3>3
    <2>3. ASSUME NEW q \in Processes, NEW e \in Execs, Acquire(q, e) PROVE FALSE
      BY <2>3 DEF Acquire, lockVars, TypeOK
    <2>4. \/ \E q \in Processes, e \in Execs : Release(q, e)
          \/ \E q \in Processes, e \in Execs : Acquire(q, e)
      <3>1. ASSUME NEW q \in Processes, NEW e \in Execs,
                   \/ Work(q, e) \/ LoadCounts(q, e)
                   \/ ReportScheduled(q, e) \/ ReportManual(q, e)
            PROVE  UNCHANGED lease
        BY <3>1 DEF Work, LoadCounts, ReportScheduled, ReportManual, lockVars
      <3>2. ASSUME NEW q \in Processes,
                   \/ Tick(q) \/ Stopped(q) \/ Disconnect(q) \/ Exit(q) \/ Kill(q)
                   \/ EndSession(q) \/ NoticeLoss(q) \/ Signal(q)
            PROVE  UNCHANGED lease
        BY <3>2 DEF Tick, Stopped, Disconnect, Exit, Kill, EndSession, NoticeLoss, Signal,
                    lockVars
      <3> QED BY <3>1, <3>2 DEF Next, ProcessStep
    <2> QED BY <2>2, <2>3, <2>4
  <1> QED BY <1>1, Invariance, PTL DEF Spec, LeaseReleasedByOwner
=============================================================================
