------------------------ MODULE SocrataExecutorProofs ------------------------
(***************************************************************************)
(* Proofs about SocrataExecutor for any number of calls, any concurrency   *)
(* and any retry budget.                                                   *)
(*                                                                         *)
(* LiveRequestsBounded needs to know that a live request holds a slot      *)
(* (SlotInv).  StartsOnlyForWaitingCaller needs QueueInv: a queued job is  *)
(* the current attempt of its call, queued once and not yet settled, and   *)
(* the call still waits unless its signal has fired.  MetricsAreExact      *)
(* needs CountInv: each call counts what was sent for it, starting with    *)
(* its first attempt.  ReturnedValueIsCurrent needs ValueInv: a value is   *)
(* that of an operation that settled before its attempt was cancelled.     *)
(***************************************************************************)
EXTENDS SocrataExecutor, FiniteSetTheorems, TLAPS

SlotInv == slots = Live /\ Cardinality(slots) <= Concurrency

(* A job of an attempt its call has not reached. *)
Ahead(j) == pc[j[1]] = "idle" \/ j[2] > attempt[j[1]]

QueueInv ==
    /\ \A i, k \in 1..Len(queue) : queue[i] = queue[k] => i = k
    /\ \A i \in 1..Len(queue) :
         LET j == queue[i] IN
         /\ pc[j[1]] # "idle" /\ attempt[j[1]] = j[2]
         /\ operation[j] = "none" /\ outcome[j] = "pending"
         /\ aborted[j[1]] \/ pc[j[1]] = "waiting"

CallInv ==
    /\ \A c \in Callers : aborted[c] => pc[c] \notin {"waiting", "sleeping"}
    /\ \A c \in Callers : pc[c] = "idle" => attempt[c] = 0
    /\ \A c \in Callers : pc[c] = "sleeping" => attempt[c] < MaxRetries
    /\ \A j \in Jobs : Ahead(j) => operation[j] = "none" /\ outcome[j] = "pending"

SentBy(c) == {j \in Sent : j[1] = c}

(* A transient failure is that of a request that was sent, so what was     *)
(* retried was sent first.                                                 *)
FirstSent ==
    /\ \A j \in Jobs : outcome[j] \in Transient => operation[j] # "none"
    /\ \A c \in Callers : attempt[c] > 0 \/ pc[c] = "sleeping" => <<c, 0>> \in Sent
    /\ \A j \in Sent : <<j[1], 0>> \in Sent

CountInv ==
    /\ \A c \in Callers : requestCalls[c] = Cardinality(SentBy(c))
    /\ FirstSent
    /\ MetricsAreExact

IInv == TypeOK /\ SlotInv /\ CallInv /\ QueueInv /\ CountInv

-----------------------------------------------------------------------------
(* Facts about the data *)

LEMMA JobsFinite ==
  /\ IsFiniteSet(Jobs)
  /\ \A S \in SUBSET Jobs : IsFiniteSet(S) /\ Cardinality(S) \in Nat
  <1>1. IsFiniteSet(0..MaxRetries)
    BY ExecutorAssumption, FS_Interval
  <1>2. IsFiniteSet(Jobs)
    BY <1>1, ExecutorAssumption, FS_Product DEF Jobs
  <1>3. ASSUME NEW S \in SUBSET Jobs PROVE IsFiniteSet(S) /\ Cardinality(S) \in Nat
    BY <1>2, FS_Subset, FS_CardinalityType
  <1> QED BY <1>2, <1>3

LEMMA AddBound ==
  ASSUME NEW S, NEW x, IsFiniteSet(S)
  PROVE  Cardinality(S \cup {x}) <= Cardinality(S) + 1
  <1>1. Cardinality(S) \in Nat
    BY FS_CardinalityType
  <1>2. Cardinality(S \cup {x}) = IF x \in S THEN Cardinality(S) ELSE Cardinality(S) + 1
    BY FS_AddElement
  <1>3. CASE x \in S
    BY <1>1, <1>2, <1>3
  <1>4. CASE x \notin S
    BY <1>1, <1>2, <1>4
  <1> QED BY <1>3, <1>4

LEMMA JobParts ==
  /\ \A j \in Jobs : j[1] \in Callers /\ j[2] \in 0..MaxRetries /\ j = <<j[1], j[2]>>
  /\ \A c \in Callers, n \in 0..MaxRetries :
       <<c, n>> \in Jobs /\ <<c, n>>[1] = c /\ <<c, n>>[2] = n
  BY DEF Jobs

LEMMA SettleTyped ==
  ASSUME TypeOK, NEW j \in Jobs, NEW result \in Outcomes
  PROVE  settle(j, result) \in Outcomes
  BY DEF TypeOK, settle

LEMMA ResultsAreOutcomes ==
  /\ OperationResults \subseteq Outcomes
  /\ {"pending", "aborted", "dropped", "timeout"} \subseteq Outcomes
  BY DEF OperationResults, Outcomes, Transient

-----------------------------------------------------------------------------
(* Type correctness *)

LEMMA InitTypeOK == Init => TypeOK
  <1> SUFFICES ASSUME Init PROVE TypeOK
    OBVIOUS
  <1>1. 0 \in 0..MaxRetries /\ "pending" \in Outcomes
    BY ExecutorAssumption, ResultsAreOutcomes
  <1>2. queue \in Seq(Jobs)
    BY DEF Init
  <1> QED BY <1>1, <1>2 DEF Init, TypeOK, CallStates

LEMMA FinishTyped ==
  ASSUME TypeOK, NEW c \in Callers, NEW end \in {"returned", "failed"}, Finish(c, end)
  PROVE  pc' \in [Callers -> CallStates] /\ total' \in [request : Nat, retry : Nat]
  <1>1. pc' \in [Callers -> CallStates]
    BY DEF TypeOK, Finish, CallStates
  <1>2. requestCalls[c] \in Nat /\ total.request \in Nat /\ total.retry \in Nat
    BY DEF TypeOK
  <1>3. CASE requestCalls[c] > 0
    BY <1>2, <1>3, <1>1 DEF Finish
  <1>4. CASE ~(requestCalls[c] > 0)
    BY <1>2, <1>4, <1>1 DEF Finish
  <1> QED BY <1>3, <1>4

LEMMA ScheduleTyped ==
  ASSUME TypeOK, NEW j \in Jobs, scheduleAttempt(j)
  PROVE  /\ queue' \in Seq(Jobs) /\ outcome' \in [Jobs -> Outcomes]
         /\ slots' \subseteq Jobs /\ cancelled' \in [Jobs -> BOOLEAN]
         /\ operation' \in [Jobs -> {"none", "live", "settled"}]
  <1>1. settle(j, "dropped") \in Outcomes
    BY SettleTyped, ResultsAreOutcomes
  <1>2. CASE stopped
    BY <1>1, <1>2 DEF TypeOK, scheduleAttempt
  <1>3. CASE ~stopped
    <2>1. queue \in Seq(Jobs) /\ queue' = Append(queue, j)
      BY <1>3 DEF TypeOK, scheduleAttempt
    <2>2. queue' \in Seq(Jobs)
      BY <2>1
    <2> QED BY <1>3, <2>2 DEF TypeOK, scheduleAttempt
  <1> QED BY <1>2, <1>3

LEMMA NextTypeOK == TypeOK /\ CallInv /\ [Next]_vars => TypeOK'
  <1> SUFFICES ASSUME TypeOK, CallInv, [Next]_vars PROVE TypeOK'
    OBVIOUS
  <1> USE ExecutorAssumption
  <1>1. ASSUME NEW c \in Callers, Execute(c) PROVE TypeOK'
    <2>1. CASE aborted[c]
      BY <1>1, <2>1, FinishTyped DEF Execute, TypeOK, jobVars
    <2>2. CASE ~aborted[c]
      <3>1. <<c, 0>> \in Jobs
        BY JobParts
      <3>2. pc' \in [Callers -> CallStates]
        BY <1>1, <2>2 DEF Execute, TypeOK, CallStates
      <3> QED BY <1>1, <2>2, <3>1, <3>2, ScheduleTyped DEF Execute, TypeOK
    <2> QED BY <2>1, <2>2
  <1>2. ASSUME NEW c \in Callers, Abort(c) PROVE TypeOK'
    <2>1. outcome' \in [Jobs -> Outcomes]
      <3>1. \A j \in Jobs : settle(j, "aborted") \in Outcomes
        BY SettleTyped, ResultsAreOutcomes
      <3> QED BY <1>2, <3>1 DEF Abort, TypeOK
    <2>2. cancelled' \in [Jobs -> BOOLEAN]
      BY <1>2 DEF Abort, TypeOK
    <2>3. pc' \in [Callers -> CallStates] /\ total' \in [request : Nat, retry : Nat]
      BY <1>2, FinishTyped DEF Abort, TypeOK
    <2>4. aborted' \in [Callers -> BOOLEAN]
      BY <1>2 DEF Abort, TypeOK
    <2> QED BY <1>2, <2>1, <2>2, <2>3, <2>4 DEF Abort, TypeOK
  <1>3. ASSUME NEW c \in Callers, Resume(c) PROVE TypeOK'
    <2>1. pc' \in [Callers -> CallStates] /\ total' \in [request : Nat, retry : Nat]
      BY <1>3, FinishTyped DEF Resume, TypeOK, CallStates
    <2> QED BY <1>3, <2>1 DEF Resume, TypeOK, jobVars
  <1>4. ASSUME NEW j \in Jobs, Timeout(j) PROVE TypeOK'
    <2>1. settle(j, "timeout") \in Outcomes
      BY SettleTyped, ResultsAreOutcomes
    <2> QED BY <1>4, <2>1 DEF Timeout, TypeOK, slotsAfterCancel
  <1>5. ASSUME NEW j \in Jobs, NEW result \in OperationResults, OperationSettles(j, result)
        PROVE  TypeOK'
    <2>1. settle(j, result) \in Outcomes
      BY SettleTyped, ResultsAreOutcomes
    <2> QED BY <1>5, <2>1 DEF OperationSettles, TypeOK
  <1>6. CASE StartJob
    <2> DEFINE j == Head(queue)
    <2>1. j \in Jobs /\ j[1] \in Callers /\ Tail(queue) \in Seq(Jobs)
      BY <1>6, JobParts, SMTT(30) DEF StartJob, TypeOK
    <2>2. settle(j, "aborted") \in Outcomes
      BY <2>1, SettleTyped, ResultsAreOutcomes
    <2> HIDE DEF j
    <2>3. CASE mayStart(j)
      <3>1. /\ slots' = slots \cup {j}
            /\ operation' = [operation EXCEPT ![j] = "live"]
            /\ requestCalls' = [requestCalls EXCEPT ![j[1]] = @ + 1]
            /\ queue' = Tail(queue)
            /\ UNCHANGED <<pc, attempt, aborted, cancelled, outcome, total, stopped>>
        BY <1>6, <2>3 DEF StartJob, j
      <3> QED BY <2>1, <3>1 DEF TypeOK
    <2>4. CASE ~mayStart(j)
      BY <1>6, <2>1, <2>2, <2>4 DEF StartJob, TypeOK, j
    <2> QED BY <2>3, <2>4
  <1>7. CASE Stop
    <2>1. \A j \in Jobs : dropped(j) \in Outcomes
      BY SettleTyped, ResultsAreOutcomes DEF dropped
    <2> QED BY <1>7, <2>1 DEF Stop, TypeOK
  <1>8. ASSUME NEW c \in Callers, Retry(c) PROVE TypeOK'
    <2>1. attempt[c] + 1 \in 0..MaxRetries
      BY <1>8 DEF Retry, TypeOK, CallInv
    <2>2. <<c, attempt[c] + 1>> \in Jobs
      BY <2>1, JobParts
    <2>3. attempt' \in [Callers -> 0..MaxRetries] /\ pc' \in [Callers -> CallStates]
      BY <1>8, <2>1 DEF Retry, TypeOK, CallStates
    <2> QED BY <1>8, <2>2, <2>3, ScheduleTyped DEF Retry, TypeOK
  <1>9. CASE UNCHANGED vars
    BY <1>9 DEF vars, jobVars, TypeOK
  <1> QED BY <1>1, <1>2, <1>3, <1>4, <1>5, <1>6, <1>7, <1>8, <1>9 DEF Next

-----------------------------------------------------------------------------
(* The slots *)

LEMMA NextSlotInv == TypeOK /\ SlotInv /\ [Next]_vars => SlotInv'
  <1> SUFFICES ASSUME TypeOK, SlotInv, [Next]_vars PROVE SlotInv'
    OBVIOUS
  <1> USE DEF SlotInv, Live
  <1>1. ASSUME UNCHANGED <<slots, operation>> PROVE SlotInv'
    BY <1>1
  <1>2. ASSUME NEW c \in Callers, Execute(c) \/ Abort(c) \/ Resume(c) \/ Retry(c)
        PROVE  SlotInv'
    BY <1>1, <1>2 DEF Execute, Abort, Resume, Retry, scheduleAttempt, jobVars
  <1>3. CASE StartJob
    <2> DEFINE j == Head(queue)
    <2>1. j \in Jobs
      BY <1>3 DEF StartJob, TypeOK
    <2>2. CASE mayStart(j)
      <3>1. slots' = slots \cup {j} /\ operation' = [operation EXCEPT ![j] = "live"]
            /\ Cardinality(slots) < Concurrency
        BY <1>3, <2>2 DEF StartJob
      <3>2. slots' = Live'
        BY <2>1, <3>1 DEF TypeOK
      <3>3. IsFiniteSet(slots) /\ Cardinality(slots) \in Nat
        BY JobsFinite DEF TypeOK
      <3>4. Cardinality(slots \cup {j}) <= Cardinality(slots) + 1
        BY <3>3, AddBound
      <3>5. Cardinality(slots \cup {j}) \in Nat
        BY <2>1, JobsFinite DEF TypeOK
      <3>6. Cardinality(slots \cup {j}) <= Concurrency
        BY <3>1, <3>3, <3>4, <3>5, ExecutorAssumption
      <3> QED BY <3>1, <3>2, <3>6
    <2>3. CASE ~mayStart(j)
      BY <1>1, <1>3, <2>3 DEF StartJob
    <2> QED BY <2>2, <2>3
  <1>4. ASSUME NEW j \in Jobs, Timeout(j) PROVE SlotInv'
    BY <1>1, <1>4 DEF Timeout, slotsAfterCancel
  <1>5. ASSUME NEW j \in Jobs, NEW result \in OperationResults, OperationSettles(j, result)
        PROVE  SlotInv'
    <2>1. slots' = slots \ {j} /\ operation' = [operation EXCEPT ![j] = "settled"]
      BY <1>5 DEF OperationSettles
    <2>2. slots' = Live'
      BY <2>1 DEF TypeOK
    <2>3. /\ IsFiniteSet(slots) /\ Cardinality(slots) \in Nat
          /\ Cardinality(slots \ {j}) \in Nat
      BY JobsFinite DEF TypeOK
    <2>4. Cardinality(slots \ {j}) <= Cardinality(slots)
      BY <2>3, FS_Subset
    <2>5. Cardinality(slots \ {j}) <= Concurrency
      BY <2>3, <2>4, ExecutorAssumption
    <2> QED BY <2>1, <2>2, <2>5
  <1>6. CASE Stop
    BY <1>1, <1>6 DEF Stop
  <1>7. CASE UNCHANGED vars
    BY <1>1, <1>7 DEF vars, jobVars
  <1> QED BY <1>2, <1>3, <1>4, <1>5, <1>6, <1>7 DEF Next

-----------------------------------------------------------------------------
(* The calls *)

(* Scheduling the next attempt of a call settles at most that attempt. *)
LEMMA ScheduleFrame ==
  ASSUME TypeOK, NEW j \in Jobs, scheduleAttempt(j)
  PROVE  /\ UNCHANGED <<slots, operation, cancelled>>
         /\ \A k \in Jobs : k # j => outcome'[k] = outcome[k]
         /\ outcome'[j] \in {outcome[j], "dropped"}
  BY DEF TypeOK, scheduleAttempt, settle

LEMMA NextCallInv == TypeOK /\ CallInv /\ QueueInv /\ SlotInv /\ [Next]_vars => CallInv'
  <1> SUFFICES ASSUME TypeOK, CallInv, QueueInv, SlotInv, [Next]_vars PROVE CallInv'
    OBVIOUS
  <1>1. ASSUME NEW c \in Callers, Execute(c) PROVE CallInv'
    <2>1. CASE aborted[c]
      <3>1. /\ pc' = [pc EXCEPT ![c] = "failed"]
            /\ UNCHANGED <<attempt, aborted, outcome, operation>>
        BY <1>1, <2>1 DEF Execute, Finish, jobVars
      <3>2. \A d \in Callers : d # c => pc'[d] = pc[d]
        BY <3>1 DEF TypeOK
      <3>4. pc'[c] = "failed"
        BY <3>1 DEF TypeOK
      <3>3. \A j \in Jobs : Ahead(j)' => Ahead(j)
        BY <3>1, <3>2, <3>4, JobParts DEF Ahead
      <3> QED BY <3>1, <3>2, <3>3, <3>4 DEF CallInv
    <2>2. CASE ~aborted[c]
      <3>1. <<c, 0>> \in Jobs /\ attempt[c] = 0
        BY <1>1, JobParts, ExecutorAssumption DEF Execute, CallInv
      <3>2. scheduleAttempt(<<c, 0>>) /\ pc' = [pc EXCEPT ![c] = "waiting"]
            /\ UNCHANGED <<attempt, aborted>>
        BY <1>1, <2>2 DEF Execute
      <3>3. \A j \in Jobs : Ahead(j)' => Ahead(j) /\ j # <<c, 0>>
        <4>1. \A d \in Callers : pc'[d] = IF d = c THEN "waiting" ELSE pc[d]
          BY <3>2 DEF TypeOK
        <4>2. pc[c] = "idle"
          BY <1>1 DEF Execute
        <4> QED BY <3>1, <3>2, <4>1, <4>2, JobParts DEF Ahead
      <3>4. \A j \in Jobs : Ahead(j)' => operation'[j] = "none" /\ outcome'[j] = "pending"
        BY <3>1, <3>2, <3>3, ScheduleFrame DEF CallInv
      <3> QED BY <2>2, <3>2, <3>4 DEF CallInv, TypeOK
    <2> QED BY <2>1, <2>2
  <1>2. ASSUME NEW c \in Callers, Abort(c) PROVE CallInv'
    <2>1. \A d \in Callers : pc'[d] = pc[d] \/ (d = c /\ pc'[d] = "failed")
      BY <1>2 DEF Abort, Finish, TypeOK
    <2>2. pc'[c] \notin {"waiting", "sleeping"}
      BY <1>2 DEF Abort, Finish, TypeOK
    <2>3. \A j \in Jobs : outcome'[j] = outcome[j] \/ j \in slots
      BY <1>2 DEF Abort
    <2>4. \A j \in Jobs : Ahead(j)' => Ahead(j)
      BY <1>2, <2>1, JobParts DEF Ahead, Abort
    <2>5. \A j \in Jobs : Ahead(j)' => operation'[j] = "none" /\ outcome'[j] = "pending"
      <3>1. \A j \in slots : operation[j] = "live"
        BY DEF SlotInv, Live
      <3> QED BY <1>2, <2>3, <2>4, <3>1 DEF CallInv, Abort
    <2>6. \A d \in Callers : aborted'[d] => aborted[d] \/ d = c
      BY <1>2 DEF Abort, TypeOK
    <2> QED BY <1>2, <2>1, <2>2, <2>5, <2>6 DEF CallInv, Abort
  <1>3. ASSUME NEW c \in Callers, Resume(c) PROVE CallInv'
    <2>1. pc[c] = "waiting" /\ ~aborted[c] /\ UNCHANGED <<attempt, aborted, outcome, operation>>
      BY <1>3 DEF Resume, CallInv, jobVars
    <2>2. \A d \in Callers : d # c => pc'[d] = pc[d]
      BY <1>3 DEF Resume, Finish, TypeOK
    <2>3. /\ pc'[c] \in {"returned", "failed", "sleeping"}
          /\ pc'[c] = "sleeping" => attempt[c] < MaxRetries
      BY <1>3 DEF Resume, Finish, TypeOK, mayRetry
    <2>4. \A j \in Jobs : Ahead(j)' => Ahead(j)
      BY <2>1, <2>2, <2>3, JobParts DEF Ahead
    <2> QED BY <2>1, <2>2, <2>3, <2>4 DEF CallInv
  <1>4. ASSUME NEW c \in Callers, Retry(c) PROVE CallInv'
    <2> DEFINE j == <<c, attempt[c] + 1>>
    <2>1. attempt[c] + 1 \in 0..MaxRetries /\ ~aborted[c] /\ attempt[c] \in 0..MaxRetries
      BY <1>4, ExecutorAssumption DEF Retry, CallInv, TypeOK
    <2>2. j \in Jobs /\ scheduleAttempt(j) /\ UNCHANGED aborted
      BY <1>4, <2>1, JobParts DEF Retry
    <2>3. /\ \A d \in Callers : d # c => pc'[d] = pc[d] /\ attempt'[d] = attempt[d]
          /\ pc'[c] = "waiting" /\ attempt'[c] = attempt[c] + 1
      BY <1>4 DEF Retry, TypeOK
    <2>4. \A k \in Jobs : Ahead(k)' => Ahead(k) /\ k # j
      BY <2>1, <2>3, JobParts DEF Ahead
    <2>5. \A k \in Jobs : Ahead(k)' => operation'[k] = "none" /\ outcome'[k] = "pending"
      BY <2>2, <2>4, ScheduleFrame DEF CallInv
    <2> QED BY <2>1, <2>2, <2>3, <2>5 DEF CallInv
  <1>5. CASE StartJob
    <2> DEFINE h == Head(queue)
    <2>1. h \in Jobs /\ ~Ahead(h)
      <3>1. queue \in Seq(Jobs) /\ queue # <<>>
        BY <1>5 DEF StartJob, TypeOK
      <3>2. 1 \in 1..Len(queue) /\ h = queue[1] /\ h \in Jobs
        BY <3>1
      <3>3. pc[h[1]] # "idle" /\ attempt[h[1]] = h[2]
        BY <3>2 DEF QueueInv
      <3>4. h[2] \in Nat
        BY <3>2, JobParts
      <3> QED BY <3>2, <3>3, <3>4 DEF Ahead
    <2>2. \A j \in Jobs : j # h => operation'[j] = operation[j] /\ outcome'[j] = outcome[j]
      BY <1>5, <2>1 DEF StartJob, TypeOK
    <2>3. \A j \in Jobs : Ahead(j)' <=> Ahead(j)
      BY <1>5 DEF StartJob, Ahead
    <2> QED BY <1>5, <2>1, <2>2, <2>3 DEF StartJob, CallInv
  <1>6. ASSUME NEW j \in Jobs,
               Timeout(j) \/ \E result \in OperationResults : OperationSettles(j, result)
        PROVE  CallInv'
    <2>1. operation[j] = "live"
      BY <1>6 DEF Timeout, OperationSettles, SlotInv, Live, mayTimeOut
    <2>2. ~Ahead(j)
      BY <2>1 DEF CallInv
    <2>3. \A k \in Jobs : k # j => operation'[k] = operation[k] /\ outcome'[k] = outcome[k]
      BY <1>6 DEF Timeout, OperationSettles, TypeOK
    <2>4. \A k \in Jobs : Ahead(k)' <=> Ahead(k)
      BY <1>6 DEF Timeout, OperationSettles, Ahead
    <2> QED BY <1>6, <2>2, <2>3, <2>4 DEF Timeout, OperationSettles, CallInv
  <1>7. CASE Stop
    <2>1. \A i \in 1..Len(queue) : queue[i] \in Jobs /\ ~Ahead(queue[i])
      BY JobParts DEF TypeOK, QueueInv, Ahead
    <2>2. \A j \in Jobs : Ahead(j) => outcome'[j] = outcome[j]
      BY <1>7, <2>1 DEF Stop
    <2>3. \A k \in Jobs : Ahead(k)' <=> Ahead(k)
      BY <1>7 DEF Stop, Ahead
    <2> QED BY <1>7, <2>2, <2>3 DEF Stop, CallInv
  <1>8. CASE UNCHANGED vars
    BY <1>8 DEF vars, jobVars, CallInv, Ahead
  <1> QED BY <1>1, <1>2, <1>3, <1>4, <1>5, <1>6, <1>7, <1>8 DEF Next

-----------------------------------------------------------------------------
(* The queue *)

(* The part of QueueInv that speaks of one job. *)
Waits(j) ==
    /\ pc[j[1]] # "idle" /\ attempt[j[1]] = j[2]
    /\ operation[j] = "none" /\ outcome[j] = "pending"
    /\ aborted[j[1]] \/ pc[j[1]] = "waiting"

Queued == {queue[i] : i \in 1..Len(queue)}

LEMMA QueueKept ==
  ASSUME QueueInv, UNCHANGED queue, \A j \in Queued : Waits(j)'
  PROVE  QueueInv'
  BY DEF QueueInv, Waits, Queued

(* Appending a job that is not queued. *)
LEMMA QueueAppended ==
  ASSUME TypeOK, QueueInv, NEW j \in Jobs, queue' = Append(queue, j),
         \A k \in Queued : k # j /\ Waits(k)',
         Waits(j)'
  PROVE  QueueInv'
  <1>1. /\ Len(queue') = Len(queue) + 1 /\ Len(queue) \in Nat
        /\ \A i \in 1..Len(queue) : queue'[i] = queue[i] /\ queue[i] \in Queued
        /\ queue'[Len(queue) + 1] = j
    BY DEF TypeOK, Queued
  <1>2. \A i \in 1..Len(queue') : i \in 1..Len(queue) \/ i = Len(queue) + 1
    BY <1>1
  <1>3. \A i, k \in 1..Len(queue') : queue'[i] = queue'[k] => i = k
    BY <1>1, <1>2 DEF QueueInv
  <1>4. ASSUME NEW i \in 1..Len(queue'), NEW k, k = queue'[i] PROVE Waits(k)'
    BY <1>1, <1>2, <1>4
  <1> QED BY <1>3, <1>4 DEF QueueInv, Waits

LEMMA QueuedJobs ==
  ASSUME TypeOK, QueueInv, NEW j \in Queued
  PROVE  j \in Jobs /\ j[1] \in Callers /\ Waits(j) /\ ~Ahead(j)
  <1>1. j \in Jobs /\ Waits(j)
    BY DEF TypeOK, QueueInv, Waits, Queued
  <1>2. attempt[j[1]] = j[2] /\ pc[j[1]] # "idle" /\ j[1] \in Callers /\ j[2] \in Nat
    BY <1>1, JobParts DEF Waits
  <1> QED BY <1>1, <1>2 DEF Ahead

LEMMA NextQueueInv ==
  TypeOK /\ CallInv /\ QueueInv /\ SlotInv /\ [Next]_vars => QueueInv'
  <1> SUFFICES ASSUME TypeOK, CallInv, QueueInv, SlotInv, [Next]_vars PROVE QueueInv'
    OBVIOUS
  <1>0. \A k \in Queued : k \in Jobs /\ k[1] \in Callers /\ Waits(k) /\ ~Ahead(k)
    BY QueuedJobs
  <1>1. ASSUME NEW c \in Callers, Execute(c) PROVE QueueInv'
    <2>1. CASE aborted[c]
      <3>1. /\ pc' = [pc EXCEPT ![c] = "failed"] /\ pc[c] = "idle"
            /\ UNCHANGED <<attempt, aborted, queue, outcome, operation>>
        BY <1>1, <2>1 DEF Execute, Finish, jobVars
      <3>2. \A k \in Queued : Waits(k)'
        BY <3>1, <1>0 DEF Waits, TypeOK
      <3> QED BY <3>1, <3>2, QueueKept
    <2>2. CASE ~aborted[c]
      <3> DEFINE j == <<c, 0>>
      <3>1. j \in Jobs /\ Ahead(j) /\ attempt[c] = 0 /\ pc[c] = "idle" /\ j[1] = c /\ j[2] = 0
        BY <1>1, JobParts, ExecutorAssumption DEF Execute, CallInv, Ahead
      <3>2. /\ scheduleAttempt(j) /\ UNCHANGED <<attempt, aborted>>
            /\ \A d \in Callers : d # c => pc'[d] = pc[d]
            /\ pc'[c] = "waiting"
        BY <1>1, <2>2 DEF Execute, TypeOK
      <3>3. \A k \in Queued : k # j /\ k[1] # c
        BY <1>0, <3>1 DEF Waits
      <3>4. \A k \in Queued : Waits(k)'
        BY <1>0, <3>1, <3>2, <3>3, ScheduleFrame DEF Waits
      <3>5. CASE stopped
        BY <3>2, <3>4, <3>5, QueueKept DEF scheduleAttempt
      <3>6. CASE ~stopped
        <4>1. queue' = Append(queue, j) /\ UNCHANGED <<outcome, operation>>
          BY <3>2, <3>6 DEF scheduleAttempt
        <4>2. operation[j] = "none" /\ outcome[j] = "pending"
          BY <3>1 DEF CallInv
        <4>3. Waits(j)'
          BY <3>1, <3>2, <4>1, <4>2 DEF Waits
        <4> QED BY <3>1, <3>3, <3>4, <4>1, <4>3, QueueAppended
      <3> QED BY <3>5, <3>6
    <2> QED BY <2>1, <2>2
  <1>2. ASSUME NEW c \in Callers, Retry(c) PROVE QueueInv'
    <2>1. attempt[c] + 1 \in 0..MaxRetries /\ ~aborted[c] /\ attempt[c] \in 0..MaxRetries
          /\ pc[c] = "sleeping"
      BY <1>2, ExecutorAssumption DEF Retry, CallInv, TypeOK
    <2> PICK j \in Jobs : j = <<c, attempt[c] + 1>>
      BY <2>1, JobParts
    <2>2. j \in Jobs /\ scheduleAttempt(j) /\ UNCHANGED aborted /\ j[1] = c /\ j[2] = attempt[c] + 1
      BY <1>2, <2>1, JobParts DEF Retry
    <2>3. /\ \A d \in Callers : d # c => pc'[d] = pc[d] /\ attempt'[d] = attempt[d]
          /\ pc'[c] = "waiting" /\ attempt'[c] = attempt[c] + 1
      BY <1>2 DEF Retry, TypeOK
    <2>4. \A k \in Queued : k[1] # c /\ k # j
      BY <1>0, <2>1, <2>2 DEF Waits
    <2>5. \A k \in Queued : Waits(k)'
      BY <1>0, <2>2, <2>3, <2>4, ScheduleFrame DEF Waits
    <2>6. CASE stopped
      BY <2>2, <2>5, <2>6, QueueKept DEF scheduleAttempt
    <2>7. CASE ~stopped
      <3>1. queue' = Append(queue, j) /\ UNCHANGED <<outcome, operation>>
        BY <2>2, <2>7 DEF scheduleAttempt
      <3>2. Ahead(j)
        BY <2>1, <2>2 DEF Ahead
      <3>3. operation[j] = "none" /\ outcome[j] = "pending"
        BY <2>2, <3>2 DEF CallInv
      <3>4. Waits(j)'
        BY <2>2, <2>3, <3>1, <3>3 DEF Waits
      <3> QED BY <2>2, <2>4, <2>5, <3>1, <3>4, QueueAppended
    <2> QED BY <2>6, <2>7
  <1>3. ASSUME NEW c \in Callers, Abort(c) PROVE QueueInv'
    <2>1. /\ \A d \in Callers : d # c => pc'[d] = pc[d] /\ aborted'[d] = aborted[d]
          /\ aborted'[c] /\ pc'[c] \in {pc[c], "failed"}
          /\ UNCHANGED <<attempt, operation, queue>>
      BY <1>3 DEF Abort, Finish, TypeOK
    <2>2. \A j \in Jobs : operation[j] = "none" => outcome'[j] = outcome[j]
      BY <1>3 DEF Abort, SlotInv, Live
    <2>3. \A k \in Queued : Waits(k)'
      BY <1>0, <2>1, <2>2 DEF Waits
    <2> QED BY <2>1, <2>3, QueueKept
  <1>4. ASSUME NEW c \in Callers, Resume(c) PROVE QueueInv'
    <2>1. /\ pc[c] = "waiting" /\ ~aborted[c] /\ outcome[Current(c)] # "pending"
          /\ UNCHANGED <<attempt, aborted, outcome, operation, queue>>
      BY <1>4 DEF Resume, CallInv, jobVars
    <2>2. \A d \in Callers : d # c => pc'[d] = pc[d]
      BY <1>4 DEF Resume, Finish, TypeOK
    <2>3. \A k \in Queued : k[1] # c
      BY <1>0, <2>1, JobParts DEF Waits, Current
    <2>4. \A k \in Queued : Waits(k)'
      BY <1>0, <2>1, <2>2, <2>3 DEF Waits
    <2> QED BY <2>1, <2>4, QueueKept
  <1>5. CASE StartJob
    <2> DEFINE h == Head(queue)
    <2>1. /\ queue \in Seq(Jobs) /\ queue # <<>> /\ queue' = Tail(queue)
          /\ UNCHANGED <<pc, attempt, aborted>>
      BY <1>5 DEF StartJob, TypeOK
    <2>2. /\ h = queue[1] /\ Len(queue') = Len(queue) - 1 /\ Len(queue) \in Nat
          /\ \A i \in 1..Len(queue') : queue'[i] = queue[i + 1]
      BY <2>1
    <2>3. \A i \in 1..Len(queue') : i \in Nat /\ i + 1 \in 1..Len(queue)
      BY <2>2
    <2>4. 1 \in 1..Len(queue) /\ h \in Jobs
      BY <2>1, <2>2
    <2>5. \A j \in Jobs : j # h => operation'[j] = operation[j] /\ outcome'[j] = outcome[j]
      BY <1>5, <2>4 DEF StartJob, TypeOK
    <2>6. \A i \in 1..Len(queue') : queue'[i] # h
      <3> SUFFICES ASSUME NEW i \in 1..Len(queue') PROVE queue[i + 1] # queue[1]
        BY <2>2
      <3> QED BY <2>3, <2>4 DEF QueueInv
    <2>7. ASSUME NEW i \in 1..Len(queue'), NEW k, k = queue'[i] PROVE Waits(k)'
      <3>1. k \in Queued /\ k # h
        BY <2>2, <2>3, <2>6, <2>7 DEF Queued
      <3>2. k \in Jobs /\ Waits(k)
        BY <3>1, <1>0
      <3> QED BY <3>1, <3>2, <2>1, <2>5 DEF Waits
    <2>8. \A i, k \in 1..Len(queue') : queue'[i] = queue'[k] => i = k
      <3> SUFFICES ASSUME NEW i \in 1..Len(queue'), NEW k \in 1..Len(queue'), queue'[i] = queue'[k]
                   PROVE  i = k
        OBVIOUS
      <3>1. i + 1 = k + 1
        BY <2>2, <2>3 DEF QueueInv
      <3> QED BY <3>1, <2>3
    <2> QED BY <2>7, <2>8 DEF QueueInv, Waits
  <1>6. ASSUME NEW j \in Jobs,
               Timeout(j) \/ \E result \in OperationResults : OperationSettles(j, result)
        PROVE  QueueInv'
    <2>1. operation[j] = "live"
      BY <1>6 DEF Timeout, OperationSettles, SlotInv, Live, mayTimeOut
    <2>2. /\ \A k \in Jobs : k # j => operation'[k] = operation[k] /\ outcome'[k] = outcome[k]
          /\ UNCHANGED <<pc, attempt, aborted, queue>>
      BY <1>6 DEF Timeout, OperationSettles, TypeOK
    <2>3. \A k \in Queued : Waits(k)'
      BY <1>0, <2>1, <2>2 DEF Waits
    <2> QED BY <2>2, <2>3, QueueKept
  <1>7. CASE Stop
    BY <1>7 DEF Stop, QueueInv
  <1>8. CASE UNCHANGED vars
    <2>1. UNCHANGED <<pc, attempt, aborted, queue, outcome, operation>>
      BY <1>8 DEF vars, jobVars
    <2>2. \A k \in Queued : Waits(k)'
      BY <1>0, <2>1 DEF Waits
    <2> QED BY <2>1, <2>2, QueueKept
  <1> QED BY <1>1, <1>2, <1>3, <1>4, <1>5, <1>6, <1>7, <1>8 DEF Next

-----------------------------------------------------------------------------
(* The counters *)

EndedSent == {j \in Sent : Settled(j[1])}
Retries(S) == {j \in S : j[2] > 0}

(* The retries of a call are what was sent for it, but for the first.      *)
LEMMA RetriesOfOne ==
  ASSUME TypeOK, CountInv, NEW c \in Callers
  PROVE  Cardinality(Retries(SentBy(c))) =
           (IF requestCalls[c] > 0 THEN requestCalls[c] - 1 ELSE 0)
  <1>1. SentBy(c) \in SUBSET Jobs /\ requestCalls[c] = Cardinality(SentBy(c))
    BY DEF SentBy, Sent, CountInv
  <1>2. IsFiniteSet(SentBy(c)) /\ requestCalls[c] \in Nat
    BY <1>1, JobsFinite
  <1>3. CASE SentBy(c) = {}
    <2>1. Retries(SentBy(c)) = {}
      BY <1>3 DEF Retries
    <2> QED BY <1>1, <1>3, <2>1, FS_EmptySet
  <1>4. CASE SentBy(c) # {}
    <2>1. <<c, 0>> \in SentBy(c)
      <3>1. PICK j \in SentBy(c) : TRUE
        BY <1>4
      <3>2. j \in Sent /\ j[1] = c /\ <<c, 0>>[1] = c
        BY DEF SentBy
      <3> QED BY <3>2 DEF CountInv, FirstSent, SentBy
    <2>2. Retries(SentBy(c)) = SentBy(c) \ {<<c, 0>>}
      <3>1. ASSUME NEW j \in SentBy(c) PROVE j[2] > 0 <=> j # <<c, 0>>
        BY <1>1, JobParts DEF SentBy
      <3> QED BY <3>1 DEF Retries
    <2>3. Cardinality(SentBy(c) \ {<<c, 0>>}) = Cardinality(SentBy(c)) - 1
      BY <1>2, <2>1, FS_RemoveElement
    <2>4. Cardinality(SentBy(c)) # 0
      BY <1>2, <1>4, FS_EmptySet
    <2> QED BY <1>1, <1>2, <2>2, <2>3, <2>4
  <1> QED BY <1>3, <1>4

LEMMA DisjointUnion ==
  ASSUME NEW S \in SUBSET Jobs, NEW T \in SUBSET Jobs, S \cap T = {}
  PROVE  Cardinality(S \cup T) = Cardinality(S) + Cardinality(T)
  <1>1. IsFiniteSet(S) /\ IsFiniteSet(T) /\ Cardinality(S) \in Nat /\ Cardinality(T) \in Nat
    BY JobsFinite
  <1>2. Cardinality(S \cup T) = Cardinality(S) + Cardinality(T) - Cardinality({})
    BY <1>1, FS_Union
  <1> QED BY <1>1, <1>2, FS_EmptySet

(* When a call ends, its requests and retries enter the totals. *)
LEMMA FinishCounts ==
  ASSUME TypeOK, CountInv, NEW c \in Callers, NEW end \in {"returned", "failed"},
         Finish(c, end), ~Settled(c), UNCHANGED operation
  PROVE  MetricsAreExact'
  <1>1. /\ \A d \in Callers : d # c => pc'[d] = pc[d]
        /\ pc'[c] = end
    BY DEF Finish, TypeOK
  <1>2. Sent' = Sent /\ \A j \in Sent : j \in Jobs /\ j[1] \in Callers
    BY JobParts DEF Sent
  <1>3. EndedSent' = EndedSent \cup SentBy(c)
    BY <1>1, <1>2 DEF EndedSent, SentBy, Settled
  <1>4. EndedSent \cap SentBy(c) = {}
    BY DEF EndedSent, SentBy
  <1>5. Retries(EndedSent)' = Retries(EndedSent) \cup Retries(SentBy(c))
    BY <1>3 DEF Retries
  <1>6. Retries(EndedSent) \cap Retries(SentBy(c)) = {}
    BY <1>4 DEF Retries
  <1>7. /\ EndedSent \in SUBSET Jobs /\ SentBy(c) \in SUBSET Jobs
        /\ Retries(EndedSent) \in SUBSET Jobs /\ Retries(SentBy(c)) \in SUBSET Jobs
    BY DEF EndedSent, SentBy, Retries, Sent
  <1>8. Cardinality(EndedSent \cup SentBy(c)) = Cardinality(EndedSent) + Cardinality(SentBy(c))
    BY <1>4, <1>7, DisjointUnion
  <1>9. Cardinality(Retries(EndedSent) \cup Retries(SentBy(c)))
          = Cardinality(Retries(EndedSent)) + Cardinality(Retries(SentBy(c)))
    BY <1>6, <1>7, DisjointUnion
  <1>10. /\ total.request = Cardinality(EndedSent)
         /\ total.retry = Cardinality(Retries(EndedSent))
         /\ requestCalls[c] = Cardinality(SentBy(c))
    BY DEF CountInv, MetricsAreExact, EndedSent, Retries
  <1>11. total'.request = Cardinality(EndedSent \cup SentBy(c))
    BY <1>8, <1>10 DEF Finish
  <1>12. total'.retry = Cardinality(Retries(EndedSent) \cup Retries(SentBy(c)))
    BY <1>9, <1>10, RetriesOfOne DEF Finish
  <1>13. total'.request = Cardinality(EndedSent') /\ total'.retry = Cardinality(Retries(EndedSent)')
    BY <1>3, <1>5, <1>11, <1>12
  <1> QED BY <1>13 DEF MetricsAreExact, EndedSent, Retries

(* Steps that send nothing and end no call leave the counters exact. *)
LEMMA NothingSent ==
  ASSUME TypeOK, CountInv, Sent' = Sent, UNCHANGED <<requestCalls, total>>,
         \A c \in Callers : Settled(c)' <=> Settled(c)
  PROVE  /\ \A c \in Callers : requestCalls'[c] = Cardinality(SentBy(c)')
         /\ MetricsAreExact'
  <1>1. \A c \in Callers : SentBy(c)' = SentBy(c)
    BY DEF SentBy
  <1>2. \A j \in Sent : j[1] \in Callers
    BY JobParts DEF Sent
  <1>3. {j \in Sent' : Settled(j[1])'} = {j \in Sent : Settled(j[1])}
    BY <1>2
  <1> QED BY <1>1, <1>3 DEF CountInv, MetricsAreExact

(* FirstSent when nothing is sent: c is the only call that may go to sleep *)
(* or on to a retry, and its first request was sent then.                  *)
LEMMA FirstSentKept ==
  ASSUME FirstSent, NEW c \in Callers, Sent' = Sent,
         \A j \in Jobs : operation[j] # "none" => operation'[j] # "none",
         \A j \in Jobs : outcome'[j] \in Transient
           => outcome[j] \in Transient \/ operation[j] # "none",
         \A d \in Callers : d # c => pc'[d] = pc[d] /\ attempt'[d] = attempt[d],
         attempt'[c] > 0 \/ pc'[c] = "sleeping" => <<c, 0>> \in Sent
  PROVE  FirstSent'
  BY DEF FirstSent

LEMMA NextCountInv ==
  TypeOK /\ CallInv /\ QueueInv /\ SlotInv /\ CountInv /\ [Next]_vars => CountInv'
  <1> SUFFICES ASSUME TypeOK, CallInv, QueueInv, SlotInv, CountInv, [Next]_vars
               PROVE  CountInv'
    OBVIOUS
  <1>0. FirstSent
    BY DEF CountInv
  <1>1. ASSUME NEW c \in Callers, NEW end \in {"returned", "failed"}, Finish(c, end),
               ~Settled(c), UNCHANGED <<requestCalls, operation>>
        PROVE  MetricsAreExact' /\ \A d \in Callers : requestCalls'[d] = Cardinality(SentBy(d)')
    <2>1. \A d \in Callers : SentBy(d)' = SentBy(d)
      BY <1>1 DEF SentBy, Sent
    <2> QED BY <1>1, <2>1, FinishCounts DEF CountInv
  <1>2. ASSUME NEW c \in Callers, Execute(c) PROVE CountInv'
    <2>1. /\ pc[c] = "idle" /\ attempt[c] = 0 /\ UNCHANGED <<attempt, requestCalls>>
          /\ \A d \in Callers : d # c => pc'[d] = pc[d]
          /\ pc'[c] \in {"failed", "waiting"}
      BY <1>2 DEF Execute, Finish, CallInv, TypeOK
    <2>2. CASE aborted[c]
      <3>1. Finish(c, "failed") /\ UNCHANGED <<requestCalls, operation, outcome>> /\ ~Settled(c)
        BY <1>2, <2>1, <2>2 DEF Execute, jobVars, Settled
      <3>2. FirstSent'
        <4>1. Sent' = Sent /\ UNCHANGED <<operation, outcome>>
          BY <3>1 DEF Sent
        <4>2. ~(attempt'[c] > 0) /\ pc'[c] # "sleeping"
          BY <2>1
        <4> QED BY <2>1, <4>1, <4>2, <1>0, FirstSentKept
      <3> QED BY <1>1, <3>1, <3>2 DEF CountInv
    <2>3. CASE ~aborted[c]
      <3>1. <<c, 0>> \in Jobs /\ scheduleAttempt(<<c, 0>>) /\ UNCHANGED total
            /\ pc'[c] = "waiting"
        BY <1>2, <2>3, JobParts, ExecutorAssumption, SMTT(30) DEF Execute, TypeOK
      <3>2. UNCHANGED operation /\ \A j \in Jobs : outcome'[j] \in {outcome[j], "dropped"}
        BY <3>1, ScheduleFrame
      <3>3. FirstSent'
        BY <2>1, <3>1, <3>2, <1>0, FirstSentKept DEF Sent, Transient
      <3>4. \A d \in Callers : Settled(d)' <=> Settled(d)
        BY <2>1, <3>1 DEF Settled
      <3> QED BY <2>1, <3>1, <3>2, <3>3, <3>4, NothingSent DEF CountInv, Sent
    <2> QED BY <2>2, <2>3
  <1>3. ASSUME NEW c \in Callers, Abort(c) PROVE CountInv'
    <2>1. /\ UNCHANGED <<attempt, requestCalls, operation>>
          /\ \A j \in Jobs : outcome'[j] \in {outcome[j], "aborted"}
      BY <1>3 DEF Abort, settle
    <2>2. \A d \in Callers : d # c => pc'[d] = pc[d]
      BY <1>3 DEF Abort, Finish, TypeOK
    <2>3. CASE pc[c] \in {"waiting", "sleeping"}
      <3>1. Finish(c, "failed") /\ ~Settled(c) /\ pc'[c] = "failed"
        BY <1>3, <2>3 DEF Abort, Finish, Settled, TypeOK
      <3>2. FirstSent'
        <4>1. attempt[c] > 0 => <<c, 0>> \in Sent
          BY <1>0 DEF FirstSent
        <4> QED BY <4>1, <2>1, <2>2, <3>1, <1>0, FirstSentKept DEF Sent, Transient
      <3> QED BY <1>1, <2>1, <3>1, <3>2 DEF CountInv
    <2>4. CASE pc[c] \notin {"waiting", "sleeping"}
      <3>1. UNCHANGED <<pc, total>>
        BY <1>3, <2>4 DEF Abort
      <3>2. FirstSent'
        BY <2>1, <3>1, <1>0, FirstSentKept DEF Sent, Transient, FirstSent
      <3> QED BY <2>1, <3>1, <3>2, NothingSent DEF CountInv, Sent, Settled
    <2> QED BY <2>3, <2>4
  <1>4. ASSUME NEW c \in Callers, Resume(c) PROVE CountInv'
    <2>1. /\ pc[c] = "waiting" /\ UNCHANGED <<attempt, requestCalls, operation, outcome>>
          /\ Sent' = Sent
      BY <1>4 DEF Resume, jobVars, Sent
    <2>2. \A d \in Callers : d # c => pc'[d] = pc[d]
      BY <1>4 DEF Resume, Finish, TypeOK
    <2>3. attempt[c] > 0 => <<c, 0>> \in Sent
      BY <1>0 DEF FirstSent
    <2>4. ASSUME NEW end \in {"returned", "failed"}, Finish(c, end) PROVE CountInv'
      <3>1. ~Settled(c) /\ pc'[c] # "sleeping"
        BY <2>1, <2>4 DEF Settled, Finish, TypeOK
      <3>2. FirstSent'
        BY <2>1, <2>2, <2>3, <3>1, <1>0, FirstSentKept
      <3> QED BY <1>1, <2>1, <2>4, <3>1, <3>2 DEF CountInv
    <2>5. ASSUME mayRetry(c), pc' = [pc EXCEPT ![c] = "sleeping"], UNCHANGED total
          PROVE  CountInv'
      <3>1. Current(c) \in Sent
        <4>1. Current(c) \in Jobs
          BY JobParts DEF Current, TypeOK
        <4> QED BY <4>1, <2>5, <1>0 DEF mayRetry, FirstSent, Sent
      <3>2. <<c, 0>> \in Sent
        BY <3>1, <1>0 DEF FirstSent, Current
      <3>3. FirstSent'
        BY <2>1, <2>2, <3>2, <1>0, FirstSentKept
      <3>4. \A d \in Callers : Settled(d)' <=> Settled(d)
        BY <2>1, <2>5 DEF Settled, TypeOK
      <3> QED BY <2>1, <2>5, <3>3, <3>4, NothingSent DEF CountInv
    <2> QED BY <1>4, <2>4, <2>5 DEF Resume
  <1>5. ASSUME NEW c \in Callers, Retry(c) PROVE CountInv'
    <2>1. attempt[c] + 1 \in 0..MaxRetries /\ pc[c] = "sleeping"
      BY <1>5, ExecutorAssumption DEF Retry, CallInv, TypeOK
    <2> PICK j \in Jobs : j = <<c, attempt[c] + 1>>
      BY <2>1, JobParts
    <2>2. /\ scheduleAttempt(j) /\ UNCHANGED <<requestCalls, total>> /\ pc'[c] = "waiting"
          /\ \A d \in Callers : d # c => pc'[d] = pc[d] /\ attempt'[d] = attempt[d]
      BY <1>5 DEF Retry, TypeOK
    <2>3. UNCHANGED operation /\ \A k \in Jobs : outcome'[k] \in {outcome[k], "dropped"}
      BY <2>2, ScheduleFrame
    <2>4. <<c, 0>> \in Sent
      BY <2>1, <1>0 DEF FirstSent
    <2>5. FirstSent'
      BY <2>2, <2>3, <2>4, <1>0, FirstSentKept DEF Sent, Transient
    <2>6. \A d \in Callers : Settled(d)' <=> Settled(d)
      BY <2>1, <2>2 DEF Settled
    <2> QED BY <2>2, <2>3, <2>5, <2>6, NothingSent DEF CountInv, Sent
  <1>6. CASE StartJob
    <2> PICK h \in Jobs : h = Head(queue)
      BY <1>6 DEF StartJob, TypeOK
    <2>1. h \in Queued
      <3>1. queue \in Seq(Jobs) /\ queue # <<>>
        BY <1>6 DEF StartJob, TypeOK
      <3> QED BY <3>1 DEF Queued
    <2>2. h[1] \in Callers /\ Waits(h)
      BY <2>1, QueuedJobs
    <2>3. UNCHANGED <<pc, attempt, total>>
      BY <1>6 DEF StartJob
    <2>4. CASE mayStart(h)
      <3>1. /\ operation' = [operation EXCEPT ![h] = "live"]
            /\ requestCalls' = [requestCalls EXCEPT ![h[1]] = @ + 1]
            /\ UNCHANGED outcome
        BY <1>6, <2>4 DEF StartJob
      <3>2. pc[h[1]] = "waiting" /\ attempt[h[1]] = h[2] /\ h \notin Sent
        BY <2>2, <2>4 DEF Waits, mayStart, Sent
      <3>3. Sent' = Sent \cup {h}
        BY <3>1 DEF Sent, TypeOK
      <3>4. \A d \in Callers : d # h[1] => SentBy(d)' = SentBy(d) /\ requestCalls'[d] = requestCalls[d]
        BY <3>1, <3>3 DEF SentBy, TypeOK
      <3>5. SentBy(h[1])' = SentBy(h[1]) \cup {h} /\ h \notin SentBy(h[1])
        BY <3>2, <3>3 DEF SentBy
      <3>6. Cardinality(SentBy(h[1]) \cup {h}) = Cardinality(SentBy(h[1])) + 1
        <4>1. SentBy(h[1]) \in SUBSET Jobs
          BY DEF SentBy, Sent
        <4>2. IsFiniteSet(SentBy(h[1]))
          BY <4>1, JobsFinite
        <4> QED BY <3>5, <4>2, FS_AddElement
      <3>7. requestCalls'[h[1]] = requestCalls[h[1]] + 1
        BY <2>2, <3>1 DEF TypeOK
      <3>8. \A d \in Callers : requestCalls'[d] = Cardinality(SentBy(d)')
        BY <2>2, <3>4, <3>5, <3>6, <3>7 DEF CountInv
      <3>9. {j \in Sent' : Settled(j[1])'} = {j \in Sent : Settled(j[1])}
        BY <2>3, <3>2, <3>3 DEF Settled
      <3>10. MetricsAreExact'
        BY <2>3, <3>9 DEF CountInv, MetricsAreExact
      <3>11. FirstSent'
        <4>1. <<h[1], 0>> \in Sent'
          <5>1. CASE h[2] = 0
            BY <5>1, <3>3, JobParts
          <5>2. CASE h[2] # 0
            <6>1. attempt[h[1]] > 0
              BY <5>2, <3>2, JobParts, ExecutorAssumption
            <6> QED BY <6>1, <2>2, <3>3, <1>0 DEF FirstSent
          <5> QED BY <5>1, <5>2
        <4>2. \A j \in Jobs : operation[j] # "none" => operation'[j] # "none"
          BY <3>1 DEF TypeOK
        <4> QED BY <4>1, <4>2, <2>3, <3>1, <3>3, <1>0 DEF FirstSent
      <3> QED BY <3>8, <3>10, <3>11 DEF CountInv
    <2>5. CASE ~mayStart(h)
      <3>1. /\ UNCHANGED <<operation, requestCalls>>
            /\ \A j \in Jobs : outcome'[j] \in {outcome[j], "aborted"}
        BY <1>6, <2>5 DEF StartJob, TypeOK, settle
      <3>2. FirstSent'
        BY <2>2, <2>3, <3>1, <1>0, FirstSentKept DEF FirstSent, Sent, Transient
      <3> QED BY <2>3, <3>1, <3>2, NothingSent DEF CountInv, Sent, Settled
    <2> QED BY <2>4, <2>5
  <1>7. ASSUME NEW j \in Jobs,
               Timeout(j) \/ \E result \in OperationResults : OperationSettles(j, result)
        PROVE  CountInv'
    <2>1. operation[j] = "live" /\ operation'[j] # "none" /\ j[1] \in Callers
      BY <1>7, JobParts DEF Timeout, OperationSettles, SlotInv, Live, mayTimeOut, TypeOK
    <2>2. /\ \A k \in Jobs : k # j => operation'[k] = operation[k] /\ outcome'[k] = outcome[k]
          /\ UNCHANGED <<pc, attempt, requestCalls, total>>
      BY <1>7 DEF Timeout, OperationSettles, TypeOK
    <2>3. Sent' = Sent
      BY <2>1, <2>2 DEF Sent
    <2>4. FirstSent'
      BY <2>1, <2>2, <2>3, <1>0, FirstSentKept DEF FirstSent
    <2> QED BY <2>2, <2>3, <2>4, NothingSent DEF CountInv, Settled
  <1>8. CASE Stop
    <2>1. /\ UNCHANGED <<pc, attempt, requestCalls, operation, total>>
          /\ \A j \in Jobs : outcome'[j] \in {outcome[j], "dropped"}
      BY <1>8 DEF Stop, dropped, settle
    <2>2. FirstSent'
      BY <2>1, <1>0 DEF FirstSent, Sent, Transient
    <2> QED BY <2>1, <2>2, NothingSent DEF CountInv, Sent, Settled
  <1>9. CASE UNCHANGED vars
    BY <1>9 DEF vars, jobVars, CountInv, FirstSent, MetricsAreExact, SentBy, Sent, Settled
  <1> QED BY <1>2, <1>3, <1>4, <1>5, <1>6, <1>7, <1>8, <1>9 DEF Next

-----------------------------------------------------------------------------
(* Theorems *)

LEMMA InitIInv == Init => IInv
  <1> SUFFICES ASSUME Init PROVE IInv
    OBVIOUS
  <1>1. TypeOK
    BY InitTypeOK
  <1>2. Sent = {} /\ Live = {}
    BY DEF Init, Sent, Live
  <1>3. Cardinality({}) = 0
    BY FS_EmptySet
  <1>4. SlotInv
    BY <1>2, <1>3, ExecutorAssumption DEF Init, SlotInv
  <1>5. CallInv
    BY ExecutorAssumption DEF Init, CallInv, Ahead
  <1>6. QueueInv
    BY DEF Init, QueueInv
  <1>7. CountInv
    <2>1. \A c \in Callers : SentBy(c) = {} /\ requestCalls[c] = 0
      BY <1>2 DEF SentBy, Init
    <2>2. FirstSent
      BY <1>2 DEF FirstSent, Init, Transient
    <2>3. MetricsAreExact
      <3>1. {j \in Sent : Settled(j[1])} = {} /\ {j \in {} : j[2] > 0} = {}
        BY <1>2
      <3> QED BY <3>1, <1>3 DEF MetricsAreExact, Init
    <2> QED BY <1>3, <2>1, <2>2, <2>3 DEF CountInv
  <1> QED BY <1>1, <1>4, <1>5, <1>6, <1>7 DEF IInv

LEMMA NextIInv == IInv /\ [Next]_vars => IInv'
  BY NextTypeOK, NextSlotInv, NextCallInv, NextQueueInv, NextCountInv DEF IInv

LEMMA SpecIInv == Spec => []IInv
  BY InitIInv, NextIInv, PTL DEF Spec

(* The variables keep their types. *)
THEOREM TypeCorrect == Spec => []TypeOK
  <1>1. IInv => TypeOK
    BY DEF IInv
  <1> QED BY <1>1, SpecIInv, PTL

(* Requests in flight, abandoned ones included, never exceed the configured *)
(* concurrency.                                                             *)
THEOREM ConcurrencyBound == Spec => []LiveRequestsBounded
  <1>1. IInv => LiveRequestsBounded
    BY DEF IInv, SlotInv, LiveRequestsBounded
  <1> QED BY <1>1, SpecIInv, PTL

(* With a single slot a cancelled request holds it until it has really     *)
(* ended, so its retry waits (the comment of runAttempt, for the only      *)
(* concurrency of which it is true).                                       *)
THEOREM SingleSlotRetriesWait == ASSUME Concurrency = 1 PROVE Spec => []RetryRunsAlone
  <1>1. ASSUME IInv, NEW c \in Callers, NEW m \in 0..MaxRetries, NEW n \in 0..MaxRetries,
               m < n, <<c, m>> \in Live, <<c, n>> \in Live
        PROVE  FALSE
    <2>1. IsFiniteSet(Live) /\ Cardinality(Live) \in Nat /\ Cardinality(Live) <= 1
      BY <1>1, JobsFinite DEF IInv, SlotInv, Live
    <2>2. <<c, n>> \in Live \ {<<c, m>>}
      BY <1>1
    <2>3. IsFiniteSet(Live \ {<<c, m>>}) /\ Cardinality(Live \ {<<c, m>>}) = Cardinality(Live) - 1
      BY <1>1, <2>1, FS_RemoveElement
    <2>4. Cardinality(Live \ {<<c, m>>}) = 0
      BY <2>1, <2>3, FS_CardinalityType
    <2> QED BY <2>2, <2>3, <2>4, FS_EmptySet
  <1>2. IInv => RetryRunsAlone
    BY <1>1 DEF RetryRunsAlone
  <1> QED BY <1>2, SpecIInv, PTL

(* The metrics count exactly what was sent by the calls that have ended. *)
THEOREM MetricsCorrect == Spec => []MetricsAreExact
  <1>1. IInv => MetricsAreExact
    BY DEF IInv, CountInv
  <1> QED BY <1>1, SpecIInv, PTL

(* No request is sent for a call that no longer waits for it. *)
THEOREM NoRequestAfterCancellation == Spec => StartsOnlyForWaitingCaller
  <1> DEFINE Step == \A j \in Jobs : operation[j] = "none" /\ operation'[j] # "none"
                        => pc[j[1]] = "waiting" /\ attempt[j[1]] = j[2]
  <1>1. IInv /\ [Next]_vars => [Step]_vars
    <2> SUFFICES ASSUME IInv, [Next]_vars, NEW j \in Jobs,
                        operation[j] = "none", operation'[j] # "none"
                 PROVE  pc[j[1]] = "waiting" /\ attempt[j[1]] = j[2]
      OBVIOUS
    <2> USE DEF IInv
    <2>1. CASE StartJob
      <3>1. queue \in Seq(Jobs) /\ queue # <<>>
        BY <2>1 DEF StartJob, TypeOK
      <3>2. j = Head(queue) /\ mayStart(j)
        BY <2>1 DEF StartJob, TypeOK
      <3>3. j \in Queued
        BY <3>1, <3>2 DEF Queued
      <3> QED BY <3>2, <3>3, QueuedJobs DEF Waits, mayStart
    <2>2. ASSUME NEW c \in Callers, Execute(c) \/ Abort(c) \/ Resume(c) \/ Retry(c) PROVE FALSE
      BY <2>2 DEF Execute, Abort, Resume, Retry, scheduleAttempt, jobVars
    <2>3. ASSUME NEW k \in Jobs,
                 Timeout(k) \/ \E result \in OperationResults : OperationSettles(k, result)
          PROVE  FALSE
      BY <2>3 DEF Timeout, OperationSettles, TypeOK
    <2>4. CASE Stop \/ UNCHANGED vars
      BY <2>4 DEF Stop, vars, jobVars
    <2> QED BY <2>1, <2>2, <2>3, <2>4 DEF Next
  <1> QED BY <1>1, SpecIInv, PTL DEF Spec, StartsOnlyForWaitingCaller

-----------------------------------------------------------------------------
(* What a call returns *)

(* A value is that of an operation that settled before its attempt was     *)
(* cancelled, and what a call returned is the value of its last attempt.   *)
ValueInv ==
    /\ \A j \in Jobs : cancelled[j] => outcome[j] # "pending"
    /\ \A j \in Jobs : outcome[j] = "value" => operation[j] = "settled" /\ ~cancelled[j]
    /\ \A c \in Callers : pc[c] = "returned" => outcome[Current(c)] = "value"

(* A step that settles no operation and cancels only what is in flight     *)
(* keeps every value, and can produce none.                                *)
LEMMA ValuesKept ==
  ASSUME TypeOK, SlotInv, ValueInv, UNCHANGED operation,
         \A j \in Jobs : outcome'[j] = outcome[j]
                          \/ (outcome[j] = "pending" /\ outcome'[j] \notin {"pending", "value"}),
         \A j \in Jobs : cancelled'[j] => cancelled[j] \/ (j \in slots /\ outcome'[j] # "pending"),
         \A c \in Callers : pc'[c] = "returned" =>
           pc[c] = "returned" \/ outcome[Current(c)] = "value",
         \A c \in Callers : attempt'[c] = attempt[c] \/ pc'[c] # "returned"
  PROVE  ValueInv'
  <1>1. \A c \in Callers : Current(c) \in Jobs
    BY JobParts DEF TypeOK, Current
  <1>2. \A j \in slots : j \in Jobs /\ operation[j] = "live" /\ outcome[j] # "value"
    BY DEF SlotInv, Live, ValueInv
  <1>3. \A j \in Jobs : cancelled'[j] => outcome'[j] # "pending"
    BY DEF ValueInv
  <1>4. \A j \in Jobs : outcome'[j] = "value" => operation'[j] = "settled" /\ ~cancelled'[j]
    BY <1>2 DEF ValueInv
  <1>5. ASSUME NEW c \in Callers, pc'[c] = "returned" PROVE outcome'[Current(c)'] = "value"
    <2>1. Current(c)' = Current(c)
      BY <1>5 DEF Current
    <2>2. outcome[Current(c)] = "value"
      BY <1>5 DEF ValueInv
    <2> QED BY <1>1, <2>1, <2>2
  <1> QED BY <1>3, <1>4, <1>5 DEF ValueInv

LEMMA NextValueInv == IInv /\ ValueInv /\ [Next]_vars => ValueInv'
  <1> SUFFICES ASSUME TypeOK, SlotInv, CallInv, QueueInv, ValueInv, [Next]_vars PROVE ValueInv'
    BY DEF IInv
  <1>1. ASSUME NEW c \in Callers, NEW j \in Jobs, scheduleAttempt(j), pc'[c] = "waiting",
               \A d \in Callers : d # c => pc'[d] = pc[d] /\ attempt'[d] = attempt[d]
        PROVE  ValueInv'
    <2>1. UNCHANGED <<operation, cancelled>>
      BY <1>1 DEF scheduleAttempt
    <2>2. \A k \in Jobs : outcome'[k] = outcome[k]
                           \/ (outcome[k] = "pending" /\ outcome'[k] \notin {"pending", "value"})
      BY <1>1 DEF scheduleAttempt, settle, TypeOK
    <2> QED BY <1>1, <2>1, <2>2, ValuesKept
  <1>2. ASSUME NEW c \in Callers, Execute(c) PROVE ValueInv'
    <2>1. CASE aborted[c]
      <3>1. UNCHANGED <<attempt, operation, outcome, cancelled>>
            /\ \A d \in Callers : pc'[d] = pc[d] \/ pc'[d] = "failed"
        BY <1>2, <2>1 DEF Execute, Finish, jobVars, TypeOK
      <3> QED BY <3>1, ValuesKept
    <2>2. CASE ~aborted[c]
      <3>1. <<c, 0>> \in Jobs
        BY JobParts, ExecutorAssumption
      <3>2. scheduleAttempt(<<c, 0>>) /\ pc'[c] = "waiting"
            /\ \A d \in Callers : d # c => pc'[d] = pc[d] /\ attempt'[d] = attempt[d]
        BY <1>2, <2>2 DEF Execute, TypeOK
      <3> QED BY <1>1, <3>1, <3>2
    <2> QED BY <2>1, <2>2
  <1>3. ASSUME NEW c \in Callers, Abort(c) PROVE ValueInv'
    <2>1. UNCHANGED <<attempt, operation>> /\ \A d \in Callers : pc'[d] \in {pc[d], "failed"}
      BY <1>3 DEF Abort, Finish, TypeOK
    <2> DEFINE hit == {j \in slots : j[1] = c /\ ~cancelled[j]}
    <2>2. \A j \in Jobs : /\ cancelled'[j] = (cancelled[j] \/ j \in hit)
                          /\ outcome'[j] = IF j \in hit THEN settle(j, "aborted") ELSE outcome[j]
      BY <1>3 DEF Abort
    <2>3. \A j \in Jobs : outcome'[j] = outcome[j]
                           \/ (outcome[j] = "pending" /\ outcome'[j] \notin {"pending", "value"})
      BY <2>2 DEF settle
    <2>4. \A j \in Jobs : cancelled'[j] => cancelled[j] \/ (j \in slots /\ outcome'[j] # "pending")
      BY <2>2 DEF settle
    <2> HIDE DEF hit
    <2> QED BY <2>1, <2>3, <2>4, ValuesKept
  <1>4. ASSUME NEW c \in Callers, Resume(c) PROVE ValueInv'
    <2>1. UNCHANGED <<attempt, operation, outcome, cancelled>>
      BY <1>4 DEF Resume, jobVars
    <2>2. \A d \in Callers : pc'[d] = "returned" =>
            pc[d] = "returned" \/ outcome[Current(d)] = "value"
      BY <1>4 DEF Resume, Finish, TypeOK
    <2> QED BY <2>1, <2>2, ValuesKept
  <1>5. ASSUME NEW c \in Callers, Retry(c) PROVE ValueInv'
    <2>1. attempt[c] + 1 \in 0..MaxRetries
      BY <1>5, ExecutorAssumption DEF Retry, CallInv, TypeOK
    <2> PICK j \in Jobs : j = <<c, attempt[c] + 1>>
      BY <2>1, JobParts
    <2>2. scheduleAttempt(j) /\ pc'[c] = "waiting"
          /\ \A d \in Callers : d # c => pc'[d] = pc[d] /\ attempt'[d] = attempt[d]
      BY <1>5 DEF Retry, TypeOK
    <2> QED BY <1>1, <2>2
  <1>6. CASE StartJob
    <2> PICK h \in Jobs : h = Head(queue)
      BY <1>6 DEF StartJob, TypeOK
    <2>1. UNCHANGED <<pc, attempt, cancelled>>
      BY <1>6 DEF StartJob
    <2>2. CASE mayStart(h)
      <3>1. operation' = [operation EXCEPT ![h] = "live"] /\ UNCHANGED outcome
        BY <1>6, <2>2 DEF StartJob
      <3>2. outcome[h] = "pending"
        <4>1. queue \in Seq(Jobs) /\ queue # <<>>
          BY <1>6 DEF StartJob, TypeOK
        <4>2. h \in Queued
          BY <4>1 DEF Queued
        <4> QED BY <4>2, QueuedJobs DEF Waits
      <3>3. \A j \in Jobs : outcome'[j] = "value" => operation'[j] = operation[j]
        BY <3>1, <3>2 DEF TypeOK
      <3> QED BY <2>1, <3>1, <3>3 DEF ValueInv, Current
    <2>3. CASE ~mayStart(h)
      <3>1. UNCHANGED operation /\ outcome' = [outcome EXCEPT ![h] = settle(h, "aborted")]
        BY <1>6, <2>3 DEF StartJob
      <3>2. \A j \in Jobs : outcome'[j] = outcome[j]
                             \/ (outcome[j] = "pending" /\ outcome'[j] \notin {"pending", "value"})
        BY <3>1 DEF settle, TypeOK
      <3> QED BY <2>1, <3>1, <3>2, ValuesKept
    <2> QED BY <2>2, <2>3
  <1>7. ASSUME NEW j \in Jobs, Timeout(j) PROVE ValueInv'
    <2>1. UNCHANGED <<pc, attempt, operation>> /\ j \in slots
          /\ cancelled' = [cancelled EXCEPT ![j] = TRUE]
          /\ outcome' = [outcome EXCEPT ![j] = settle(j, "timeout")]
      BY <1>7 DEF Timeout, mayTimeOut
    <2>2. \A k \in Jobs : outcome'[k] = outcome[k]
                           \/ (outcome[k] = "pending" /\ outcome'[k] \notin {"pending", "value"})
      BY <2>1 DEF settle, TypeOK
    <2>3. \A k \in Jobs : cancelled'[k] => cancelled[k] \/ (k \in slots /\ outcome'[k] # "pending")
      BY <2>1 DEF settle, TypeOK
    <2> QED BY <2>1, <2>2, <2>3, ValuesKept
  <1>8. ASSUME NEW j \in Jobs, NEW result \in OperationResults, OperationSettles(j, result)
        PROVE  ValueInv'
    <2>1. /\ UNCHANGED <<pc, attempt, cancelled>>
          /\ operation[j] = "live" /\ operation'[j] = "settled" /\ outcome'[j] = settle(j, result)
          /\ \A k \in Jobs : k # j => operation'[k] = operation[k] /\ outcome'[k] = outcome[k]
      BY <1>8 DEF OperationSettles, TypeOK
    <2>2. outcome[j] # "value" /\ outcome'[j] # "pending"
      BY <2>1 DEF ValueInv, settle, OperationResults
    <2>3. outcome'[j] = "value" => ~cancelled[j]
      BY <2>1, <2>2 DEF ValueInv, settle
    <2>4. \A c \in Callers : Current(c) \in Jobs /\ Current(c)' = Current(c)
      BY <2>1, JobParts DEF TypeOK, Current
    <2>5. \A c \in Callers : pc'[c] = "returned" => outcome'[Current(c)'] = "value"
      BY <2>1, <2>2, <2>4 DEF ValueInv
    <2> QED BY <2>1, <2>2, <2>3, <2>5 DEF ValueInv
  <1>9. CASE Stop
    <2>1. UNCHANGED <<pc, attempt, operation, cancelled>>
      BY <1>9 DEF Stop
    <2>2. \A k \in Jobs : outcome'[k] = outcome[k]
                           \/ (outcome[k] = "pending" /\ outcome'[k] \notin {"pending", "value"})
      BY <1>9 DEF Stop, dropped, settle
    <2> QED BY <2>1, <2>2, ValuesKept
  <1>10. CASE UNCHANGED vars
    BY <1>10 DEF vars, jobVars, ValueInv, Current
  <1> QED BY <1>2, <1>3, <1>4, <1>5, <1>6, <1>7, <1>8, <1>9, <1>10 DEF Next

(* A late answer is never returned, nor is one that was cancelled, and a   *)
(* call that has returned sends nothing more.                              *)
THEOREM LateAnswersAreDropped == Spec => []ReturnedValueIsCurrent
  <1>1. Init => ValueInv
    BY DEF Init, ValueInv
  <1>2. IInv /\ ValueInv => ReturnedValueIsCurrent
    <2> SUFFICES ASSUME IInv, ValueInv, NEW c \in Callers, pc[c] = "returned"
                 PROVE  /\ ~cancelled[Current(c)] /\ operation[Current(c)] = "settled"
                        /\ \A n \in 0..MaxRetries : n > attempt[c] => operation[<<c, n>>] = "none"
      BY DEF ReturnedValueIsCurrent
    <2>1. Current(c) \in Jobs
      BY JobParts DEF IInv, TypeOK, Current
    <2>2. ASSUME NEW n \in 0..MaxRetries, n > attempt[c] PROVE operation[<<c, n>>] = "none"
      <3>1. <<c, n>> \in Jobs /\ Ahead(<<c, n>>)
        BY <2>2, JobParts DEF Ahead
      <3> QED BY <3>1 DEF IInv, CallInv
    <2> QED BY <2>1, <2>2 DEF ValueInv
  <1> QED BY <1>1, <1>2, SpecIInv, NextValueInv, PTL DEF Spec
=============================================================================
