-------------------------- MODULE SocrataExecutor --------------------------
(***************************************************************************)
(* src/clients/socrata-request-executor.ts: logical calls that share a     *)
(* Bottleneck limiter, are attempted up to MaxRetries + 1 times, time out  *)
(* per attempt, and may be cancelled by the caller's AbortSignal.          *)
(*                                                                         *)
(* A job is one attempt of one call.  It is queued in the limiter, holds a *)
(* slot while runAttempt runs, and has a deferred `outcome` that its       *)
(* caller awaits; the outcome may be settled long before the operation     *)
(* itself (a fetch) is.  The actions are the synchronous stretches between *)
(* two awaits or timers.                                                   *)
(***************************************************************************)
EXTENDS Naturals, Sequences, FiniteSets

CONSTANTS
    Callers,      \* logical calls of executeWithAccounting
    Cancellable,  \* the calls that pass an AbortSignal
    Concurrency,  \* maxConcurrent of the limiter
    MaxRetries

ASSUME ExecutorAssumption ==
    /\ IsFiniteSet(Callers)
    /\ Cancellable \subseteq Callers
    /\ Concurrency \in Nat \ {0}
    /\ MaxRetries \in Nat

VARIABLES
    pc,           \* where each call is
    attempt,      \* its loop variable
    requestCalls, \* its count of started operations
    aborted,      \* its signal
    queue,        \* jobs waiting in the limiter, oldest first
    slots,        \* jobs whose runAttempt holds a slot
    operation,    \* the real request of each job
    cancelled,    \* cancellationError of each job
    outcome,      \* the deferred of each job
    total,        \* totalRequestCalls and totalRetryCalls
    stopped       \* the limiter was stopped

jobVars == <<queue, slots, operation, cancelled, outcome>>
vars == <<pc, attempt, requestCalls, aborted, jobVars, total, stopped>>

Jobs == Callers \X (0..MaxRetries)
CallStates == {"idle", "waiting", "sleeping", "returned", "failed"}
Transient == {"transient", "timeout"}
Outcomes == {"pending", "value", "permanent", "aborted", "dropped"} \cup Transient

(* The job whose outcome c awaits, and what the rest of the module asks. *)
Current(c) == <<c, attempt[c]>>
Settled(c) == pc[c] \in {"returned", "failed"}
Sent == {j \in Jobs : operation[j] # "none"}
Live == {j \in Jobs : operation[j] = "live"}

TypeOK ==
    /\ pc \in [Callers -> CallStates]
    /\ attempt \in [Callers -> 0..MaxRetries]
    /\ requestCalls \in [Callers -> Nat]
    /\ aborted \in [Callers -> BOOLEAN]
    /\ queue \in Seq(Jobs)
    /\ slots \subseteq Jobs
    /\ operation \in [Jobs -> {"none", "live", "settled"}]
    /\ cancelled \in [Jobs -> BOOLEAN]
    /\ outcome \in [Jobs -> Outcomes]
    /\ total \in [request : Nat, retry : Nat]
    /\ stopped \in BOOLEAN

Init ==
    /\ pc = [c \in Callers |-> "idle"]
    /\ attempt = [c \in Callers |-> 0]
    /\ requestCalls = [c \in Callers |-> 0]
    /\ aborted = [c \in Callers |-> FALSE]
    /\ queue = <<>>
    /\ slots = {}
    /\ operation = [j \in Jobs |-> "none"]
    /\ cancelled = [j \in Jobs |-> FALSE]
    /\ outcome = [j \in Jobs |-> "pending"]
    /\ total = [request |-> 0, retry |-> 0]
    /\ stopped = FALSE

-----------------------------------------------------------------------------
(* Deferred: only the first settlement counts. *)
settle_last(j, result) == result
settle(j, result) == IF outcome[j] = "pending" THEN result ELSE outcome[j]

(* The finally block of executeWithAccounting: c ends as `end`. *)
Finish_iterations(c, end) ==
    /\ pc' = [pc EXCEPT ![c] = end]
    /\ total' = [request |-> total.request + attempt[c] + 1, retry |-> total.retry + attempt[c]]

Finish(c, end) ==
    /\ pc' = [pc EXCEPT ![c] = end]
    /\ total' = [request |-> total.request + requestCalls[c],
                 retry |-> total.retry +
                     (IF requestCalls[c] > 0 THEN requestCalls[c] - 1 ELSE 0)]

(* limiter.schedule: a stopped limiter rejects the job at once. *)
scheduleAttempt(j) ==
    /\ IF stopped
       THEN /\ outcome' = [outcome EXCEPT ![j] = settle(j, "dropped")]
            /\ UNCHANGED queue
       ELSE /\ queue' = Append(queue, j)
            /\ UNCHANGED outcome
    /\ UNCHANGED <<slots, operation, cancelled>>

(* executeWithAccounting up to its first await. *)
Execute(c) ==
    /\ pc[c] = "idle"
    /\ IF aborted[c]
       THEN Finish(c, "failed") /\ UNCHANGED jobVars
       ELSE /\ pc' = [pc EXCEPT ![c] = "waiting"]
            /\ scheduleAttempt(<<c, 0>>)
            /\ UNCHANGED total
    /\ UNCHANGED <<attempt, requestCalls, aborted, stopped>>

(* runAttempt refuses to start for a signal that has fired while the job   *)
(* was queued.                                                             *)
mayStart_unchecked(j) == TRUE
mayStart(j) == ~aborted[j[1]]

(* The limiter starts its oldest job when a slot is free.  A job refused   *)
(* by throwIfAborted gives its slot back at once.                          *)
StartJob ==
    /\ queue # <<>>
    /\ Cardinality(slots) < Concurrency
    /\ queue' = Tail(queue)
    /\ LET j == Head(queue) IN
         IF mayStart(j)
         THEN /\ slots' = slots \cup {j}
              /\ operation' = [operation EXCEPT ![j] = "live"]
              /\ requestCalls' = [requestCalls EXCEPT ![j[1]] = @ + 1]
              /\ UNCHANGED outcome
         ELSE /\ outcome' = [outcome EXCEPT ![j] = settle(j, "aborted")]
              /\ UNCHANGED <<slots, operation, requestCalls>>
    /\ UNCHANGED <<pc, attempt, aborted, cancelled, total, stopped>>

(* The attempt's timer: cancel() settles the caller's outcome; the slot is *)
(* kept until the operation settles.                                       *)
slotsAfterCancel_released(j) == slots \ {j}
slotsAfterCancel(j) == slots

mayTimeOut_cancellable(j) == j \in slots /\ ~cancelled[j] /\ j[1] \in Cancellable
mayTimeOut(j) == j \in slots /\ ~cancelled[j]

Timeout(j) ==
    /\ mayTimeOut(j)
    /\ cancelled' = [cancelled EXCEPT ![j] = TRUE]
    /\ outcome' = [outcome EXCEPT ![j] = settle(j, "timeout")]
    /\ slots' = slotsAfterCancel(j)
    /\ UNCHANGED <<pc, attempt, requestCalls, aborted, queue, operation, total, stopped>>

(* The operation resolves or rejects, runAttempt ends and frees the slot.  *)
(* A cancelled attempt rejects with its cancellation whatever came back.   *)
OperationSettles(j, result) ==
    /\ operation[j] = "live"
    /\ operation' = [operation EXCEPT ![j] = "settled"]
    /\ slots' = slots \ {j}
    /\ outcome' = [outcome EXCEPT ![j] = settle(j, result)]
    /\ UNCHANGED <<pc, attempt, requestCalls, aborted, queue, cancelled, total, stopped>>

OperationResults == {"value", "transient", "permanent"}

(* The caller's signal fires.  waitForScheduledAttempt and waitForRetry    *)
(* reject immediately; the listener of a running attempt cancels it.       *)
Abort(c) ==
    /\ c \in Cancellable
    /\ ~aborted[c]
    /\ aborted' = [aborted EXCEPT ![c] = TRUE]
    /\ LET hit == {j \in slots : j[1] = c /\ ~cancelled[j]} IN
         /\ cancelled' = [j \in Jobs |-> cancelled[j] \/ j \in hit]
         /\ outcome' = [j \in Jobs |-> IF j \in hit THEN settle(j, "aborted") ELSE outcome[j]]
    /\ IF pc[c] \in {"waiting", "sleeping"}
       THEN Finish(c, "failed")
       ELSE UNCHANGED <<pc, total>>
    /\ UNCHANGED <<attempt, requestCalls, queue, slots, operation, stopped>>

(* The caller continues once its outcome is settled: classifyError and the *)
(* retry budget decide.                                                    *)
mayRetry(c) == outcome[Current(c)] \in Transient /\ attempt[c] < MaxRetries

Resume(c) ==
    /\ pc[c] = "waiting"
    /\ outcome[Current(c)] # "pending"
    /\ IF outcome[Current(c)] = "value" THEN Finish(c, "returned")
       ELSE IF mayRetry(c)
            THEN pc' = [pc EXCEPT ![c] = "sleeping"] /\ UNCHANGED total
            ELSE Finish(c, "failed")
    /\ UNCHANGED <<attempt, requestCalls, aborted, jobVars, stopped>>

(* The retry delay elapsed: the next iteration of the loop. *)
Retry(c) ==
    /\ pc[c] = "sleeping"
    /\ pc' = [pc EXCEPT ![c] = "waiting"]
    /\ attempt' = [attempt EXCEPT ![c] = @ + 1]
    /\ scheduleAttempt(<<c, attempt[c] + 1>>)
    /\ UNCHANGED <<requestCalls, aborted, total, stopped>>

(* limiter.stop with dropWaitingJobs: the promise of every waiting job is  *)
(* rejected, and scheduleAttempt passes the rejection on to the outcome.   *)
dropped_unobserved(j) == outcome[j]
dropped(j) == settle(j, "dropped")

Stop ==
    /\ ~stopped
    /\ stopped' = TRUE
    /\ queue' = <<>>
    /\ outcome' = [j \in Jobs |->
           IF \E i \in 1..Len(queue) : queue[i] = j THEN dropped(j) ELSE outcome[j]]
    /\ UNCHANGED <<pc, attempt, requestCalls, aborted, slots, operation, cancelled, total>>

Next ==
    \/ \E c \in Callers : Execute(c) \/ Abort(c) \/ Resume(c) \/ Retry(c)
    \/ StartJob
    \/ \E j \in Jobs : Timeout(j)
    \/ \E j \in Jobs, result \in OperationResults : OperationSettles(j, result)
    \/ Stop

Spec == Init /\ [][Next]_vars

(* The event loop runs what is ready: continuations, timers and the        *)
(* limiter's next job.  Nothing makes a request settle.                    *)
Fairness ==
    /\ WF_vars(StartJob)
    /\ \A c \in Callers : WF_vars(Resume(c)) /\ WF_vars(Retry(c))
    /\ \A j \in Jobs : WF_vars(Timeout(j))

FairSpec == Spec /\ Fairness

-----------------------------------------------------------------------------
(* The limiter bounds the requests that are really in flight, those whose  *)
(* callers have given up on them included (runAttempt keeps its slot).     *)
LiveRequestsBounded == Cardinality(Live) <= Concurrency

(* A request is started only for a caller that is waiting for it: none is  *)
(* sent for a call that was cancelled while the attempt was queued.        *)
StartsOnlyForWaitingCaller ==
    [][\A j \in Jobs : operation[j] = "none" /\ operation'[j] # "none"
           => pc[j[1]] = "waiting" /\ attempt[j[1]] = j[2]]_vars

(* What getMetrics reports is what was sent by the calls that have ended:  *)
(* every request, and as retries those that are not a call's first.        *)
MetricsAreExact ==
    LET sent == {j \in Sent : Settled(j[1])}
    IN /\ total.request = Cardinality(sent)
       /\ total.retry = Cardinality({j \in sent : j[2] > 0})

(* No two requests of one call are in flight at once (runAttempt: "a       *)
(* cancelled request can never run concurrently with its own retry").      *)
(* True of one slot, which the cancelled request keeps; with more, as by   *)
(* default, the retry takes another.                                       *)
RetryRunsAlone ==
    \A c \in Callers, m, n \in 0..MaxRetries :
        m < n => ~(<<c, m>> \in Live /\ <<c, n>> \in Live)

(* A late answer is never returned: a call that returns does so with an    *)
(* attempt that was not cancelled, and after it no further one is sent.    *)
ReturnedValueIsCurrent ==
    \A c \in Callers : pc[c] = "returned" =>
        /\ ~cancelled[Current(c)]
        /\ operation[Current(c)] = "settled"
        /\ \A n \in 0..MaxRetries : n > attempt[c] => operation[<<c, n>>] = "none"

(* Every call ends, those queued in a limiter that is stopped and those    *)
(* whose request never settles included, unless requests that never settle *)
(* hold every slot for good.                                               *)
LimiterIsFull == Cardinality(slots) = Concurrency

EveryCallSettles ==
    \A c \in Callers : pc[c] # "idle" ~> (Settled(c) \/ []LimiterIsFull)
=============================================================================
