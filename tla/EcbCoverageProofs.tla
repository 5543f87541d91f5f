--------------------------- MODULE EcbCoverageProofs ---------------------------
(***************************************************************************)
(* Proofs about EcbCoverage, for any number of properties, BINs and        *)
(* violations and for every value of the bounds.                           *)
(*                                                                         *)
(* TypeOK and CoverageReflectsRun are inductive together.                  *)
(* LiveIsLatestScan needs three more facts, each kept by every action: runs *)
(* are queued in the order of their numbers (RunsInOrder), none is skipped *)
(* (NoGaps), and a run stages only violations of the BINs it scans         *)
(* (StagedIsScanned).                                                      *)
(***************************************************************************)
EXTENDS EcbCoverage, TLAPS

(* Any run after an active one is yet to be queued. *)
RunsInOrder ==
  \A r, s \in Runs : status[r] \in Active /\ s > r => status[s] = "ABSENT"

(* An unqueued run leaves only unqueued runs behind it. *)
NoGaps ==
  \A r, s \in Runs : status[r] = "ABSENT" /\ s > r => status[s] = "ABSENT"

(* What a started run staged carries a BIN of its snapshot. *)
StagedIsScanned ==
  \A r \in Runs, v \in Violations :
    status[r] \in {"RUNNING", "COMPLETED"} =>
      staged[r][v] \in ScannedBins(r) \cup {NoBin}

LiveInv == RunsInOrder /\ NoGaps /\ StagedIsScanned /\ LiveIsLatestScan

-----------------------------------------------------------------------------
(* Type correctness *)

LEMMA InitTypeOK == Init => TypeOK
  BY BinsAssumption, CoverageBoundsAssumption
  DEF Init, TypeOK, NotReading, NotChecked, NoRun, CoverageRecords

(* Coverage stays a record of its type whichever transaction writes it. *)
LEMMA CoverageUpdatesTyped ==
  ASSUME TypeOK, NEW p \in Properties, NEW r \in Runs
  PROVE  /\ successfulCoverage(r, p) \in CoverageRecords
         /\ failedCoverage(r, p) \in CoverageRecords
  <1>1. coverage[p] \in CoverageRecords /\ r \in 0..MaxRuns /\ 0 \in 0..MaxRuns
    BY CoverageBoundsAssumption DEF TypeOK, Runs
  <1>2. QED
    BY <1>1 DEF CoverageRecords, successfulCoverage, failedCoverage

LEMMA InvalidatedTyped ==
  ASSUME NEW c \in CoverageRecords, NEW s
  PROVE  invalidated(c, s) \in CoverageRecords
  <1>1. NoRun \in 0..MaxRuns
    BY CoverageBoundsAssumption DEF NoRun
  <1>2. CASE s = {}
    BY <1>1, <1>2 DEF CoverageRecords, invalidated
  <1>3. CASE s # {}
    BY <1>1, <1>3 DEF CoverageRecords, invalidated
  <1> QED BY <1>2, <1>3

LEMMA NextTypeOK == TypeOK /\ [Next]_vars => TypeOK'
  <1> SUFFICES ASSUME TypeOK, [Next]_vars PROVE TypeOK'
    OBVIOUS
  <1> USE CoverageBoundsAssumption, BinsAssumption DEF TypeOK
  <1>1. ASSUME NEW p \in Properties, NEW candidateBins \in SUBSET Bins,
               CreateProperty(p, candidateBins)
        PROVE  TypeOK'
    <2>1. NotChecked(initialReason(candidateBins)) \in CoverageRecords
      BY DEF NotChecked, initialReason, CoverageRecords, NoRun
    <2> QED BY <1>1, <2>1 DEF CreateProperty, Registered, runVars, sourceVars
  <1>2. ASSUME NEW p \in Properties, NEW nextBins \in (SUBSET Bins) \ {{}},
               ApplyEffectiveBinSet(p, nextBins)
        PROVE  TypeOK'
    <2>1. CASE UNCHANGED vars
      BY <2>1 DEF vars
    <2>2. CASE /\ version[p] < MaxVersion
               /\ bins' = [bins EXCEPT ![p] = nextBins]
               /\ version' = [version EXCEPT ![p] = @ + 1]
               /\ coverage' = [coverage EXCEPT ![p] = invalidated(@, nextBins)]
               /\ UNCHANGED <<runVars, live, sourceVars>>
      <3>1. invalidated(coverage[p], nextBins) \in CoverageRecords
        BY InvalidatedTyped
      <3>2. coverage' \in [Properties -> CoverageRecords]
        BY <2>2, <3>1
      <3> QED BY <2>2, <3>2 DEF runVars, sourceVars
    <2> QED BY <1>2, <2>1, <2>2 DEF ApplyEffectiveBinSet
  <1>3. ASSUME NEW r \in Runs, QueueRun(r) PROVE TypeOK'
    BY <1>3 DEF QueueRun, propertyVars, sourceVars, Active
  <1>4. ASSUME NEW r \in Runs, ReadBins(r) PROVE TypeOK'
    BY <1>4 DEF ReadBins, propertyVars, sourceVars
  <1>5. ASSUME NEW r \in Runs, ReadVersionsAndSeal(r) PROVE TypeOK'
    <2>1. {[property |-> row.property, version |-> version[row.property], bin |-> row.bin] :
             row \in reading.rows} \in SUBSET SnapshotRows
      BY DEF SnapshotRows
    <2> QED BY <1>5, <2>1 DEF ReadVersionsAndSeal, propertyVars, sourceVars, NotReading
  <1>6. ASSUME NEW r \in Runs, Scan(r) PROVE TypeOK'
    BY <1>6 DEF Scan, propertyVars, sourceVars, Active
  <1>7. ASSUME NEW r \in Runs, Accept(r) PROVE TypeOK'
    <2>1. live' \in [Violations -> [bin : Bins \cup {NoBin}, run : 0..MaxRuns, current : BOOLEAN]]
      <3> DEFINE Rows == [bin : Bins \cup {NoBin}, run : 0..MaxRuns, current : BOOLEAN]
      <3>1. ASSUME NEW v \in Violations PROVE promoted(r, v) \in Rows
        BY DEF promoted, Runs
      <3>2. ASSUME NEW row \in Rows PROVE reconciled(r, row) \in Rows
        BY DEF reconciled
      <3>3. ASSUME NEW v \in Violations PROVE reconciled(r, promoted(r, v)) \in Rows
        BY <3>1, <3>2
      <3> HIDE DEF Rows
      <3>4. live' \in [Violations -> Rows]
        BY <1>7, <3>3 DEF Accept
      <3> QED BY <3>4 DEF Rows
    <2>2. coverage' \in [Properties -> CoverageRecords]
      BY <1>7, CoverageUpdatesTyped DEF Accept
    <2> QED BY <1>7, <2>1, <2>2 DEF Accept, propertyVars, sourceVars
  <1>8. ASSUME NEW r \in Runs, NEW decision \in Rejected, Reject(r, decision) PROVE TypeOK'
    <2>1. coverage' \in [Properties -> CoverageRecords]
      BY <1>8, CoverageUpdatesTyped DEF Reject
    <2> QED BY <1>8, <2>1 DEF Reject, propertyVars, sourceVars
  <1>9. CASE ExecutorRestart
    BY <1>9 DEF ExecutorRestart, propertyVars, sourceVars, NotReading
  <1>10. ASSUME NEW v \in Violations, NEW bin \in Bins \cup {NoBin}, SourceChange(v, bin)
         PROVE  TypeOK'
    BY <1>10 DEF SourceChange, propertyVars, runVars
  <1>11. CASE UNCHANGED vars
    BY <1>11 DEF vars
  <1> QED BY <1>1, <1>2, <1>3, <1>4, <1>5, <1>6, <1>7, <1>8, <1>9, <1>10, <1>11 DEF Next

(* Every state is well typed; in particular coverage only ever holds the   *)
(* statuses and reasons of the database enums and real run numbers.        *)
THEOREM TypeCorrect == Spec => []TypeOK
  BY InitTypeOK, NextTypeOK, PTL DEF Spec

-----------------------------------------------------------------------------
(* Coverage and the runs it names *)

(* What an action must leave alone for the property at one p to survive:   *)
(* the coverage and version of p, and runs that have ended.                *)
EndedRunsKept ==
  \A r \in Runs : status[r] \in {"COMPLETED"} \cup Rejected =>
    status'[r] = status[r] /\ snapshot'[r] = snapshot[r]

CoverageOf(p) ==
  LET c == coverage[p]
  IN /\ c.status = "CHECKED" =>
          /\ c.lastSuccess = c.lastAttempt
          /\ c.lastSuccess \in Runs
          /\ status[c.lastSuccess] = "COMPLETED"
          /\ version[p] \in SnapshotVersions(c.lastSuccess, p)
     /\ c.status = "FAILED" =>
          /\ c.lastAttempt \in Runs
          /\ status[c.lastAttempt] \in Rejected
          /\ version[p] \in SnapshotVersions(c.lastAttempt, p)

LEMMA CoverageOfKept ==
  ASSUME NEW p \in Properties, CoverageOf(p), EndedRunsKept,
         coverage'[p] = coverage[p], version'[p] = version[p]
  PROVE  CoverageOf(p)'
  BY DEF CoverageOf, EndedRunsKept, SnapshotVersions, Rejected

(* Coverage that reports no attempt promises nothing. *)
LEMMA CoverageOfNotChecked ==
  ASSUME NEW p \in Properties, coverage'[p].status = "NOT_CHECKED"
  PROVE  CoverageOf(p)'
  BY DEF CoverageOf

LEMMA NextEndedRunsKept == TypeOK /\ [Next]_vars => EndedRunsKept
  <1> SUFFICES ASSUME TypeOK, [Next]_vars PROVE EndedRunsKept
    OBVIOUS
  <1>1. ASSUME UNCHANGED <<status, snapshot>> PROVE EndedRunsKept
    BY <1>1 DEF EndedRunsKept
  <1>2. ASSUME NEW r \in Runs, QueueRun(r) \/ ReadVersionsAndSeal(r) \/ Scan(r) \/ Accept(r)
        PROVE  EndedRunsKept
    BY <1>2 DEF QueueRun, ReadVersionsAndSeal, Scan, Accept, EndedRunsKept, TypeOK, Rejected
  <1>3. ASSUME NEW r \in Runs, NEW decision \in Rejected, Reject(r, decision)
        PROVE  EndedRunsKept
    BY <1>3 DEF Reject, EndedRunsKept, TypeOK, Rejected
  <1>4. ASSUME \/ \E p \in Properties : \E s \in SUBSET Bins :
                    CreateProperty(p, s) \/ ApplyEffectiveBinSet(p, s)
               \/ \E r \in Runs : ReadBins(r)
               \/ ExecutorRestart
               \/ \E v \in Violations, bin \in Bins \cup {NoBin} : SourceChange(v, bin)
               \/ UNCHANGED vars
        PROVE  EndedRunsKept
    BY <1>1, <1>4 DEF CreateProperty, ApplyEffectiveBinSet, ReadBins, ExecutorRestart,
                      SourceChange, vars, runVars
  <1> QED BY <1>2, <1>3, <1>4 DEF Next

LEMMA NextCoverageReflectsRun ==
  TypeOK /\ CoverageReflectsRun /\ [Next]_vars => CoverageReflectsRun'
  <1> SUFFICES ASSUME TypeOK, CoverageReflectsRun, [Next]_vars,
                      NEW p \in Properties
               PROVE  CoverageOf(p)'
    BY DEF CoverageReflectsRun, CoverageOf
  <1>1. CoverageOf(p) /\ EndedRunsKept
    BY NextEndedRunsKept DEF CoverageReflectsRun, CoverageOf
  <1>2. ASSUME NEW q \in Properties, NEW s \in SUBSET Bins,
               CreateProperty(q, s) \/ ApplyEffectiveBinSet(q, s)
        PROVE  CoverageOf(p)'
    <2>1. CASE coverage'[p] = coverage[p] /\ version'[p] = version[p]
      BY <1>1, <2>1, CoverageOfKept
    <2>2. CASE coverage'[p].status = "NOT_CHECKED"
      BY <2>2, CoverageOfNotChecked
    <2>3. CASE CreateProperty(q, s) /\ q = p
      <3>1. coverage'[p] = NotChecked(initialReason(s))
        BY <2>3 DEF CreateProperty, TypeOK
      <3> QED BY <2>2, <3>1 DEF NotChecked
    <2>4. CASE ApplyEffectiveBinSet(q, s) /\ q = p /\ s # bins[p]
      <3>1. coverage'[p] = invalidated(coverage[p], s)
        BY <2>4 DEF ApplyEffectiveBinSet, TypeOK
      <3>2. coverage[p] \in CoverageRecords
        BY DEF TypeOK
      <3>3. invalidated(coverage[p], s).status = "NOT_CHECKED"
        BY <3>2 DEF invalidated, CoverageRecords
      <3> QED BY <2>2, <3>1, <3>3
    <2>5. CASE q # p \/ UNCHANGED vars
      BY <1>2, <2>1, <2>5 DEF CreateProperty, ApplyEffectiveBinSet, TypeOK, vars
    <2> QED BY <1>2, <2>3, <2>4, <2>5 DEF ApplyEffectiveBinSet
  <1>3. ASSUME NEW r \in Runs, Accept(r) PROVE CoverageOf(p)'
    <2>1. /\ version' = version /\ snapshot' = snapshot
          /\ status' = [status EXCEPT ![r] = "COMPLETED"] /\ status'[r] = "COMPLETED"
      BY <1>3 DEF Accept, propertyVars, TypeOK
    <2>2. CASE coverage'[p] = coverage[p]
      BY <1>1, <2>1, <2>2, CoverageOfKept
    <2>3. CASE coverage'[p].status = "NOT_CHECKED"
      BY <2>3, CoverageOfNotChecked
    <2>4. CASE /\ versionMatches(r, p)
               /\ coverage'[p] = [status |-> "CHECKED", reason |-> "NONE",
                                 lastAttempt |-> r, lastSuccess |-> r]
      BY <2>1, <2>4 DEF CoverageOf, versionMatches, SnapshotVersions
    <2>5. coverage[p] \in CoverageRecords
      BY DEF TypeOK
    <2>6. coverage'[p] = IF InSnapshot(r, p) THEN successfulCoverage(r, p) ELSE coverage[p]
      BY <1>3 DEF Accept
    <2>7. \/ coverage'[p] = coverage[p]
          \/ /\ versionMatches(r, p)
             /\ coverage'[p] = [status |-> "CHECKED", reason |-> "NONE",
                               lastAttempt |-> r, lastSuccess |-> r]
          \/ coverage'[p] = [coverage[p] EXCEPT !.status = "NOT_CHECKED",
                                              !.reason = "IDENTIFIERS_CHANGED_AFTER_SNAPSHOT"]
      BY <2>6, Zenon DEF successfulCoverage
    <2>8. ASSUME coverage'[p] = [coverage[p] EXCEPT !.status = "NOT_CHECKED",
                                    !.reason = "IDENTIFIERS_CHANGED_AFTER_SNAPSHOT"]
          PROVE  CoverageOf(p)'
      <3>1. coverage'[p].status = "NOT_CHECKED"
        BY <2>5, <2>8 DEF CoverageRecords
      <3> QED BY <2>3, <3>1
    <2> QED BY <2>2, <2>4, <2>7, <2>8
  <1>4. ASSUME NEW r \in Runs, NEW decision \in Rejected, Reject(r, decision)
        PROVE  CoverageOf(p)'
    <2>1. /\ version' = version /\ snapshot' = snapshot /\ status'[r] \in Rejected
          /\ coverage'[p] = IF versionMatches(r, p) THEN failedCoverage(r, p) ELSE coverage[p]
      BY <1>4 DEF Reject, propertyVars, TypeOK
    <2>2. CASE ~versionMatches(r, p)
      BY <1>1, <2>1, <2>2, CoverageOfKept
    <2>3. CASE versionMatches(r, p)
      <3>1. coverage[p] \in CoverageRecords
        BY DEF TypeOK
      <3>2. coverage'[p].status = "FAILED" /\ coverage'[p].lastAttempt = r
        BY <2>1, <2>3, <3>1 DEF failedCoverage, CoverageRecords
      <3> QED BY <2>1, <2>3, <3>2 DEF CoverageOf, versionMatches, SnapshotVersions
    <2> QED BY <2>2, <2>3
  <1>5. ASSUME UNCHANGED <<coverage, version>> PROVE CoverageOf(p)'
    BY <1>1, <1>5, CoverageOfKept
  <1>6. ASSUME NEW r \in Runs,
               QueueRun(r) \/ ReadBins(r) \/ ReadVersionsAndSeal(r) \/ Scan(r)
        PROVE  UNCHANGED <<coverage, version>>
    BY <1>6 DEF QueueRun, ReadBins, ReadVersionsAndSeal, Scan, propertyVars
  <1>7. ASSUME \/ ExecutorRestart
               \/ \E v \in Violations, bin \in Bins \cup {NoBin} : SourceChange(v, bin)
               \/ UNCHANGED vars
        PROVE  UNCHANGED <<coverage, version>>
    BY <1>7 DEF ExecutorRestart, SourceChange, propertyVars, vars
  <1> QED BY <1>2, <1>3, <1>4, <1>5, <1>6, <1>7 DEF Next

(* CHECKED and FAILED never outlive the identifier version they were       *)
(* published for, and name a run that really ended that way.               *)
THEOREM CoverageNamesItsRun == Spec => []CoverageReflectsRun
  <1>1. Init => CoverageReflectsRun
    <2> SUFFICES ASSUME Init, NEW p \in Properties PROVE coverage[p].status = "NOT_CHECKED"
      BY DEF CoverageReflectsRun
    <2> QED BY DEF Init, NotChecked
  <1> QED BY <1>1, InitTypeOK, NextTypeOK, NextCoverageReflectsRun, PTL DEF Spec

-----------------------------------------------------------------------------
(* The last success *)

(* A property that does not exist yet has no BINs, no snapshot rows and no *)
(* success: creating it overwrites nothing.                                *)
UnregisteredIsBlank ==
  \A p \in Properties : ~Registered(p) =>
    /\ bins[p] = {}
    /\ coverage[p].lastSuccess = NoRun
    /\ \A row \in reading.rows : row.property # p
    /\ \A r \in Runs : \A row \in snapshot[r] : row.property # p

LEMMA NextUnregisteredIsBlank ==
  TypeOK /\ UnregisteredIsBlank /\ [Next]_vars => UnregisteredIsBlank'
  <1> SUFFICES ASSUME TypeOK, UnregisteredIsBlank, [Next]_vars,
                      NEW p \in Properties, ~Registered(p)'
               PROVE  /\ bins'[p] = {}
                      /\ coverage'[p].lastSuccess = NoRun
                      /\ \A row \in reading'.rows : row.property # p
                      /\ \A r \in Runs : \A row \in snapshot'[r] : row.property # p
    BY DEF UnregisteredIsBlank
  <1> DEFINE Goal == /\ bins'[p] = {}
                     /\ coverage'[p].lastSuccess = NoRun
                     /\ \A row \in reading'.rows : row.property # p
                     /\ \A r \in Runs : \A row \in snapshot'[r] : row.property # p
  <1>1. ASSUME ~Registered(p), UNCHANGED <<bins, coverage, reading, snapshot>> PROVE Goal
    BY <1>1 DEF UnregisteredIsBlank
  <1>2. ASSUME NEW q \in Properties, NEW s \in SUBSET Bins,
               CreateProperty(q, s) \/ ApplyEffectiveBinSet(q, s)
        PROVE  Goal
    <2>1. ~Registered(p) /\ (q # p \/ UNCHANGED vars)
      BY <1>2 DEF CreateProperty, ApplyEffectiveBinSet, Registered, TypeOK, vars
    <2>2. UNCHANGED <<bins[p], coverage[p], reading, snapshot>>
      BY <1>2, <2>1 DEF CreateProperty, ApplyEffectiveBinSet, TypeOK, runVars, vars
    <2> QED BY <2>1, <2>2 DEF UnregisteredIsBlank
  <1>3. ASSUME UNCHANGED version PROVE ~Registered(p)
    BY <1>3 DEF Registered
  <1>4. ASSUME NEW r \in Runs, QueueRun(r) \/ Scan(r) PROVE Goal
    BY <1>1, <1>3, <1>4 DEF QueueRun, Scan, propertyVars
  <1>5. ASSUME NEW r \in Runs, ReadBins(r) PROVE Goal
    BY <1>3, <1>5 DEF ReadBins, propertyVars, UnregisteredIsBlank
  <1>6. ASSUME NEW r \in Runs, ReadVersionsAndSeal(r) PROVE Goal
    BY <1>3, <1>6 DEF ReadVersionsAndSeal, propertyVars, UnregisteredIsBlank, NotReading, TypeOK
  <1>7. ASSUME NEW r \in Runs, Accept(r) PROVE Goal
    <2>1. ~InSnapshot(r, p)
      BY <1>3, <1>7 DEF Accept, propertyVars, UnregisteredIsBlank, InSnapshot, SnapshotVersions
    <2> QED BY <1>3, <1>7, <2>1 DEF Accept, propertyVars, UnregisteredIsBlank
  <1>8. ASSUME NEW r \in Runs, NEW decision \in Rejected, Reject(r, decision) PROVE Goal
    <2>1. ~versionMatches(r, p)
      BY <1>3, <1>8 DEF Reject, propertyVars, UnregisteredIsBlank, versionMatches, SnapshotVersions
    <2> QED BY <1>3, <1>8, <2>1 DEF Reject, propertyVars, UnregisteredIsBlank
  <1>9. CASE ExecutorRestart
    BY <1>3, <1>9 DEF ExecutorRestart, propertyVars, UnregisteredIsBlank, NotReading
  <1>10. ASSUME NEW v \in Violations, NEW bin \in Bins \cup {NoBin}, SourceChange(v, bin)
         PROVE  Goal
    BY <1>1, <1>3, <1>10 DEF SourceChange, propertyVars, runVars
  <1>11. CASE UNCHANGED vars
    BY <1>1, <1>3, <1>11 DEF vars
  <1> QED BY <1>2, <1>4, <1>5, <1>6, <1>7, <1>8, <1>9, <1>10, <1>11 DEF Next

LEMMA UnregisteredInvariant == Spec => []UnregisteredIsBlank
  <1>1. Init => UnregisteredIsBlank
    BY DEF Init, UnregisteredIsBlank, NotChecked, NotReading
  <1> QED BY <1>1, TypeCorrect, NextUnregisteredIsBlank, PTL DEF Spec

(* A success is recorded only by the transaction that completes its run,   *)
(* and no failure takes it away.                                           *)
THEOREM LastSuccessIsEarned == Spec => LastSuccessIsNewlyCompleted
  <1> DEFINE Earned(p) ==
        LET r == coverage'[p].lastSuccess
        IN r # coverage[p].lastSuccess =>
             r \in Runs /\ status[r] = "RUNNING" /\ status'[r] = "COMPLETED"
  <1>1. ASSUME TypeOK, UnregisteredIsBlank, [Next]_vars, NEW p \in Properties
        PROVE  Earned(p)
    <2>1. coverage[p] \in CoverageRecords
      BY <1>1 DEF TypeOK
    <2>2. ASSUME coverage'[p].lastSuccess = coverage[p].lastSuccess PROVE Earned(p)
      BY <2>2
    <2>3. ASSUME NEW q \in Properties, NEW s \in SUBSET Bins, CreateProperty(q, s)
          PROVE  coverage'[p].lastSuccess = coverage[p].lastSuccess
      BY <1>1, <2>3 DEF CreateProperty, NotChecked, UnregisteredIsBlank, TypeOK
    <2>4. ASSUME NEW q \in Properties, NEW s \in SUBSET Bins, ApplyEffectiveBinSet(q, s)
          PROVE  coverage'[p].lastSuccess = coverage[p].lastSuccess
      <3>1. invalidated(coverage[p], s).lastSuccess = coverage[p].lastSuccess
        BY <2>1 DEF invalidated, CoverageRecords
      <3>2. coverage'[p] \in {coverage[p], invalidated(coverage[p], s)}
        BY <1>1, <2>4 DEF ApplyEffectiveBinSet, TypeOK, vars
      <3> QED BY <3>1, <3>2
    <2>5. ASSUME NEW r \in Runs, Accept(r) PROVE Earned(p)
      <3>1. coverage'[p].lastSuccess \in {coverage[p].lastSuccess, r}
        BY <1>1, <2>1, <2>5 DEF Accept, successfulCoverage, CoverageRecords
      <3>2. status[r] = "RUNNING" /\ status'[r] = "COMPLETED"
        BY <1>1, <2>5 DEF Accept, TypeOK
      <3> QED BY <3>1, <3>2
    <2>6. ASSUME NEW r \in Runs, NEW decision \in Rejected, Reject(r, decision)
          PROVE  coverage'[p].lastSuccess = coverage[p].lastSuccess
      <3>1. coverage'[p] = IF versionMatches(r, p) THEN failedCoverage(r, p) ELSE coverage[p]
        BY <2>6 DEF Reject
      <3>2. failedCoverage(r, p).lastSuccess = coverage[p].lastSuccess
        BY <2>1 DEF failedCoverage, CoverageRecords
      <3> HIDE DEF Earned
      <3> QED BY <3>1, <3>2, Zenon
    <2>7. ASSUME \/ \E r \in Runs :
                      QueueRun(r) \/ ReadBins(r) \/ ReadVersionsAndSeal(r) \/ Scan(r)
                 \/ ExecutorRestart
                 \/ \E v \in Violations, bin \in Bins \cup {NoBin} : SourceChange(v, bin)
                 \/ UNCHANGED vars
          PROVE  coverage' = coverage
      BY <2>7 DEF QueueRun, ReadBins, ReadVersionsAndSeal, Scan, ExecutorRestart,
                  SourceChange, vars
    <2> HIDE DEF Earned
    <2> QED BY <1>1, <2>2, <2>3, <2>4, <2>5, <2>6, <2>7 DEF Next
  <1>2. TypeOK /\ UnregisteredIsBlank /\ [Next]_vars =>
          [\A p \in Properties :
             LET r == coverage'[p].lastSuccess
             IN r # coverage[p].lastSuccess =>
                  r \in Runs /\ status[r] = "RUNNING" /\ status'[r] = "COMPLETED"]_vars
    BY <1>1
  <1> QED BY <1>2, TypeCorrect, UnregisteredInvariant, PTL
          DEF Spec, LastSuccessIsNewlyCompleted

-----------------------------------------------------------------------------
(* Live violations *)

LEMMA NextRunsInOrder ==
  TypeOK /\ RunsInOrder /\ NoGaps /\ [Next]_vars => RunsInOrder' /\ NoGaps'
  <1> SUFFICES ASSUME TypeOK, RunsInOrder, NoGaps, [Next]_vars
               PROVE  RunsInOrder' /\ NoGaps'
    OBVIOUS
  <1>1. ASSUME UNCHANGED status PROVE RunsInOrder' /\ NoGaps'
    BY <1>1 DEF RunsInOrder, NoGaps
  <1>2. ASSUME NEW r \in Runs, QueueRun(r) PROVE RunsInOrder' /\ NoGaps'
    BY <1>2 DEF QueueRun, RunsInOrder, NoGaps, ActiveRuns, TypeOK, Active, Runs
  <1>3. ASSUME NEW r \in Runs, NEW next \in {"RUNNING", "COMPLETED"} \cup Rejected,
               status[r] \in Active, status' = [status EXCEPT ![r] = next]
        PROVE  RunsInOrder' /\ NoGaps'
    BY <1>3 DEF RunsInOrder, NoGaps, TypeOK, Active, Rejected, Runs
  <1>4. ASSUME NEW r \in Runs,
               \/ Scan(r)
               \/ Accept(r)
               \/ \E decision \in Rejected : Reject(r, decision)
        PROVE  RunsInOrder' /\ NoGaps'
    BY <1>3, <1>4 DEF Scan, Accept, Reject, Active
  <1>5. ASSUME \/ \E p \in Properties : \E s \in SUBSET Bins :
                    CreateProperty(p, s) \/ ApplyEffectiveBinSet(p, s)
               \/ \E r \in Runs : ReadBins(r) \/ ReadVersionsAndSeal(r)
               \/ ExecutorRestart
               \/ \E v \in Violations, bin \in Bins \cup {NoBin} : SourceChange(v, bin)
               \/ UNCHANGED vars
        PROVE  UNCHANGED status
    BY <1>5 DEF CreateProperty, ApplyEffectiveBinSet, ReadBins, ReadVersionsAndSeal,
                ExecutorRestart, SourceChange, vars, runVars
  <1> QED BY <1>1, <1>2, <1>4, <1>5 DEF Next

(* Once a run has started, its snapshot and its staged rows are final. *)
StartedRunsKept ==
  \A r \in Runs : status[r] \in {"RUNNING", "COMPLETED"} =>
    snapshot'[r] = snapshot[r] /\ staged'[r] = staged[r]

LEMMA NextStartedRunsKept == TypeOK /\ [Next]_vars => StartedRunsKept
  <1> SUFFICES ASSUME TypeOK, [Next]_vars PROVE StartedRunsKept
    OBVIOUS
  <1>1. ASSUME UNCHANGED <<snapshot, staged>> PROVE StartedRunsKept
    BY <1>1 DEF StartedRunsKept
  <1>2. ASSUME NEW r \in Runs, ReadVersionsAndSeal(r) PROVE StartedRunsKept
    BY <1>2 DEF ReadVersionsAndSeal, StartedRunsKept, TypeOK
  <1>3. ASSUME NEW r \in Runs, Scan(r) PROVE StartedRunsKept
    BY <1>3 DEF Scan, StartedRunsKept, TypeOK
  <1>4. ASSUME \/ \E p \in Properties : \E s \in SUBSET Bins :
                    CreateProperty(p, s) \/ ApplyEffectiveBinSet(p, s)
               \/ \E r \in Runs :
                    \/ QueueRun(r) \/ ReadBins(r) \/ Accept(r)
                    \/ \E decision \in Rejected : Reject(r, decision)
               \/ ExecutorRestart
               \/ \E v \in Violations, bin \in Bins \cup {NoBin} : SourceChange(v, bin)
               \/ UNCHANGED vars
        PROVE  UNCHANGED <<snapshot, staged>>
    BY <1>4 DEF CreateProperty, ApplyEffectiveBinSet, QueueRun, ReadBins, Accept, Reject,
                ExecutorRestart, SourceChange, vars, runVars
  <1> QED BY <1>1, <1>2, <1>3, <1>4 DEF Next

LEMMA NextStagedIsScanned ==
  TypeOK /\ StagedIsScanned /\ [Next]_vars => StagedIsScanned'
  <1> SUFFICES ASSUME TypeOK, StagedIsScanned, [Next]_vars,
                      NEW r \in Runs, NEW v \in Violations,
                      status'[r] \in {"RUNNING", "COMPLETED"}
               PROVE  (staged[r][v] \in ScannedBins(r) \cup {NoBin})'
    BY DEF StagedIsScanned
  <1>1. CASE status[r] \in {"RUNNING", "COMPLETED"}
    BY <1>1, NextStartedRunsKept DEF StartedRunsKept, StagedIsScanned, ScannedBins
  <1>2. CASE Scan(r)
    BY <1>2 DEF Scan, ScannedBins, TypeOK
  <1>3. status[r] \in {"RUNNING", "COMPLETED"} \/ Scan(r)
    BY DEF Next, CreateProperty, ApplyEffectiveBinSet, QueueRun, ReadBins,
           ReadVersionsAndSeal, Scan, Accept, Reject, ExecutorRestart, SourceChange,
           vars, runVars, TypeOK, Rejected
  <1> QED BY <1>1, <1>2, <1>3

(* The runs that count as accepted, and with them both halves of           *)
(* LiveIsLatestScan, change only in Accept.                                *)
LEMMA CompletedKept ==
  ASSUME TypeOK, [Next]_vars
  PROVE  \/ \E r \in Runs : Accept(r)
         \/ /\ live' = live
            /\ \A r \in Runs : status'[r] = "COMPLETED" <=> status[r] = "COMPLETED"
  <1> DEFINE Goal == /\ live' = live
                     /\ \A r \in Runs : status'[r] = "COMPLETED" <=> status[r] = "COMPLETED"
  <1>1. ASSUME UNCHANGED <<live, status>> PROVE Goal
    BY <1>1
  <1>2. ASSUME NEW r \in Runs, QueueRun(r) \/ Scan(r) PROVE Goal
    BY <1>2 DEF QueueRun, Scan, TypeOK
  <1>3. ASSUME NEW r \in Runs, NEW decision \in Rejected, Reject(r, decision) PROVE Goal
    BY <1>3 DEF Reject, TypeOK, Rejected
  <1>4. ASSUME \/ \E p \in Properties : \E s \in SUBSET Bins :
                    CreateProperty(p, s) \/ ApplyEffectiveBinSet(p, s)
               \/ \E r \in Runs : ReadBins(r) \/ ReadVersionsAndSeal(r)
               \/ ExecutorRestart
               \/ \E v \in Violations, bin \in Bins \cup {NoBin} : SourceChange(v, bin)
               \/ UNCHANGED vars
        PROVE  UNCHANGED <<live, status>>
    BY <1>4 DEF CreateProperty, ApplyEffectiveBinSet, ReadBins, ReadVersionsAndSeal,
                ExecutorRestart, SourceChange, vars, runVars
  <1> QED BY <1>1, <1>2, <1>3, <1>4 DEF Next

(* AcceptedScans(bin) after the step, for a BIN named in either state. *)
AcceptedScansAfter(bin) ==
  {r \in Runs : status'[r] = "COMPLETED" /\ bin \in {row.bin : row \in snapshot'[r]}}

(* LiveIsLatestScan after the step. *)
CurrentAfter(v) ==
  live'[v].current =>
    /\ live'[v].run \in AcceptedScansAfter(live'[v].bin)
    /\ \A r \in AcceptedScansAfter(live'[v].bin) : r <= live'[v].run
    /\ staged'[live'[v].run][v] = live'[v].bin

ServedAfter(r) ==
  status'[r] = "COMPLETED" /\ (\A s \in Runs : s > r => status'[s] # "COMPLETED") =>
    \A v \in Violations : staged'[r][v] # NoBin =>
      live'[v] = [bin |-> staged'[r][v], run |-> r, current |-> TRUE]

LEMMA LiveIsLatestScanAfter ==
  ASSUME \A v \in Violations : CurrentAfter(v), \A r \in Runs : ServedAfter(r)
  PROVE  LiveIsLatestScan'
  BY DEF CurrentAfter, ServedAfter, LiveIsLatestScan, AcceptedScansAfter, AcceptedScans,
         ScannedBins

LEMMA NextLiveIsLatestScan ==
  TypeOK /\ LiveInv /\ [Next]_vars => LiveIsLatestScan'
  <1> SUFFICES ASSUME TypeOK, LiveInv, [Next]_vars PROVE LiveIsLatestScan'
    OBVIOUS
  <1>0. /\ RunsInOrder /\ StagedIsScanned /\ LiveIsLatestScan
        /\ StartedRunsKept
    BY NextStartedRunsKept DEF LiveInv
  <1>1. ASSUME live' = live,
               \A r \in Runs : status'[r] = "COMPLETED" <=> status[r] = "COMPLETED"
        PROVE  LiveIsLatestScan'
    <2>1. ASSUME NEW r \in Runs, status[r] = "COMPLETED"
          PROVE  ScannedBins(r)' = ScannedBins(r) /\ staged'[r] = staged[r]
      BY <1>0, <2>1 DEF StartedRunsKept, ScannedBins
    <2>2. \A bin : AcceptedScansAfter(bin) = AcceptedScans(bin)
      BY <1>0, <1>1 DEF AcceptedScans, AcceptedScansAfter, StartedRunsKept, ScannedBins
    <2>3. \A bin : \A r \in AcceptedScans(bin) : r \in Runs /\ status[r] = "COMPLETED"
      BY DEF AcceptedScans
    <2>4. ASSUME NEW v \in Violations PROVE CurrentAfter(v)
      BY <1>0, <1>1, <2>1, <2>2, <2>3 DEF LiveIsLatestScan, CurrentAfter
    <2>5. ASSUME NEW r \in Runs PROVE ServedAfter(r)
      BY <1>0, <1>1, <2>1 DEF LiveIsLatestScan, ServedAfter
    <2> QED BY <2>4, <2>5, LiveIsLatestScanAfter
  <1>2. ASSUME NEW r \in Runs, Accept(r) PROVE LiveIsLatestScan'
    <2>1. /\ status[r] = "RUNNING"
          /\ status' = [status EXCEPT ![r] = "COMPLETED"]
          /\ staged' = staged /\ snapshot' = snapshot
          /\ \A v \in Violations : live'[v] = reconciled(r, promoted(r, v))
      BY <1>2 DEF Accept
    <2>2. \A s \in Runs : s > r => status[s] = "ABSENT"
      BY <1>0, <2>1 DEF RunsInOrder, Active
    <2>4. \A s \in Runs : status'[s] = IF s = r THEN "COMPLETED" ELSE status[s]
      BY <2>1 DEF TypeOK
    <2>5. \A bin : AcceptedScansAfter(bin) =
            AcceptedScans(bin) \cup (IF bin \in ScannedBins(r) THEN {r} ELSE {})
      BY <2>1, <2>4 DEF AcceptedScans, AcceptedScansAfter, ScannedBins
    <2>6. \A bin : \A s \in AcceptedScans(bin) : s \in Runs /\ s < r
      BY <2>1, <2>2 DEF AcceptedScans, Runs
    <2>7. ASSUME NEW v \in Violations, staged[r][v] # NoBin
          PROVE  live'[v] = [bin |-> staged[r][v], run |-> r, current |-> TRUE]
      BY <2>1, <2>7 DEF reconciled, promoted
    <2>8. ASSUME NEW v \in Violations, live'[v].current PROVE CurrentAfter(v)
      <3>1. CASE staged[r][v] # NoBin
        <4>0. live'[v] = [bin |-> staged[r][v], run |-> r, current |-> TRUE]
          BY <2>7, <3>1
        <4>1. live'[v].run = r /\ live'[v].bin = staged[r][v]
          BY <4>0
        <4>2. staged[r][v] \in ScannedBins(r)
          BY <1>0, <2>1, <3>1 DEF StagedIsScanned
        <4>3. r \in AcceptedScansAfter(staged[r][v])
          BY <2>5, <4>2
        <4>4. \A s \in AcceptedScansAfter(staged[r][v]) : s <= r
          BY <2>5, <2>6 DEF Runs
        <4> QED BY <2>1, <4>1, <4>3, <4>4 DEF CurrentAfter
      <3>2. CASE staged[r][v] = NoBin
        <4>1. live'[v] = reconciled(r, live[v])
          BY <2>1, <3>2 DEF promoted
        <4>2. live[v] \in [bin : Bins \cup {NoBin}, run : 0..MaxRuns, current : BOOLEAN]
          BY DEF TypeOK
        <4>3. ~(live[v].bin \in ScannedBins(r) /\ live[v].run # r)
          BY <2>8, <4>1, <4>2 DEF reconciled
        <4>4. live'[v] = live[v]
          BY <4>1, <4>3 DEF reconciled
        <4>5. live[v].run \in AcceptedScans(live[v].bin)
          BY <1>0, <2>8, <4>4 DEF LiveIsLatestScan
        <4>6. live[v].bin \notin ScannedBins(r)
          BY <2>6, <4>3, <4>5 DEF Runs
        <4>7. AcceptedScansAfter(live[v].bin) = AcceptedScans(live[v].bin)
          BY <2>5, <4>6
        <4> QED BY <1>0, <2>1, <2>8, <4>4, <4>7 DEF LiveIsLatestScan, CurrentAfter
      <3> QED BY <3>1, <3>2
    <2>9. ASSUME NEW s \in Runs, status'[s] = "COMPLETED",
                 \A t \in Runs : t > s => status'[t] # "COMPLETED"
          PROVE  s = r
      BY <2>2, <2>4, <2>9 DEF Runs
    <2>10. ASSUME NEW s \in Runs PROVE ServedAfter(s)
      BY <2>1, <2>7, <2>9 DEF ServedAfter
    <2>11. ASSUME NEW v \in Violations PROVE CurrentAfter(v)
      BY <2>8 DEF CurrentAfter
    <2> QED BY <2>10, <2>11, LiveIsLatestScanAfter
  <1> QED BY <1>1, <1>2, CompletedKept

(* Whatever the order of runs, BIN changes and source changes, a current   *)
(* violation is the one the latest accepted scan of its BIN saw, and       *)
(* nothing that scan saw is missing.                                       *)
THEOREM LiveStateIsLatestScan == Spec => []LiveIsLatestScan
  <1>1. Init => LiveInv
    <2> SUFFICES ASSUME Init PROVE LiveInv
      OBVIOUS
    <2>1. \A r \in Runs : status[r] = "ABSENT"
      BY DEF Init
    <2>2. \A v \in Violations : ~live[v].current
      BY DEF Init
    <2> QED BY <2>1, <2>2
            DEF LiveInv, RunsInOrder, NoGaps, StagedIsScanned, LiveIsLatestScan, Active
  <1>2. TypeOK /\ LiveInv /\ [Next]_vars => LiveInv'
    BY NextRunsInOrder, NextStagedIsScanned, NextLiveIsLatestScan DEF LiveInv
  <1>3. LiveInv => LiveIsLatestScan
    BY DEF LiveInv
  <1> QED BY <1>1, <1>2, <1>3, TypeCorrect, PTL DEF Spec
=============================================================================
