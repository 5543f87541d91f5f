------------------------------ MODULE EcbCoverage ------------------------------
(***************************************************************************)
(* What the service tells its clients about a property: its BIN set with   *)
(* the identifier version, its ECB coverage and the live ECB violations.   *)
(* The resolver changes BIN sets at any time; one ingestion run at a time  *)
(* snapshots them, scans the source and publishes, accepted or rejected.   *)
(*                                                                         *)
(* Publication transactions and applyEffectiveBinSet lock the property     *)
(* rows they compare or change (SELECT ... FOR UPDATE), so each is one     *)
(* action.  The snapshot is read outside any transaction: Prisma's         *)
(* findMany with include issues one SELECT for the relationships and a     *)
(* second one for their properties, hence two actions.                     *)
(***************************************************************************)
EXTENDS Naturals

CONSTANTS
  Properties,    \* properties that may be registered, one per BBL
  Bins,          \* valid BINs
  Violations,    \* source ids of ECB violations
  NoBin,         \* the source does not hold the violation
  MaxRuns,       \* bound: ingestion runs, numbered by started_at
  MaxVersion,    \* bound: identifier_version
  MaxSource      \* bound: states the source goes through

ASSUME BinsAssumption == NoBin \notin Bins
ASSUME CoverageBoundsAssumption == MaxRuns \in Nat /\ MaxVersion \in Nat /\ MaxSource \in Nat

Runs == 1..MaxRuns
NoRun == 0

VARIABLES
  bins,        \* bins[p]: its rows of property_bins
  version,     \* version[p]: identifier_version, 0 before p is registered
  coverage,    \* coverage[p]: its row of property_dataset_coverage
  status,      \* status[r]: row of ingestion_runs
  snapshot,    \* snapshot[r]: rows of ingestion_run_property_bins
  sealed,      \* sealed[r]: initialization_complete
  reading,     \* the first SELECT of a snapshot in progress, and its rows
  staged,      \* staged[r][v]: BIN under which run r staged violation v
  live,        \* live[v]: row of ecb_violations
  sourceBin,   \* sourceBin[v]: BIN under which the source lists v
  moves        \* number of source changes so far

propertyVars == <<bins, version>>
runVars      == <<status, snapshot, sealed, reading, staged>>
sourceVars   == <<sourceBin, moves>>
vars == <<bins, version, coverage, status, snapshot, sealed, reading,
          staged, live, sourceBin, moves>>

Active   == {"QUEUED", "RUNNING"}
Rejected == {"FAILED", "SOURCE_CHANGED"}

CoverageRecords ==
  [status      : {"NOT_CHECKED", "CHECKED", "FAILED"},
   reason      : {"NONE", "NEVER_INGESTED", "NO_VALID_BIN", "IDENTIFIERS_CHANGED",
                  "IDENTIFIERS_CHANGED_AFTER_SNAPSHOT"},
   lastAttempt : 0..MaxRuns,
   lastSuccess : 0..MaxRuns]

SnapshotRows == [property : Properties, version : 0..MaxVersion, bin : Bins]

TypeOK ==
  /\ bins \in [Properties -> SUBSET Bins]
  /\ version \in [Properties -> 0..MaxVersion]
  /\ coverage \in [Properties -> CoverageRecords]
  /\ status \in [Runs -> {"ABSENT", "COMPLETED"} \cup Active \cup Rejected]
  /\ snapshot \in [Runs -> SUBSET SnapshotRows]
  /\ sealed \in [Runs -> BOOLEAN]
  /\ reading \in [open : BOOLEAN, rows : SUBSET [property : Properties, bin : Bins]]
  /\ staged \in [Runs -> [Violations -> Bins \cup {NoBin}]]
  /\ live \in [Violations -> [bin : Bins \cup {NoBin}, run : 0..MaxRuns, current : BOOLEAN]]
  /\ sourceBin \in [Violations -> Bins \cup {NoBin}]
  /\ moves \in 0..MaxSource

NotReading == [open |-> FALSE, rows |-> {}]

NotChecked(reason) ==
  [status |-> "NOT_CHECKED", reason |-> reason, lastAttempt |-> NoRun, lastSuccess |-> NoRun]

Init ==
  /\ bins = [p \in Properties |-> {}]
  /\ version = [p \in Properties |-> 0]
  /\ coverage = [p \in Properties |-> NotChecked("NEVER_INGESTED")]
  /\ status = [r \in Runs |-> "ABSENT"]
  /\ snapshot = [r \in Runs |-> {}]
  /\ sealed = [r \in Runs |-> FALSE]
  /\ reading = NotReading
  /\ staged = [r \in Runs |-> [v \in Violations |-> NoBin]]
  /\ live = [v \in Violations |-> [bin |-> NoBin, run |-> NoRun, current |-> FALSE]]
  /\ sourceBin \in [Violations -> Bins \cup {NoBin}]
  /\ moves = 0

-----------------------------------------------------------------------------
(* PropertyIdentityService *)

Registered(p) == version[p] > 0

initialReason(candidateBins) ==
  IF candidateBins = {} THEN "NO_VALID_BIN" ELSE "NEVER_INGESTED"

(* findOrCreateProperty, when the BBL is new. *)
CreateProperty(p, candidateBins) ==
  /\ ~Registered(p)
  /\ MaxVersion > 0
  /\ version' = [version EXCEPT ![p] = 1]
  /\ bins' = [bins EXCEPT ![p] = candidateBins]
  /\ coverage' = [coverage EXCEPT ![p] = NotChecked(initialReason(candidateBins))]
  /\ UNCHANGED <<runVars, live, sourceVars>>

(* Attempt-side fields are reset, what the last success was is kept. *)
invalidated_statusKept(c, nextBins) == [c EXCEPT !.lastAttempt = NoRun]
invalidated(c, nextBins) ==
  [c EXCEPT !.status = "NOT_CHECKED",
            !.reason = IF nextBins = {} THEN "NO_VALID_BIN" ELSE "IDENTIFIERS_CHANGED",
            !.lastAttempt = NoRun]

(* applyEffectiveBinSet: an equal set changes nothing, any other one       *)
(* replaces the rows, takes a new version and invalidates the coverage.    *)
ApplyEffectiveBinSet(p, nextBins) ==
  /\ Registered(p)
  /\ \/ nextBins = bins[p] /\ UNCHANGED vars
     \/ /\ nextBins # bins[p]
        /\ version[p] < MaxVersion
        /\ bins' = [bins EXCEPT ![p] = nextBins]
        /\ version' = [version EXCEPT ![p] = @ + 1]
        /\ coverage' = [coverage EXCEPT ![p] = invalidated(@, nextBins)]
        /\ UNCHANGED <<runVars, live, sourceVars>>

-----------------------------------------------------------------------------
(* The run: its snapshot and its scan *)

ActiveRuns == {r \in Runs : status[r] \in Active}

(* Runs are numbered in the order they are queued; one is active at most.  *)
QueueRun(r) ==
  /\ ActiveRuns = {}
  /\ status[r] = "ABSENT"
  /\ \A s \in Runs : s < r => status[s] # "ABSENT"
  /\ status' = [status EXCEPT ![r] = "QUEUED"]
  /\ UNCHANGED <<propertyVars, coverage, snapshot, sealed, reading, staged, live, sourceVars>>

(* loadLivePropertyBinSnapshotRows, first SELECT: the relationships. *)
ReadBins(r) ==
  /\ status[r] = "QUEUED" /\ ~sealed[r]
  /\ ~reading.open
  /\ reading' = [open |-> TRUE,
                 rows |-> {row \in [property : Properties, bin : Bins] : row.bin \in bins[row.property]}]
  /\ UNCHANGED <<propertyVars, coverage, status, snapshot, sealed, staged, live, sourceVars>>

(* Second SELECT: the versions of their properties as they are now.  Then  *)
(* the initialisation transaction stores the rows and seals the run; it    *)
(* touches nothing but the run.                                            *)
ReadVersionsAndSeal(r) ==
  /\ status[r] = "QUEUED" /\ ~sealed[r]
  /\ reading.open
  /\ snapshot' = [snapshot EXCEPT ![r] =
       {[property |-> row.property, version |-> version[row.property], bin |-> row.bin] :
          row \in reading.rows}]
  /\ sealed' = [sealed EXCEPT ![r] = TRUE]
  /\ reading' = NotReading
  /\ UNCHANGED <<propertyVars, coverage, status, staged, live, sourceVars>>

(* The executor dies between the two; the next one reads afresh. *)
ExecutorRestart ==
  /\ reading.open
  /\ reading' = NotReading
  /\ UNCHANGED <<propertyVars, coverage, status, snapshot, sealed, staged, live, sourceVars>>

ScannedBins(r) == {row.bin : row \in snapshot[r]}

(* RUNNING, and the batches.  A run that will be accepted staged the       *)
(* source's rows for its BINs at its start watermark (EcbIngestion), which *)
(* is the state of the source now; a rejected run's rows are never read.   *)
Scan(r) ==
  /\ status[r] = "QUEUED" /\ sealed[r]
  /\ status' = [status EXCEPT ![r] = "RUNNING"]
  /\ staged' = [staged EXCEPT ![r] =
       [v \in Violations |-> IF sourceBin[v] \in ScannedBins(r) THEN sourceBin[v] ELSE NoBin]]
  /\ UNCHANGED <<propertyVars, coverage, snapshot, sealed, reading, live, sourceVars>>

(* The city moves a violation to another BIN, adds or withdraws it. *)
SourceChange(v, bin) ==
  /\ moves < MaxSource
  /\ bin # sourceBin[v]
  /\ sourceBin' = [sourceBin EXCEPT ![v] = bin]
  /\ moves' = moves + 1
  /\ UNCHANGED <<propertyVars, coverage, runVars, live>>

-----------------------------------------------------------------------------
(* Publication *)

(* promoteEcbLiveState: every staged row becomes current under this run,   *)
(* then current rows in the scanned BINs that this run did not stamp are   *)
(* reconciled away.                                                        *)
promoted(r, v) ==
  IF staged[r][v] # NoBin THEN [bin |-> staged[r][v], run |-> r, current |-> TRUE]
                          ELSE live[v]

reconciled_skipped(r, row) == row
reconciled(r, row) ==
  IF row.bin \in ScannedBins(r) /\ row.run # r THEN [row EXCEPT !.current = FALSE] ELSE row

publishedByNewerRun(c, r) == c.lastAttempt > r \/ c.lastSuccess > r

SnapshotVersions(r, p) == {row.version : row \in {x \in snapshot[r] : x.property = p}}

versionMatches_ignored(r, p) == SnapshotVersions(r, p) # {}
versionMatches(r, p) == version[p] \in SnapshotVersions(r, p)

(* publishSuccessfulCoverage, for one property of the snapshot. *)
successfulCoverage(r, p) ==
  LET c == coverage[p]
  IN IF publishedByNewerRun(c, r) THEN c
     ELSE IF versionMatches(r, p)
       THEN [status |-> "CHECKED", reason |-> "NONE", lastAttempt |-> r, lastSuccess |-> r]
     ELSE IF c.lastSuccess # r
       THEN [c EXCEPT !.status = "NOT_CHECKED", !.reason = "IDENTIFIERS_CHANGED_AFTER_SNAPSHOT"]
     ELSE c

InSnapshot(r, p) == SnapshotVersions(r, p) # {}

(* AcceptedPublicationService.publish: live state, coverage and COMPLETED  *)
(* in one transaction.                                                     *)
Accept(r) ==
  /\ status[r] = "RUNNING"
  /\ live' = [v \in Violations |-> reconciled(r, promoted(r, v))]
  /\ coverage' = [p \in Properties |->
       IF InSnapshot(r, p) THEN successfulCoverage(r, p) ELSE coverage[p]]
  /\ status' = [status EXCEPT ![r] = "COMPLETED"]
  /\ UNCHANGED <<propertyVars, snapshot, sealed, reading, staged, sourceVars>>

(* publishFailedCoverage, for one property of the snapshot. *)
failedCoverage_successLost(r, p) ==
  [status |-> "FAILED", reason |-> "NONE", lastAttempt |-> r, lastSuccess |-> NoRun]
failedCoverage(r, p) ==
  [coverage[p] EXCEPT !.status = "FAILED", !.reason = "NONE", !.lastAttempt = r]

(* TerminalPublicationService.publishTerminalFailure: a run that has not   *)
(* started can only fail.                                                  *)
Reject(r, decision) ==
  /\ \/ status[r] = "RUNNING"
     \/ status[r] = "QUEUED" /\ sealed[r] /\ decision = "FAILED"
  /\ status' = [status EXCEPT ![r] = decision]
  /\ coverage' = [p \in Properties |->
       IF versionMatches(r, p) THEN failedCoverage(r, p) ELSE coverage[p]]
  /\ UNCHANGED <<propertyVars, snapshot, sealed, reading, staged, live, sourceVars>>

-----------------------------------------------------------------------------
(* The callers of the resolver never pass an empty set to                  *)
(* applyEffectiveBinSet; a new property may have none.                     *)
Next ==
  \/ \E p \in Properties :
       \/ \E candidateBins \in SUBSET Bins : CreateProperty(p, candidateBins)
       \/ \E nextBins \in (SUBSET Bins) \ {{}} : ApplyEffectiveBinSet(p, nextBins)
  \/ \E r \in Runs :
       \/ QueueRun(r) \/ ReadBins(r) \/ ReadVersionsAndSeal(r) \/ Scan(r) \/ Accept(r)
       \/ \E decision \in Rejected : Reject(r, decision)
  \/ ExecutorRestart
  \/ \E v \in Violations, bin \in Bins \cup {NoBin} : SourceChange(v, bin)

Spec == Init /\ [][Next]_vars

-----------------------------------------------------------------------------
(* Properties *)

(* Coverage that reports an attempt speaks of the property's current       *)
(* identifier version and of a run that ended the way it says: a BIN       *)
(* change before, during or after publication always takes CHECKED and     *)
(* FAILED away.                                                            *)
CoverageReflectsRun ==
  \A p \in Properties :
    LET c == coverage[p]
    IN /\ c.status = "CHECKED" =>
            /\ c.lastSuccess = c.lastAttempt
            /\ c.lastSuccess \in Runs
            /\ status[c.lastSuccess] = "COMPLETED"
            /\ version[p] \in SnapshotVersions(c.lastSuccess, p)
       /\ c.status = "FAILED" =>
            /\ c.lastAttempt \in Runs
            /\ status[c.lastAttempt] \in Rejected
            /\ version[p] \in SnapshotVersions(c.lastAttempt, p)

(* docs/architecture/storage.md: a failed current scan does not erase      *)
(* knowledge of the last successfully completed scan.  last_success_run_id *)
(* changes only in the transaction that completes that very run.           *)
LastSuccessIsNewlyCompleted ==
  [][\A p \in Properties :
       LET r == coverage'[p].lastSuccess
       IN r # coverage[p].lastSuccess =>
            r \in Runs /\ status[r] = "RUNNING" /\ status'[r] = "COMPLETED"]_vars

AcceptedScans(bin) == {r \in Runs : status[r] = "COMPLETED" /\ bin \in ScannedBins(r)}

(* A current live row comes from the latest accepted run that scanned its  *)
(* BIN, and the latest accepted run is served completely; a row that moved *)
(* between BINs or vanished is not left behind as current.                 *)
LiveIsLatestScan ==
  /\ \A v \in Violations : live[v].current =>
       /\ live[v].run \in AcceptedScans(live[v].bin)
       /\ \A r \in AcceptedScans(live[v].bin) : r <= live[v].run
       /\ staged[live[v].run][v] = live[v].bin
  /\ \A r \in Runs :
       status[r] = "COMPLETED" /\ (\A s \in Runs : s > r => status[s] # "COMPLETED") =>
         \A v \in Violations : staged[r][v] # NoBin =>
           live[v] = [bin |-> staged[r][v], run |-> r, current |-> TRUE]

(* docs/architecture/storage.md: "coverage is successful only when every   *)
(* valid BIN included in that run's persisted snapshot has been fetched    *)
(* ... and the property's current identifier_version still matches", and   *)
(* resolver.md: identifier_version represents the effective BIN set.  So a *)
(* CHECKED property has had every one of its BINs scanned.                 *)
CheckedMeansScanned ==
  \A p \in Properties : coverage[p].status = "CHECKED" =>
    bins[p] \subseteq
      {row.bin : row \in {x \in snapshot[coverage[p].lastSuccess] : x.property = p}}
=============================================================================
