----------------------------- MODULE RunLifecycle -----------------------------
(***************************************************************************)
(* What an ECB ingestion run promises to everyone who reads                *)
(* ingestion_runs, whoever executes it and however often executors fail:   *)
(* runs of the dataset are serialised, a run moves QUEUED -> RUNNING ->    *)
(* terminal, its initialisation is sealed once, its start watermark is set *)
(* together with RUNNING, and a terminal decision is final.                *)
(* EcbIngestion implements this specification.                             *)
(***************************************************************************)
EXTENDS Naturals

CONSTANTS Runs,        \* identities a run may get
          Watermarks   \* values of the source's rowsUpdatedAt

VARIABLES status,      \* status[r]: lifecycle state of run r
          sealed,      \* sealed[r]: initialization_complete
          startWm      \* startWm[r]: source_watermark_at_start, 0 when NULL

rlVars == <<status, sealed, startWm>>

Active   == {"QUEUED", "RUNNING"}
Terminal == {"COMPLETED", "FAILED", "SOURCE_CHANGED"}
Statuses == {"ABSENT"} \cup Active \cup Terminal

RLInit ==
  /\ status  = [r \in Runs |-> "ABSENT"]
  /\ sealed  = [r \in Runs |-> FALSE]
  /\ startWm = [r \in Runs |-> 0]

(* A run is created only when no other run of the dataset is active. *)
Queue(r) ==
  /\ status[r] = "ABSENT"
  /\ \A s \in Runs : status[s] \notin Active
  /\ status' = [status EXCEPT ![r] = "QUEUED"]
  /\ UNCHANGED <<sealed, startWm>>

(* The snapshot and the batch definitions are committed, once and before   *)
(* anything else happens to the run.                                       *)
Seal(r) ==
  /\ status[r] = "QUEUED"
  /\ ~sealed[r]
  /\ sealed' = [sealed EXCEPT ![r] = TRUE]
  /\ UNCHANGED <<status, startWm>>

(* The start watermark and RUNNING are one transition. *)
StartRun(r, w) ==
  /\ status[r] = "QUEUED"
  /\ sealed[r]
  /\ startWm[r] = 0
  /\ status'  = [status EXCEPT ![r] = "RUNNING"]
  /\ startWm' = [startWm EXCEPT ![r] = w]
  /\ UNCHANGED sealed

(* Only a RUNNING run is accepted or rejected for a changed source; an     *)
(* active run of either kind may fail.                                     *)
Terminate(r, decision) ==
  /\ sealed[r]
  /\ \/ status[r] = "RUNNING" /\ decision \in Terminal
     \/ status[r] = "QUEUED" /\ decision = "FAILED"
  /\ status' = [status EXCEPT ![r] = decision]
  /\ UNCHANGED <<sealed, startWm>>

RLNext ==
  \E r \in Runs :
    \/ Queue(r)
    \/ Seal(r)
    \/ \E w \in Watermarks : StartRun(r, w)
    \/ \E decision \in Terminal : Terminate(r, decision)

RLSpec == RLInit /\ [][RLNext]_rlVars
=============================================================================
