---------------------------- MODULE RawStagingProofs ----------------------------
(***************************************************************************)
(* Proofs about RawStaging for any workers, source ids, contents, runs and *)
(* source changes.                                                         *)
(*                                                                         *)
(* VersionInv says that a source id and an :updated_at identify a content, *)
(* wherever a row of it still is; StageInv, that a row about to be staged  *)
(* has its raw version; FreshInv, that workers of the latest run hold      *)
(* nothing outdated while the source is as it was when the run started.    *)
(***************************************************************************)
EXTENDS RawStaging, TLAPS

InHand(x) ==
  (\E s \in Sources : x \in source[s]) \/ (\E w \in Workers : x \in todo[w] \/ x \in row[w])

SameKey(x, y) == x.source = y.source /\ x.at = y.at

VersionInv ==
  /\ \A x : InHand(x) => x.at <= clock
  /\ \A v \in raw : v.at <= clock
  /\ \A x, y : InHand(x) /\ InHand(y) /\ SameKey(x, y) => x.content = y.content
  /\ \A x, v : InHand(x) /\ v \in raw /\ SameKey(x, v) => x.content = v.content
  /\ \A u, v \in raw : SameKey(u, v) => u = v

StageInv ==
  /\ \A w \in Workers : \A r, q \in row[w] : r = q
  /\ \A w \in Workers : phase[w] = "stage" => \A r \in row[w] :
       Normalizable(r.content) /\ \E v \in raw : SameKey(v, r) /\ v.content = r.content
  /\ StagedIsDerivable
  /\ RefusedRowsKeepEvidence

Current(r) == r \in source[r.source]

FreshInv ==
  /\ \A w \in Workers : workerRun[w] <= run /\ (phase[w] = "idle" => todo[w] = {} /\ row[w] = {})
  /\ \A w \in Workers : phase[w] # "idle" => workerRun[w] \in Runs
  /\ \A w \in Workers : holder = w => workerRun[w] = run /\ run > 0
  /\ \A t \in staged : t.run <= run
  /\ \A s \in Sources : \A r \in source[s] : r.source = s
  /\ run > 0 => startedAt[run] <= clock
  /\ run > 0 /\ startedAt[run] = clock =>
       \A w \in Workers : workerRun[w] = run => \A r \in todo[w] \cup row[w] : Current(r)
  /\ UnchangedSourceIsStagedAsIs

IInv == TypeOK /\ VersionInv /\ StageInv /\ FreshInv

-----------------------------------------------------------------------------
THEOREM InitEstablishesIInv == Init => IInv
  <1> SUFFICES ASSUME Init PROVE IInv
    OBVIOUS
  <1> USE WorkersAssumption, RawBoundsAssumption DEF Init
  <1>1. TypeOK
    BY DEF TypeOK, Runs
  <1>2. \A x : ~InHand(x)
    BY DEF InHand
  <1>3. VersionInv
    BY <1>2 DEF VersionInv
  <1>4. StageInv
    BY DEF StageInv, StagedIsDerivable, RefusedRowsKeepEvidence
  <1>5. FreshInv
    BY DEF FreshInv, UnchangedSourceIsStagedAsIs
  <1> QED BY <1>1, <1>3, <1>4, <1>5 DEF IInv

-----------------------------------------------------------------------------
(* What storing a row does. *)

LEMMA VersionIsRecord ==
  ASSUME NEW r \in Rows, NEW n \in Runs
  PROVE  LET v == [source |-> r.source, at |-> r.at, content |-> r.content, firstSeenRun |-> n]
         IN  v \in RawVersions /\ v.source = r.source /\ v.at = r.at /\ v.content = r.content
  BY DEF Rows, RawVersions

LEMMA StoreRawEffect ==
  ASSUME TypeOK, VersionInv, NEW r \in Rows, InHand(r), NEW n \in Runs, StoreRaw(r, n)
  PROVE  /\ raw' \subseteq RawVersions
         /\ raw \subseteq raw'
         /\ \A v \in raw' \ raw : SameKey(v, r) /\ v.content = r.content
         /\ \A u, v \in raw' : SameKey(u, v) => u = v
         /\ \E v \in raw' : SameKey(v, r) /\ v.content = r.content
  <1> DEFINE new == [source |-> r.source, at |-> r.at, content |-> r.content, firstSeenRun |-> n]
  <1>1. new \in RawVersions /\ SameKey(new, r) /\ new.content = r.content
    BY VersionIsRecord DEF SameKey
  <1>2. CASE HasVersion(r)
    <2>1. raw' = raw
      BY <1>2 DEF StoreRaw
    <2>2. PICK v \in raw : SameKey(v, r)
      BY <1>2 DEF HasVersion, SameKey
    <2>3. v.content = r.content
      BY <2>2 DEF VersionInv, SameKey
    <2> QED BY <2>1, <2>2, <2>3 DEF TypeOK, VersionInv
  <1>3. CASE ~HasVersion(r)
    <2>1. raw' = raw \cup {new}
      BY <1>3 DEF StoreRaw
    <2>2. \A u, v \in raw' : SameKey(u, v) => u = v
      BY <1>1, <1>3, <2>1 DEF HasVersion, SameKey, VersionInv
    <2> HIDE DEF new
    <2> QED BY <1>1, <2>1, <2>2 DEF TypeOK
  <1> QED BY <1>2, <1>3

LEMMA StoreCandidateEffect ==
  ASSUME TypeOK, NEW r \in Rows, NEW n \in Runs, StoreCandidate(r, n)
  PROVE  /\ staged' \subseteq Candidates
         /\ \A t \in staged' \ staged :
              t.run = n /\ t.source = r.source /\ t.at = r.at /\ t.issue = NormalIssue(r.content)
  <1> DEFINE new == [run |-> n, source |-> r.source, at |-> r.at, issue |-> NormalIssue(r.content)]
  <1>1. NormalIssue(r.content) \in {"DATE", "NULL"}
    BY DEF NormalIssue
  <1>2. /\ new \in Candidates
        /\ new.run = n /\ new.source = r.source /\ new.at = r.at
        /\ new.issue = NormalIssue(r.content)
    BY <1>1 DEF Candidates, Rows
  <1>3. staged' \subseteq staged \cup {new}
    BY DEF StoreCandidate
  <1> HIDE DEF new
  <1> QED BY <1>2, <1>3 DEF TypeOK

LEMMA ThrowEffect ==
  ASSUME TypeOK, NEW w \in Workers, NEW r \in Rows, NEW b \in BOOLEAN, Throw(w, r, b)
  PROVE  /\ retained' \subseteq Keys /\ retained \subseteq retained'
         /\ \A k \in retained' \ retained : b /\ SameKey(k, r)
         /\ phase' = [phase EXCEPT ![w] = "idle"]
         /\ todo' = [todo EXCEPT ![w] = {}]
         /\ row' = [row EXCEPT ![w] = {}]
  <1> DEFINE key == [source |-> r.source, at |-> r.at]
  <1>1. key \in Keys /\ SameKey(key, r)
    BY DEF Keys, Rows, SameKey
  <1>2. retained' \in {retained, retained \cup {key}} /\ (~b => retained' = retained)
    BY DEF Throw
  <1> HIDE DEF key
  <1> QED BY <1>1, <1>2 DEF Throw, TypeOK

-----------------------------------------------------------------------------
(* What the kinds of steps change, seen by the invariant. *)

(* Rows appear only with a new :updated_at, one per step. *)
SourceChange(n) ==
  /\ n \in Rows /\ n.at = clock + 1 /\ clock' = clock + 1 /\ clock < MaxClock
  /\ source' \in [Sources -> SUBSET Rows]
  /\ \A s \in Sources : \A x \in source'[s] : x \in source[s] \/ (x = n /\ x.source = s)

LEMMA SourceUpdateEffect ==
  ASSUME TypeOK, NEW s \in Sources, NEW c \in Contents, SourceUpdate(s, c)
  PROVE  SourceChange([source |-> s, at |-> clock + 1, content |-> c])
  <1> DEFINE n == [source |-> s, at |-> clock + 1, content |-> c]
  <1>1. clock + 1 \in 1..MaxClock
    BY RawBoundsAssumption DEF TypeOK, SourceUpdate
  <1>2. n \in Rows /\ n.at = clock + 1 /\ n.source = s
    BY <1>1 DEF Rows
  <1>3. source' = [source EXCEPT ![s] = {n}] /\ clock' = clock + 1 /\ clock < MaxClock
    BY DEF SourceUpdate
  <1> HIDE DEF n
  <1>4. SourceChange(n)
    BY <1>2, <1>3 DEF TypeOK, SourceChange
  <1> QED BY <1>4 DEF n

LEMMA SourceDeleteEffect ==
  ASSUME TypeOK, NEW s \in Sources, SourceDelete(s)
  PROVE  \E n : SourceChange(n)
  <1>1. PICK x \in Rows : x \in source[s]
    BY DEF SourceDelete, TypeOK
  <1> DEFINE n == [source |-> s, at |-> clock + 1, content |-> x.content]
  <1>2. clock + 1 \in 1..MaxClock
    BY RawBoundsAssumption DEF TypeOK, SourceDelete
  <1>3. n \in Rows /\ n.at = clock + 1
    BY <1>1, <1>2 DEF Rows
  <1>4. source' = [source EXCEPT ![s] = {}] /\ clock' = clock + 1 /\ clock < MaxClock
    BY DEF SourceDelete
  <1> HIDE DEF n
  <1> QED BY <1>3, <1>4 DEF TypeOK, SourceChange

(* A source change leaves the rest alone and makes the latest run outdated. *)
LEMMA SourceChangeKeeps ==
  ASSUME IInv, NEW n, SourceChange(n),
         UNCHANGED <<runVars, workerVars, storeVars, retained>>
  PROVE  IInv'
  <1> USE DEF IInv
  <1>1. TypeOK'
    <2>1. clock' \in 0..MaxClock
      BY RawBoundsAssumption DEF TypeOK, SourceChange
    <2> QED BY <2>1 DEF TypeOK, SourceChange, runVars, workerVars, storeVars
  <1>2. \A x : InHand(x)' => InHand(x) \/ x = n
    BY DEF InHand, SourceChange, workerVars
  <1>3. \A x : InHand(x) => x.at < n.at
    <2>1. clock \in Nat /\ n.at = clock + 1
      BY RawBoundsAssumption DEF TypeOK, SourceChange
    <2>2. ASSUME NEW x, InHand(x) PROVE x \in Rows
      BY <2>2 DEF InHand, TypeOK
    <2> QED BY <2>1, <2>2 DEF VersionInv, Rows
  <1>4. \A v \in raw : v.at < n.at
    BY RawBoundsAssumption DEF VersionInv, TypeOK, RawVersions, SourceChange
  <1>5. VersionInv'
    <2>1. \A x : InHand(x)' => x.at <= clock'
      <3>1. ASSUME NEW x, InHand(x) PROVE x \in Rows
        BY <3>1 DEF InHand, TypeOK
      <3> QED BY <1>2, <3>1, RawBoundsAssumption DEF VersionInv, TypeOK, Rows, SourceChange
    <2>2. raw' = raw /\ \A v \in raw : v.at <= clock'
      BY RawBoundsAssumption DEF VersionInv, TypeOK, RawVersions, SourceChange, storeVars
    <2>3. \A x, y : InHand(x)' /\ InHand(y)' /\ SameKey(x, y) => x.content = y.content
      <3>1. \A x : InHand(x) => x.at # n.at
        BY <1>3, RawBoundsAssumption DEF SourceChange, TypeOK, Rows, InHand
      <3> QED BY <1>2, <3>1 DEF VersionInv, SameKey
    <2>4. \A x, v : InHand(x)' /\ v \in raw /\ SameKey(x, v) => x.content = v.content
      <3>1. \A v \in raw : v.at # n.at
        BY <1>4, RawBoundsAssumption DEF SourceChange, TypeOK, RawVersions
      <3> QED BY <1>2, <3>1 DEF VersionInv, SameKey
    <2> QED BY <2>1, <2>2, <2>3, <2>4 DEF VersionInv
  <1>6. StageInv'
    BY DEF StageInv, StagedIsDerivable, RefusedRowsKeepEvidence, workerVars, storeVars
  <1>7. FreshInv'
    <2>1. run' > 0 => startedAt'[run'] <= clock' /\ startedAt'[run'] # clock'
      BY RawBoundsAssumption DEF FreshInv, TypeOK, Runs, SourceChange, runVars
    <2>2. \A s \in Sources : \A r \in source'[s] : r.source = s
      BY DEF FreshInv, SourceChange
    <2> QED BY <2>1, <2>2 DEF FreshInv, UnchangedSourceIsStagedAsIs, runVars, workerVars, storeVars
  <1> QED BY <1>1, <1>5, <1>6, <1>7

-----------------------------------------------------------------------------
(* Steps of one worker that store nothing: it takes rows from the source   *)
(* or lets go of them. *)

(* A worker w keeps what it has, or drops it, or holds rows of the source. *)
Handles(w) ==
  /\ phase' \in [Workers -> {"idle", "page", "raw", "stage"}]
  /\ todo' \in [Workers -> SUBSET Rows] /\ row' \in [Workers -> SUBSET Rows]
  /\ \A v \in Workers : v # w =>
       phase'[v] = phase[v] /\ todo'[v] = todo[v] /\ row'[v] = row[v]
  /\ \A x \in todo'[w] \cup row'[w] :
       x \in todo[w] \cup row[w] \/ (holder = w /\ \E s \in Sources : x \in source[s])
  /\ row'[w] \subseteq row[w] \/ \E r : row'[w] = {r}
  /\ phase'[w] = "idle" => todo'[w] = {} /\ row'[w] = {}
  /\ phase'[w] # "idle" => phase[w] # "idle" \/ holder = w

LEMMA HandlesInHand ==
  ASSUME NEW w \in Workers, Handles(w), UNCHANGED source
  PROVE  \A x : InHand(x)' => InHand(x)
  <1> SUFFICES ASSUME NEW x, InHand(x)' PROVE InHand(x)
    OBVIOUS
  <1>1. CASE \E s \in Sources : x \in source'[s]
    BY <1>1 DEF InHand
  <1>2. CASE \E v \in Workers : x \in todo'[v] \/ x \in row'[v]
    <2>1. PICK v \in Workers : x \in todo'[v] \cup row'[v]
      BY <1>2
    <2>2. CASE v = w
      BY <2>1, <2>2 DEF Handles, InHand
    <2>3. CASE v # w
      BY <2>1, <2>3 DEF Handles, InHand
    <2> QED BY <2>2, <2>3
  <1> QED BY <1>1, <1>2 DEF InHand

(* Whatever a worker stores meanwhile, what it holds stays as fresh as the *)
(* source, because a row it takes from there while it has the authority is *)
(* current.                                                                *)
LEMMA HandlesKeepsFresh ==
  ASSUME IInv, NEW w \in Workers, Handles(w),
         UNCHANGED <<sourceVars, run, startedAt, workerRun>>,
         holder' \in {holder, NoWorker},
         \A t \in staged' : t \in staged
           \/ (t.run = workerRun[w] /\ \E r \in row[w] : t.source = r.source /\ t.at = r.at)
  PROVE  FreshInv'
  <1> USE DEF IInv, sourceVars
  <1>1. \A v \in Workers : workerRun'[v] <= run' /\ (phase'[v] = "idle" => todo'[v] = {} /\ row'[v] = {})
    BY DEF FreshInv, Handles
  <1>2. \A v \in Workers : phase'[v] # "idle" => workerRun'[v] \in Runs
    <2>1. run > 0 => run \in Runs
      BY RawBoundsAssumption DEF TypeOK, Runs
    <2> QED BY <2>1 DEF FreshInv, Handles
  <1>3. \A v \in Workers : holder' = v => workerRun'[v] = run' /\ run' > 0
    BY WorkersAssumption DEF FreshInv
  <1>4. \A t \in staged' : t.run <= run'
    BY DEF FreshInv
  <1>5. (\A s \in Sources : \A r \in source'[s] : r.source = s) /\ (run' > 0 => startedAt'[run'] <= clock')
    BY DEF FreshInv
  <1>6. ASSUME run' > 0, startedAt'[run'] = clock'
        PROVE  \A v \in Workers : workerRun'[v] = run' => \A r \in todo'[v] \cup row'[v] : Current(r)'
    <2> SUFFICES ASSUME NEW v \in Workers, workerRun[v] = run, NEW r \in todo'[v] \cup row'[v]
                 PROVE  Current(r)
      BY DEF Current
    <2>1. CASE r \in todo[v] \cup row[v]
      BY <1>6, <2>1 DEF FreshInv
    <2>2. CASE r \notin todo[v] \cup row[v]
      <3>1. PICK s \in Sources : r \in source[s]
        BY <2>2 DEF Handles
      <3> QED BY <3>1 DEF FreshInv, Current
    <2> QED BY <2>1, <2>2
  <1>7. UnchangedSourceIsStagedAsIs'
    <2> SUFFICES ASSUME run > 0, startedAt[run] = clock, NEW t \in staged', t.run = run
                 PROVE  \E r \in source[t.source] : r.at = t.at
      BY DEF UnchangedSourceIsStagedAsIs
    <2>1. CASE t \in staged
      BY <2>1 DEF FreshInv, UnchangedSourceIsStagedAsIs
    <2>2. CASE t \notin staged
      <3>1. PICK r \in row[w] : workerRun[w] = run /\ t.source = r.source /\ t.at = r.at
        BY <2>2
      <3>2. Current(r)
        BY <3>1 DEF FreshInv
      <3> QED BY <3>1, <3>2 DEF Current
    <2> QED BY <2>1, <2>2
  <1> QED BY <1>1, <1>2, <1>3, <1>4, <1>5, <1>6, <1>7 DEF FreshInv

(* The versions, and the evidence of what w may stage, while it stores.    *)
LEMMA HandlesKeepsVersions ==
  ASSUME IInv, NEW w \in Workers, Handles(w), UNCHANGED sourceVars,
         raw' \subseteq RawVersions, raw \subseteq raw',
         \A u, v \in raw' : SameKey(u, v) => u = v,
         \A v \in raw' \ raw : \E r : InHand(r) /\ SameKey(v, r) /\ v.content = r.content
  PROVE  VersionInv'
  <1>1. \A x : InHand(x)' => InHand(x)
    BY HandlesInHand DEF sourceVars
  <1>2. \A v \in raw' : v.at <= clock'
    BY DEF IInv, VersionInv, SameKey, sourceVars
  <1>3. ASSUME NEW x, InHand(x), NEW v \in raw', SameKey(x, v) PROVE x.content = v.content
    BY <1>3 DEF IInv, VersionInv, SameKey
  <1> QED BY <1>1, <1>2, <1>3 DEF IInv, VersionInv, sourceVars

LEMMA HandlesKeepsEvidence ==
  ASSUME IInv, NEW w \in Workers, Handles(w),
         raw \subseteq raw',
         phase'[w] = "stage" => \A r \in row'[w] :
           Normalizable(r.content) /\ \E v \in raw' : SameKey(v, r) /\ v.content = r.content,
         \A t \in staged' \ staged : \E v \in raw' :
           /\ v.source = t.source /\ v.at = t.at
           /\ Normalizable(v.content) /\ t.issue = NormalIssue(v.content),
         \A k \in retained' \ retained : \E v \in raw' : v.source = k.source /\ v.at = k.at
  PROVE  StageInv'
  <1> USE DEF IInv, StageInv
  <1>1. ASSUME NEW v \in Workers, phase'[v] = "stage", NEW r \in row'[v]
        PROVE  Normalizable(r.content) /\ \E u \in raw' : SameKey(u, r) /\ u.content = r.content
    <2>1. CASE v = w
      BY <1>1, <2>1
    <2>2. CASE v # w
      BY <1>1, <2>2 DEF Handles
    <2> QED BY <2>1, <2>2
  <1>2. StagedIsDerivable'
    <2> SUFFICES ASSUME NEW t \in staged'
                 PROVE  \E v \in raw' : /\ v.source = t.source /\ v.at = t.at
                                        /\ Normalizable(v.content) /\ t.issue = NormalIssue(v.content)
      BY DEF StagedIsDerivable
    <2> QED BY DEF StagedIsDerivable
  <1>3. RefusedRowsKeepEvidence'
    BY DEF RefusedRowsKeepEvidence
  <1>4. \A v \in Workers : \A r, q \in row'[v] : r = q
    BY DEF Handles
  <1> QED BY <1>1, <1>2, <1>3, <1>4

-----------------------------------------------------------------------------
(* The steps of a worker, one by one. *)

LEMMA LoseAuthorityKeeps == IInv /\ LoseAuthority => IInv'
  <1> SUFFICES ASSUME IInv, LoseAuthority PROVE IInv'
    OBVIOUS
  <1> USE DEF IInv, LoseAuthority, sourceVars, workerVars, storeVars
  <1>1. TypeOK'
    BY DEF TypeOK
  <1>2. VersionInv'
    BY DEF VersionInv, InHand
  <1>3. StageInv'
    BY DEF StageInv, StagedIsDerivable, RefusedRowsKeepEvidence
  <1>4. FreshInv'
    BY WorkersAssumption DEF FreshInv, UnchangedSourceIsStagedAsIs, Current
  <1> QED BY <1>1, <1>2, <1>3, <1>4

(* A new run: nothing is staged for it, and its only worker holds nothing. *)
LEMMA StartRunKeeps ==
  ASSUME IInv, NEW w \in Workers, StartRun(w) PROVE IInv'
  <1> USE DEF IInv, sourceVars, storeVars
  <1>1. run + 1 \in Runs /\ run \in Nat
    BY RawBoundsAssumption DEF StartRun, TypeOK, Runs
  <1>2. TypeOK'
    BY <1>1 DEF TypeOK, StartRun, Runs
  <1>3. VersionInv'
    BY DEF VersionInv, InHand, StartRun
  <1>4. StageInv'
    BY DEF StageInv, StagedIsDerivable, RefusedRowsKeepEvidence, StartRun
  <1>5. run' = run + 1 /\ startedAt'[run'] = clock'
    BY <1>1 DEF StartRun, TypeOK
  <1>6. \A v \in Workers : workerRun'[v] = (IF v = w THEN run + 1 ELSE workerRun[v])
    BY DEF StartRun, TypeOK
  <1>7. \A v \in Workers : workerRun[v] \in Nat /\ workerRun[v] <= run
    BY RawBoundsAssumption DEF FreshInv, TypeOK
  <1>8. \A t \in staged : t.run \in Nat /\ t.run <= run
    BY DEF FreshInv, TypeOK, Candidates, Runs
  <1>9. phase[w] = "idle" /\ todo[w] = {} /\ row[w] = {}
    BY DEF FreshInv, StartRun
  <1>10. FreshInv'
    <2>1. UNCHANGED <<source, clock, phase, todo, row, staged>> /\ holder' = w
      BY DEF StartRun
    <2>2. \A v \in Workers : workerRun'[v] <= run' /\ (workerRun'[v] = run' => v = w)
      BY <1>1, <1>5, <1>6, <1>7
    <2>3. \A t \in staged' : t.run <= run' /\ t.run # run'
      BY <1>1, <1>5, <1>8, <2>1
    <2>4. \A v \in Workers : phase'[v] # "idle" => workerRun'[v] \in Runs
      BY <1>6, <1>9, <2>1 DEF FreshInv
    <2>5. holder' = w /\ workerRun'[w] = run' /\ run' > 0
      BY <1>1, <1>5, <1>6, <2>1
    <2>6. clock' <= clock'
      BY RawBoundsAssumption, <2>1 DEF TypeOK
    <2>7. UnchangedSourceIsStagedAsIs'
      BY <2>3 DEF UnchangedSourceIsStagedAsIs
    <2> QED BY <1>5, <1>9, <2>1, <2>2, <2>3, <2>4, <2>5, <2>6, <2>7 DEF FreshInv
  <1> QED BY <1>2, <1>3, <1>4, <1>10

LEMMA ResumeRunKeeps ==
  ASSUME IInv, NEW w \in Workers, ResumeRun(w) PROVE IInv'
  <1> USE DEF IInv, sourceVars, storeVars
  <1>1. TypeOK'
    BY DEF TypeOK, ResumeRun
  <1>2. VersionInv'
    BY DEF VersionInv, InHand, ResumeRun
  <1>3. StageInv'
    BY DEF StageInv, StagedIsDerivable, RefusedRowsKeepEvidence, ResumeRun
  <1>4. \A v \in Workers : workerRun'[v] = (IF v = w THEN run ELSE workerRun[v])
    BY DEF ResumeRun, TypeOK
  <1>5. phase[w] = "idle" /\ todo[w] = {} /\ row[w] = {} /\ run <= run /\ run > 0
    BY RawBoundsAssumption DEF FreshInv, ResumeRun, TypeOK
  <1>6. FreshInv'
    BY <1>4, <1>5 DEF FreshInv, ResumeRun, UnchangedSourceIsStagedAsIs, Current
  <1> QED BY <1>1, <1>2, <1>3, <1>6

(* Steps that store nothing. *)
LEMMA QuietKeeps ==
  ASSUME IInv, NEW w \in Workers, Handles(w),
         UNCHANGED <<sourceVars, run, startedAt, workerRun, storeVars, retained>>,
         holder' \in {holder, NoWorker},
         phase'[w] = "stage" => FALSE
  PROVE  IInv'
  <1> USE DEF storeVars, sourceVars
  <1>1. TypeOK'
    BY DEF IInv, TypeOK, Handles
  <1>2. VersionInv'
    BY HandlesKeepsVersions DEF IInv, VersionInv, TypeOK
  <1>3. StageInv'
    BY HandlesKeepsEvidence
  <1>4. FreshInv'
    BY HandlesKeepsFresh
  <1> QED BY <1>1, <1>2, <1>3, <1>4 DEF IInv

LEMMA FetchPageHandles ==
  ASSUME IInv, NEW w \in Workers, NEW sources \in SUBSET Sources, FetchPage(w, sources)
  PROVE  Handles(w) /\ phase'[w] = "page"
  <1> DEFINE page == UNION {source[s] : s \in sources}
  <1>1. \A x \in page : \E s \in Sources : x \in source[s]
    OBVIOUS
  <1>2. page \subseteq Rows
    BY <1>1 DEF IInv, TypeOK
  <1>3. phase[w] = "idle" /\ row[w] = {}
    BY DEF FetchPage, IInv, FreshInv
  <1>4. todo' = [todo EXCEPT ![w] = page] /\ phase' = [phase EXCEPT ![w] = "page"]
        /\ row' = row /\ holder = w
    BY DEF FetchPage
  <1> HIDE DEF page
  <1> QED BY <1>1, <1>2, <1>3, <1>4 DEF Handles, IInv, TypeOK

LEMMA TakeRowHandles ==
  ASSUME IInv, NEW w \in Workers, NEW r \in todo[w], TakeRow(w, r)
  PROVE  Handles(w) /\ phase'[w] = "raw"
  BY DEF TakeRow, Handles, IInv, TypeOK

LEMMA LeavePageHandles ==
  ASSUME IInv, NEW w \in Workers, LeavePage(w) \/ Crash(w)
  PROVE  Handles(w) /\ phase'[w] = "idle"
  BY DEF LeavePage, Crash, Handles, IInv, TypeOK

LEMMA ThrowHandles ==
  ASSUME IInv, NEW w \in Workers, NEW r \in Rows, NEW b \in BOOLEAN, Throw(w, r, b)
  PROVE  Handles(w) /\ phase'[w] = "idle"
  <1>1. /\ phase' = [phase EXCEPT ![w] = "idle"] /\ todo' = [todo EXCEPT ![w] = {}]
        /\ row' = [row EXCEPT ![w] = {}]
    BY DEF Throw
  <1> QED BY <1>1 DEF Handles, IInv, TypeOK

(* A row in hand while its worker is busy belongs to a run. *)
LEMMA BusyRow ==
  ASSUME IInv, NEW w \in Workers, phase[w] # "idle", NEW r \in row[w]
  PROVE  r \in Rows /\ InHand(r) /\ workerRun[w] \in Runs
  BY DEF IInv, TypeOK, FreshInv, InHand

LEMMA RefuseTransportKeeps ==
  ASSUME IInv, NEW w \in Workers, RefuseTransport(w) PROVE IInv'
  <1>1. PICK r \in row[w] : Throw(w, r, FALSE)
    BY DEF RefuseTransport
  <1>2. r \in Rows /\ phase[w] = "raw"
    BY DEF IInv, TypeOK, RefuseTransport
  <1>3. retained' = retained
    BY <1>1 DEF Throw
  <1>4. Handles(w) /\ phase'[w] = "idle"
    BY <1>1, <1>2, ThrowHandles
  <1> QED BY <1>3, <1>4, QuietKeeps DEF RefuseTransport, runVars

(* What StoreRaw leaves to the invariant, whatever the worker does next. *)
LEMMA StoringKeeps ==
  ASSUME IInv, NEW w \in Workers, phase[w] # "idle", NEW r \in row[w],
         UNCHANGED raw \/ StoreRaw(r, workerRun[w]),
         Handles(w), UNCHANGED <<sourceVars, runVars, workerRun, staged>>,
         retained' \subseteq Keys,
         phase'[w] = "stage" => row' = row /\ Normalizable(r.content)
                                /\ StoreRaw(r, workerRun[w]),
         \A k \in retained' \ retained : SameKey(k, r) /\ StoreRaw(r, workerRun[w])
  PROVE  IInv'
  <1> USE DEF sourceVars, runVars
  <1>1. r \in Rows /\ InHand(r) /\ workerRun[w] \in Runs
    BY BusyRow
  <1>2. StoreRaw(r, workerRun[w]) => \E v \in raw' : SameKey(v, r) /\ v.content = r.content
    BY <1>1, StoreRawEffect DEF IInv
  <1>3. /\ raw' \subseteq RawVersions /\ raw \subseteq raw'
        /\ \A v \in raw' \ raw : SameKey(v, r) /\ v.content = r.content
        /\ \A u, v \in raw' : SameKey(u, v) => u = v
    BY <1>1, StoreRawEffect DEF IInv, TypeOK, VersionInv
  <1>4. TypeOK'
    BY <1>3 DEF IInv, TypeOK, Handles
  <1>5. VersionInv'
    BY <1>1, <1>3, HandlesKeepsVersions
  <1>6. \A k \in retained' \ retained : \E v \in raw' : v.source = k.source /\ v.at = k.at
    BY <1>2 DEF SameKey
  <1>7. phase'[w] = "stage" => \A q \in row'[w] :
          Normalizable(q.content) /\ \E v \in raw' : SameKey(v, q) /\ v.content = q.content
    BY <1>2 DEF IInv, StageInv
  <1>8. StageInv'
    BY <1>3, <1>6, <1>7, HandlesKeepsEvidence
  <1>9. FreshInv'
    BY HandlesKeepsFresh
  <1> QED BY <1>4, <1>5, <1>8, <1>9 DEF IInv

LEMMA PersistRawKeeps ==
  ASSUME IInv, NEW w \in Workers, PersistRaw(w) PROVE IInv'
  <1>1. PICK r \in row[w] :
          /\ Identifiable(r.content) /\ StoreRaw(r, workerRun[w])
          /\ IF Normalizable(r.content)
             THEN phase' = [phase EXCEPT ![w] = "stage"] /\ UNCHANGED <<todo, row, retained>>
             ELSE Throw(w, r, TRUE)
    BY DEF PersistRaw
  <1>2. r \in Rows /\ phase[w] = "raw" /\ UNCHANGED <<sourceVars, runVars, workerRun, staged>>
    BY DEF IInv, TypeOK, PersistRaw
  <1>3. CASE Normalizable(r.content)
    <2>1. phase' = [phase EXCEPT ![w] = "stage"] /\ UNCHANGED <<todo, row, retained>>
      BY <1>1, <1>3
    <2>2. Handles(w)
      BY <1>2, <2>1 DEF Handles, IInv, TypeOK
    <2>3. retained' \subseteq Keys
      BY <2>1 DEF IInv, TypeOK
    <2> QED BY <1>1, <1>2, <1>3, <2>1, <2>2, <2>3, StoringKeeps
  <1>4. CASE ~Normalizable(r.content)
    <2>1. Throw(w, r, TRUE)
      BY <1>1, <1>4
    <2>2. Handles(w) /\ phase'[w] = "idle"
      BY <1>2, <2>1, ThrowHandles
    <2>3. retained' \subseteq Keys /\ \A k \in retained' \ retained : SameKey(k, r)
      BY <1>2, <2>1, ThrowEffect DEF IInv
    <2> QED BY <1>1, <1>2, <2>2, <2>3, StoringKeeps
  <1> QED BY <1>3, <1>4

LEMMA RawFailsKeeps ==
  ASSUME IInv, NEW w \in Workers, RawFails(w) PROVE IInv'
  <1>1. PICK r \in row[w] :
          (UNCHANGED raw \/ StoreRaw(r, workerRun[w])) /\ Throw(w, r, FALSE)
    BY DEF RawFails
  <1>2. r \in Rows /\ phase[w] = "raw" /\ UNCHANGED <<sourceVars, runVars, workerRun, staged>>
    BY DEF IInv, TypeOK, RawFails
  <1>3. Handles(w) /\ phase'[w] = "idle"
    BY <1>1, <1>2, ThrowHandles
  <1>4. retained' = retained /\ retained' \subseteq Keys
    BY <1>1 DEF Throw, IInv, TypeOK
  <1> QED BY <1>1, <1>2, <1>3, <1>4, StoringKeeps

(* What is staged has its evidence already, and is what w holds. *)
LEMMA StagingKeeps ==
  ASSUME IInv, NEW w \in Workers, phase[w] = "stage", NEW r \in row[w],
         UNCHANGED staged \/ StoreCandidate(r, workerRun[w]),
         Handles(w), phase'[w] # "stage",
         UNCHANGED <<sourceVars, runVars, workerRun, raw>>,
         retained' \subseteq Keys, \A k \in retained' \ retained : SameKey(k, r)
  PROVE  IInv'
  <1> USE DEF sourceVars, runVars
  <1>1. r \in Rows /\ workerRun[w] \in Runs
    BY BusyRow
  <1>2. /\ staged' \subseteq Candidates
        /\ \A t \in staged' \ staged : t.run = workerRun[w] /\ t.source = r.source
             /\ t.at = r.at /\ t.issue = NormalIssue(r.content)
    BY <1>1, StoreCandidateEffect DEF IInv, TypeOK
  <1>3. PICK v \in raw : SameKey(v, r) /\ v.content = r.content /\ Normalizable(v.content)
    BY DEF IInv, StageInv
  <1>4. TypeOK'
    BY <1>2 DEF IInv, TypeOK, Handles
  <1>5. VersionInv'
    BY HandlesKeepsVersions DEF IInv, VersionInv, TypeOK
  <1>6. \A t \in staged' \ staged : \E u \in raw' :
          /\ u.source = t.source /\ u.at = t.at
          /\ Normalizable(u.content) /\ t.issue = NormalIssue(u.content)
    BY <1>2, <1>3 DEF SameKey
  <1>7. \A k \in retained' \ retained : \E u \in raw' : u.source = k.source /\ u.at = k.at
    BY <1>3 DEF SameKey
  <1>8. StageInv'
    BY <1>6, <1>7, HandlesKeepsEvidence
  <1>9. FreshInv'
    BY <1>2, HandlesKeepsFresh
  <1> QED BY <1>4, <1>5, <1>8, <1>9 DEF IInv

LEMMA UpsertStagingKeeps ==
  ASSUME IInv, NEW w \in Workers, UpsertStaging(w) PROVE IInv'
  <1>1. PICK r \in row[w] : StoreCandidate(r, workerRun[w])
    BY DEF UpsertStaging, StageFor
  <1>2. phase[w] = "stage" /\ retained' = retained
        /\ UNCHANGED <<sourceVars, runVars, workerRun, raw>>
    BY DEF UpsertStaging
  <1>3. Handles(w) /\ phase'[w] = "page"
    BY DEF UpsertStaging, Handles, IInv, TypeOK
  <1>4. retained' \subseteq Keys
    BY <1>2 DEF IInv, TypeOK
  <1> QED BY <1>1, <1>2, <1>3, <1>4, StagingKeeps

LEMMA StagingFailsKeeps ==
  ASSUME IInv, NEW w \in Workers, StagingFails(w) PROVE IInv'
  <1>1. PICK r \in row[w] :
          (UNCHANGED staged \/ StoreCandidate(r, workerRun[w])) /\ Throw(w, r, TRUE)
    BY DEF StagingFails, StageFor
  <1>2. r \in Rows /\ phase[w] = "stage" /\ UNCHANGED <<sourceVars, runVars, workerRun, raw>>
    BY DEF IInv, TypeOK, StagingFails
  <1>3. Handles(w) /\ phase'[w] = "idle"
    BY <1>1, <1>2, ThrowHandles
  <1>4. retained' \subseteq Keys /\ \A k \in retained' \ retained : SameKey(k, r)
    BY <1>1, <1>2, ThrowEffect DEF IInv
  <1> QED BY <1>1, <1>2, <1>3, <1>4, StagingKeeps

-----------------------------------------------------------------------------
(* The strengthened invariant is kept by every step, whoever takes it. *)
THEOREM NextKeepsIInv == IInv /\ [Next]_vars => IInv'
  <1> SUFFICES ASSUME IInv, [Next]_vars PROVE IInv'
    OBVIOUS
  <1>1. ASSUME NEW s \in Sources, NEW c \in Contents, SourceUpdate(s, c) PROVE IInv'
    <2>1. UNCHANGED <<runVars, workerVars, storeVars, retained>>
      BY <1>1 DEF SourceUpdate
    <2> QED BY <1>1, <2>1, SourceUpdateEffect, SourceChangeKeeps DEF IInv
  <1>2. ASSUME NEW s \in Sources, SourceDelete(s) PROVE IInv'
    <2>1. UNCHANGED <<runVars, workerVars, storeVars, retained>>
      BY <1>2 DEF SourceDelete
    <2> QED BY <1>2, <2>1, SourceDeleteEffect, SourceChangeKeeps DEF IInv
  <1>3. CASE LoseAuthority
    BY <1>3, LoseAuthorityKeeps
  <1>4. ASSUME NEW w \in Workers, WorkerStep(w) PROVE IInv'
    <2>1. CASE StartRun(w)
      BY <2>1, StartRunKeeps
    <2>2. CASE ResumeRun(w)
      BY <2>2, ResumeRunKeeps
    <2>3. ASSUME NEW sources \in SUBSET Sources, FetchPage(w, sources) PROVE IInv'
      BY <2>3, FetchPageHandles, QuietKeeps DEF FetchPage, runVars
    <2>4. ASSUME NEW r \in todo[w], TakeRow(w, r) PROVE IInv'
      BY <2>4, TakeRowHandles, QuietKeeps DEF TakeRow, runVars
    <2>5. CASE LeavePage(w)
      BY <2>5, LeavePageHandles, QuietKeeps DEF LeavePage, runVars
    <2>6. CASE Crash(w)
      BY <2>6, LeavePageHandles, QuietKeeps DEF Crash
    <2>7. CASE RefuseTransport(w)
      BY <2>7, RefuseTransportKeeps
    <2>8. CASE PersistRaw(w)
      BY <2>8, PersistRawKeeps
    <2>9. CASE UpsertStaging(w)
      BY <2>9, UpsertStagingKeeps
    <2>10. CASE RawFails(w)
      BY <2>10, RawFailsKeeps
    <2>11. CASE StagingFails(w)
      BY <2>11, StagingFailsKeeps
    <2> QED BY <1>4, <2>1, <2>2, <2>3, <2>4, <2>5, <2>6, <2>7, <2>8, <2>9, <2>10, <2>11
         DEF WorkerStep
  <1>5. CASE UNCHANGED vars
    BY <1>5 DEF vars, IInv, TypeOK, VersionInv, StageInv, FreshInv, InHand, Current,
                StagedIsDerivable, RefusedRowsKeepEvidence, UnchangedSourceIsStagedAsIs
  <1> QED BY <1>1, <1>2, <1>3, <1>4, <1>5 DEF Next

LEMMA SpecImpliesIInv == Spec => []IInv
  BY InitEstablishesIInv, NextKeepsIInv, PTL DEF Spec

-----------------------------------------------------------------------------
(* Workers hold rows of the source, and stores hold well-formed versions   *)
(* and candidates.                                                         *)
THEOREM TypeCorrect == Spec => []TypeOK
  BY SpecImpliesIInv, PTL DEF IInv

(* Every candidate can be derived again from the raw version with its key. *)
(* (docs/architecture/storage.md:39.)                                      *)
THEOREM CandidatesAreDerivable == Spec => []StagedIsDerivable
  <1>1. IInv => StagedIsDerivable
    BY DEF IInv, StageInv
  <1> QED BY <1>1, SpecImpliesIInv, PTL

(* An error never claims evidence that is not there.                       *)
THEOREM EvidenceIsRetained == Spec => []RefusedRowsKeepEvidence
  <1>1. IInv => RefusedRowsKeepEvidence
    BY DEF IInv, StageInv
  <1> QED BY <1>1, SpecImpliesIInv, PTL

(* The candidates of a run whose source did not change are current source  *)
(* rows, whatever other workers still store.                               *)
THEOREM UnchangedSourceStaged == Spec => []UnchangedSourceIsStagedAsIs
  <1>1. IInv => UnchangedSourceIsStagedAsIs
    BY DEF IInv, FreshInv
  <1> QED BY <1>1, SpecImpliesIInv, PTL

(* Raw versions are only ever added, and never two for one key.            *)
LEMMA StepKeepsEvidence ==
  ASSUME IInv, IInv', [Next]_vars
  PROVE  raw \subseteq raw'
  <1>1. ASSUME NEW w \in Workers, WorkerStep(w) PROVE raw \subseteq raw'
    <2>1. ASSUME NEW r \in row[w], StoreRaw(r, workerRun[w]) PROVE raw \subseteq raw'
      BY <2>1 DEF StoreRaw
    <2>2. CASE PersistRaw(w)
      BY <2>1, <2>2 DEF PersistRaw
    <2>3. CASE RawFails(w)
      BY <2>1, <2>3 DEF RawFails
    <2> QED BY <1>1, <2>2, <2>3 DEF WorkerStep, StartRun, ResumeRun, FetchPage, TakeRow,
              LeavePage, RefuseTransport, UpsertStaging, StagingFails, Crash, storeVars
  <1> QED BY <1>1 DEF Next, SourceUpdate, SourceDelete, LoseAuthority, storeVars, vars

THEOREM EvidenceNeverChanges == Spec => EvidenceIsImmutable
  <1>1. IInv' => \A v, u \in raw' : v.source = u.source /\ v.at = u.at => v = u
    BY DEF IInv, VersionInv, SameKey
  <1>2. IInv /\ IInv' /\ [Next]_vars =>
          [raw \subseteq raw' /\ \A v, u \in raw' :
             v.source = u.source /\ v.at = u.at => v = u]_vars
    BY <1>1, StepKeepsEvidence
  <1> QED BY <1>2, SpecImpliesIInv, PTL DEF Spec, EvidenceIsImmutable
=============================================================================
