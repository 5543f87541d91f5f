---------------------- MODULE PropertyRegistrationProofs ----------------------
(***************************************************************************)
(* Proofs about PropertyRegistration for any requests, addresses, BBLs and *)
(* BINs.                                                                   *)
(*                                                                         *)
(* ReqInv(r) says all that a request relies on.  It mentions the tables,   *)
(* but only facts that other requests never undo (DbGrows: a property      *)
(* stays registered and keeps BINs, a mapping stays) and, for a locked     *)
(* row, its content.  So a step keeps the invariant of every request that  *)
(* it leaves alone (Kept), and each action is examined for its own request *)
(* only.                                                                   *)
(***************************************************************************)
EXTENDS PropertyRegistration, TLAPS

Active == {"find", "create", "lock", "apply", "persist"}

(* One input, or BBLs only: the input whose turn it is is unique. *)
Homogeneous(r) ==
  \A i, j \in submitted[r] : i = j \/ (i \in Bbls /\ j \in Bbls)

Fresh(r) ==
  /\ pc[r] \in {"idle", "lookup"} => \A i \in Inputs : payload[r][i] = NoPayload
  /\ pc[r] \in {"idle", "lookup", "resolve"} => failures[r] = {}

(* What is to be persisted names a property, for a BBL its own. *)
Resolved(r) ==
  pc[r] \in Active => \A i \in Pending(r) :
    /\ payload[r][i].bbl \in Bbls
    /\ i \in Bbls => payload[r][i].bbl = i

(* What is known of the property of the next input at each call. *)
Stage(r) ==
  \A i \in Inputs : IsNext(r, i) =>
    LET p == payload[r][i].bbl
        found == payload[r][i].bins
    IN /\ pc[r] \in {"lock", "apply", "persist"} => Registered(p)
       /\ pc[r] \in {"lock", "apply"} => found # {}
       /\ pc[r] = "apply" => rowLock[p] = r /\ currentBins[r] = bins[p]
       /\ pc[r] = "persist" /\ found # {} => bins[p] # {}

Locks(r) ==
  \A p \in Bbls : rowLock[p] = r =>
    /\ pc[r] = "apply"
    /\ \E i \in Inputs : IsNext(r, i) /\ payload[r][i].bbl = p

Answers(r) ==
  \A i \in Inputs : answer[r][i] # NoBbl =>
    /\ Registered(answer[r][i])
    /\ mapping[i] # NoBbl
    /\ i \in Bbls => answer[r][i] = i
    /\ payload[r][i].bins # {} => bins[answer[r][i]] # {}

(* What the lookup found has an answer, which concurrent upserts leave right. *)
CachedAnswers(r) ==
  \A i \in cached[r] : answer[r][i] # NoBbl /\ answer[r][i] = mapping[i]

AllAnswered(r) == pc[r] = "done" => Pending(r) = {}

ReqInv(r) ==
  /\ Homogeneous(r) /\ Fresh(r) /\ Resolved(r) /\ Stage(r)
  /\ Locks(r) /\ Answers(r) /\ CachedAnswers(r) /\ AllAnswered(r)

MappingInv ==
  \A i \in Inputs : mapping[i] # NoBbl =>
    /\ Registered(mapping[i])
    /\ i \in Bbls => mapping[i] = i

IInv == TypeOK /\ MappingInv /\ \A r \in Requests : ReqInv(r)

-----------------------------------------------------------------------------
(* What a step leaves to the others *)

DbGrows ==
  /\ \A p \in Bbls : Registered(p) => Registered(p)'
  /\ \A p \in Bbls : Registered(p) /\ bins[p] # {} => bins'[p] # {}
  /\ \A i \in Inputs : mapping[i] # NoBbl => mapping'[i] = mapping[i]

Kept(r) ==
  /\ pc'[r] = pc[r] /\ submitted'[r] = submitted[r] /\ cached'[r] = cached[r]
  /\ failures'[r] = failures[r]
  /\ payload'[r] = payload[r] /\ answer'[r] = answer[r] /\ currentBins'[r] = currentBins[r]
  /\ \A p \in Bbls : rowLock'[p] = r <=> rowLock[p] = r
  /\ \A p \in Bbls : rowLock[p] = r => bins'[p] = bins[p]

LEMMA NextIsUnique ==
  ASSUME TypeOK, NEW r \in Requests, Homogeneous(r),
         NEW i \in Inputs, NEW j \in Inputs, IsNext(r, i), IsNext(r, j)
  PROVE  i = j
  <1>1. i \in submitted[r] /\ j \in submitted[r]
    BY DEF IsNext, Pending
  <1>2. CASE i \in Bbls /\ j \in Bbls
    <2>1. i <= j /\ j <= i
      BY <1>2 DEF IsNext
    <2> QED BY <2>1, <1>2, RegistrationAssumption DEF Bbls
  <1> QED BY <1>1, <1>2 DEF Homogeneous

(* An answer once given to a cached input stays right. *)
LEMMA CachedKept ==
  ASSUME TypeOK, NEW r \in Requests, CachedAnswers(r), DbGrows, cached'[r] = cached[r],
         \A i \in cached[r] : answer'[r][i] = answer[r][i]
  PROVE  CachedAnswers(r)'
  <1> SUFFICES ASSUME NEW i \in cached[r]
               PROVE  answer[r][i] # NoBbl /\ answer[r][i] = mapping'[i]
    BY DEF CachedAnswers
  <1>1. i \in Inputs
    BY DEF TypeOK
  <1> QED BY <1>1 DEF CachedAnswers, DbGrows

LEMMA KeptInvariant ==
  ASSUME TypeOK, NEW r \in Requests, ReqInv(r), Kept(r), DbGrows
  PROVE  ReqInv(r)'
  <1>1. Pending(r)' = Pending(r)
    BY DEF Pending, Kept
  <1>2. \A i \in Inputs : IsNext(r, i)' <=> IsNext(r, i)
    BY <1>1 DEF IsNext
  <1>3. Homogeneous(r)' /\ Fresh(r)' /\ AllAnswered(r)' /\ Resolved(r)'
    BY <1>1 DEF ReqInv, Homogeneous, Fresh, AllAnswered, Resolved, Kept
  <1>4. Locks(r)'
    BY <1>2 DEF ReqInv, Locks, Kept
  <1>5. Stage(r)'
    <2> SUFFICES ASSUME NEW i \in Inputs, IsNext(r, i)
                 PROVE  LET p == payload[r][i].bbl
                            found == payload[r][i].bins
                        IN /\ pc[r] \in {"lock", "apply", "persist"} => Registered(p)'
                           /\ pc[r] \in {"lock", "apply"} => found # {}
                           /\ pc[r] = "apply" => rowLock'[p] = r /\ currentBins'[r] = bins'[p]
                           /\ pc[r] = "persist" /\ found # {} => bins'[p] # {}
      BY <1>2 DEF Stage, Kept
    <2>1. pc[r] \in Active => payload[r][i].bbl \in Bbls
      BY DEF IsNext, ReqInv, Resolved
    <2> QED BY <2>1 DEF ReqInv, Stage, Kept, DbGrows, Active
  <1>6. Answers(r)'
    <2> SUFFICES ASSUME NEW i \in Inputs, answer[r][i] # NoBbl
                 PROVE  /\ Registered(answer[r][i])'
                        /\ mapping'[i] # NoBbl
                        /\ i \in Bbls => answer[r][i] = i
                        /\ payload[r][i].bins # {} => bins'[answer[r][i]] # {}
      BY DEF Answers, Kept, Registered
    <2>1. answer[r][i] \in Bbls
      BY DEF TypeOK
    <2> DEFINE p == answer[r][i]
    <2>2. Registered(p) /\ mapping[i] # NoBbl /\ (i \in Bbls => p = i)
          /\ (payload[r][i].bins # {} => bins[p] # {})
      BY DEF ReqInv, Answers
    <2>3. Registered(p) => Registered(p)'
      BY <2>1 DEF DbGrows, Registered, Kept
    <2> QED BY <2>1, <2>2, <2>3 DEF DbGrows
  <1>7. CachedAnswers(r)'
    BY CachedKept DEF ReqInv, Kept
  <1> QED BY <1>3, <1>4, <1>5, <1>6, <1>7 DEF ReqInv

-----------------------------------------------------------------------------
(* The calls *)

GoodStep(r) ==
  /\ TypeOK' /\ MappingInv' /\ DbGrows
  /\ ReqInv(r)'
  /\ \A q \in Requests \ {r} : Kept(q)

LEMMA NoDatabaseStep ==
  ASSUME MappingInv, UNCHANGED dbVars
  PROVE  MappingInv' /\ DbGrows
  BY DEF MappingInv, DbGrows, Registered, dbVars

LEMMA GotoEffect ==
  ASSUME TypeOK, NEW r \in Requests, NEW call \in Calls, Goto(r, call)
  PROVE  /\ pc' \in [Requests -> Calls] /\ pc'[r] = call
         /\ \A q \in Requests \ {r} : pc'[q] = pc[q]
  BY DEF TypeOK, Goto

LEMMA ReceiveStep ==
  ASSUME IInv, NEW r \in Requests, Receive(r)
  PROVE  GoodStep(r)
  <1> USE DEF Receive
  <1>0. TypeOK /\ MappingInv /\ ReqInv(r) /\ "lookup" \in Calls
    BY DEF IInv, Calls
  <1>1. PICK inputs \in SUBSET Inputs :
          /\ submitted' = [submitted EXCEPT ![r] = inputs]
          /\ inputs \subseteq Bbls \/ \E i \in Inputs : inputs = {i}
    BY DEF Inputs
  <1>2. pc[r] = "idle" /\ pc'[r] = "lookup" /\ pc' \in [Requests -> Calls]
        /\ \A q \in Requests \ {r} : pc'[q] = pc[q]
    BY <1>0, GotoEffect
  <1>3. submitted'[r] = inputs /\ submitted' \in [Requests -> SUBSET Inputs]
        /\ \A q \in Requests \ {r} : submitted'[q] = submitted[q]
    BY <1>0, <1>1 DEF TypeOK
  <1>4. TypeOK'
    BY <1>0, <1>2, <1>3 DEF TypeOK, dbVars
  <1>5. MappingInv' /\ DbGrows
    BY <1>0, NoDatabaseStep
  <1>6. \A q \in Requests \ {r} : Kept(q)
    BY <1>2, <1>3 DEF Kept, dbVars
  <1>7. Homogeneous(r)'
    BY <1>1, <1>3 DEF Homogeneous
  <1>8. Fresh(r)' /\ Resolved(r)' /\ Stage(r)' /\ AllAnswered(r)' /\ Locks(r)'
    BY <1>0, <1>2 DEF ReqInv, Fresh, Resolved, Stage, AllAnswered, Locks, Active
  <1>9. Answers(r)' /\ CachedAnswers(r)'
    BY <1>0, <1>5, CachedKept DEF ReqInv, Answers, Registered, dbVars
  <1> QED BY <1>4, <1>5, <1>6, <1>7, <1>8, <1>9 DEF GoodStep, ReqInv

LEMMA LookupStep ==
  ASSUME IInv, NEW r \in Requests, Lookup(r)
  PROVE  GoodStep(r)
  <1> DEFINE known == {i \in submitted[r] : mapping[i] # NoBbl}
             found == [i \in Inputs |-> IF i \in known THEN mapping[i] ELSE NoBbl]
             next == IF known = submitted[r] THEN "done" ELSE "resolve"
  <1>0. TypeOK /\ MappingInv /\ ReqInv(r) /\ pc[r] = "lookup"
    BY DEF IInv, Lookup
  <1>1. /\ cached' = [cached EXCEPT ![r] = known]
        /\ answer' = [answer EXCEPT ![r] = found]
        /\ Goto(r, next)
        /\ UNCHANGED <<dbVars, rowLock, submitted, failures, payload, currentBins>>
    BY DEF Lookup
  <1>2. pc'[r] = next /\ pc' \in [Requests -> Calls]
        /\ \A q \in Requests \ {r} : pc'[q] = pc[q]
    BY <1>0, <1>1, GotoEffect DEF Calls, Ended
  <1>3. /\ known \in SUBSET Inputs /\ found \in [Inputs -> Bbls \cup {NoBbl}]
        /\ cached' \in [Requests -> SUBSET Inputs] /\ cached'[r] = known
        /\ \A q \in Requests \ {r} : cached'[q] = cached[q]
        /\ answer' \in [Requests -> [Inputs -> Bbls \cup {NoBbl}]]
        /\ answer'[r] = found
        /\ \A q \in Requests \ {r} : answer'[q] = answer[q]
    BY <1>0, <1>1 DEF TypeOK
  <1>4. TypeOK'
    BY <1>0, <1>1, <1>2, <1>3 DEF TypeOK, dbVars
  <1>5. MappingInv' /\ DbGrows
    BY <1>0, <1>1, NoDatabaseStep
  <1>6. \A q \in Requests \ {r} : Kept(q)
    BY <1>1, <1>2, <1>3 DEF Kept, dbVars
  <1>7. Homogeneous(r)' /\ Fresh(r)' /\ Resolved(r)' /\ Stage(r)' /\ Locks(r)'
    BY <1>0, <1>1, <1>2 DEF ReqInv, Homogeneous, Fresh, Resolved, Stage, Locks, Active
  <1>8. AllAnswered(r)'
    <2> SUFFICES ASSUME known = submitted[r], NEW i \in submitted[r]
                 PROVE  found[i] # NoBbl
      BY <1>1, <1>2, <1>3 DEF AllAnswered, Pending
    <2> QED BY <1>0 DEF TypeOK
  <1>9. Answers(r)'
    <2> SUFFICES ASSUME NEW i \in Inputs, found[i] # NoBbl
                 PROVE  /\ Registered(found[i])
                        /\ mapping[i] # NoBbl
                        /\ i \in Bbls => found[i] = i
                        /\ payload[r][i].bins = {}
      BY <1>1, <1>3 DEF Answers, Registered, dbVars
    <2>1. found[i] = mapping[i] /\ mapping[i] # NoBbl
      OBVIOUS
    <2>2. payload[r][i] = NoPayload
      BY <1>0 DEF ReqInv, Fresh
    <2> QED BY <2>1, <2>2, <1>0 DEF MappingInv, NoPayload
  <1>10. CachedAnswers(r)'
    BY <1>0, <1>1, <1>3 DEF CachedAnswers, TypeOK, dbVars
  <1> QED BY <1>4, <1>5, <1>6, <1>7, <1>8, <1>9, <1>10 DEF GoodStep, ReqInv

LEMMA ResolveStep ==
  ASSUME IInv, NEW r \in Requests, Resolve(r)
  PROVE  GoodStep(r)
  <1>0. TypeOK /\ MappingInv /\ ReqInv(r) /\ pc[r] = "resolve"
    BY DEF IInv, Resolve
  <1>1. PICK resolved \in SUBSET Pending(r) :
          /\ \E found \in [resolved -> [bbl : Bbls, bins : BinSets]] :
               /\ \A i \in resolved \cap Bbls : found[i].bbl = i
               /\ payload' = [payload EXCEPT ![r] =
                    [i \in Inputs |-> IF i \in resolved THEN found[i] ELSE NoPayload]]
          /\ failures' = [failures EXCEPT ![r] = Pending(r) \ resolved]
          /\ Goto(r, IF resolved # {} THEN "find"
                     ELSE IF r \in Singles THEN "error" ELSE "done")
    BY DEF Resolve
  <1>2. PICK found \in [resolved -> [bbl : Bbls, bins : BinSets]] :
          /\ \A i \in resolved \cap Bbls : found[i].bbl = i
          /\ payload' = [payload EXCEPT ![r] =
               [i \in Inputs |-> IF i \in resolved THEN found[i] ELSE NoPayload]]
    BY <1>1
  <1> DEFINE resolution == [i \in Inputs |-> IF i \in resolved THEN found[i] ELSE NoPayload]
  <1>3. UNCHANGED <<dbVars, rowLock, submitted, cached, answer, currentBins>>
    BY DEF Resolve
  <1>4. /\ pc' \in [Requests -> Calls]
        /\ pc'[r] \in {"find", "error", "done"} /\ (pc'[r] = "done" => resolved = {})
        /\ \A q \in Requests \ {r} : pc'[q] = pc[q]
    BY <1>0, <1>1, GotoEffect DEF Calls, Ended
  <1>5. \A i \in resolved : found[i] \in Payloads /\ found[i].bbl \in Bbls
    <2> SUFFICES ASSUME NEW i \in resolved
                 PROVE  found[i] \in Payloads /\ found[i].bbl \in Bbls
      OBVIOUS
    <2>1. found[i] \in [bbl : Bbls, bins : BinSets]
      OBVIOUS
    <2> QED BY <2>1, RegistrationAssumption DEF Payloads
  <1>6. /\ resolution \in [Inputs -> Payloads]
        /\ payload' \in [Requests -> [Inputs -> Payloads]] /\ payload'[r] = resolution
        /\ \A q \in Requests \ {r} : payload'[q] = payload[q]
    <2>1. NoPayload \in Payloads
      BY DEF NoPayload, Payloads
    <2>2. resolution \in [Inputs -> Payloads]
      BY <1>5, <2>1
    <2> HIDE DEF resolution
    <2>3. payload' = [payload EXCEPT ![r] = resolution]
      BY <1>2 DEF resolution
    <2> QED BY <1>0, <2>2, <2>3 DEF TypeOK
  <1>7. /\ Pending(r) \in SUBSET Inputs
        /\ failures' \in [Requests -> SUBSET Inputs] /\ failures'[r] = Pending(r) \ resolved
        /\ \A q \in Requests \ {r} : failures'[q] = failures[q]
    BY <1>0, <1>1 DEF TypeOK, Pending
  <1> HIDE DEF resolution
  <1>8. TypeOK'
    BY <1>0, <1>3, <1>4, <1>6, <1>7 DEF TypeOK, dbVars
  <1>9. MappingInv' /\ DbGrows
    BY <1>0, <1>3, NoDatabaseStep
  <1>10. \A q \in Requests \ {r} : Kept(q)
    BY <1>3, <1>4, <1>6, <1>7 DEF Kept, dbVars
  <1>11. Pending(r)' \subseteq resolved
    BY <1>0, <1>3, <1>7 DEF Pending, ReqInv, Fresh
  <1>12. Homogeneous(r)' /\ Fresh(r)' /\ Stage(r)' /\ Locks(r)' /\ AllAnswered(r)'
    BY <1>0, <1>3, <1>4, <1>11
    DEF ReqInv, Homogeneous, Fresh, Stage, Locks, AllAnswered
  <1>13. Resolved(r)'
    <2> SUFFICES ASSUME NEW i \in Pending(r)'
                 PROVE  resolution[i].bbl \in Bbls /\ (i \in Bbls => resolution[i].bbl = i)
      BY <1>6 DEF Resolved
    <2>1. i \in resolved /\ resolution[i] = found[i]
      BY <1>7, <1>11 DEF resolution
    <2> QED BY <2>1, <1>2, <1>5
  <1>14. Answers(r)'
    <2> SUFFICES ASSUME NEW i \in Inputs, answer[r][i] # NoBbl
                 PROVE  /\ Registered(answer[r][i])
                        /\ mapping[i] # NoBbl
                        /\ i \in Bbls => answer[r][i] = i
                        /\ resolution[i].bins = {}
      BY <1>3, <1>6 DEF Answers, Registered, dbVars
    <2>1. resolution[i] = NoPayload
      BY DEF resolution, Pending
    <2> QED BY <2>1, <1>0 DEF ReqInv, Answers, NoPayload
  <1>15. CachedAnswers(r)'
    BY <1>0, <1>3, <1>9, CachedKept DEF ReqInv
  <1> QED BY <1>8, <1>9, <1>10, <1>12, <1>13, <1>14, <1>15 DEF GoodStep, ReqInv

(* The input whose turn it is, and what the calls that persist it leave    *)
(* alone.                                                                  *)
LEMMA NextInput ==
  ASSUME IInv, NEW r \in Requests, pc[r] \in Active, NEW i \in Inputs, IsNext(r, i)
  PROVE  /\ i \in Pending(r)
         /\ payload[r][i].bbl \in Bbls /\ payload[r][i].bins \in SUBSET Bins
         /\ i \in Bbls => payload[r][i].bbl = i
         /\ \A j \in Inputs : IsNext(r, j) => j = i
  <1>1. TypeOK /\ ReqInv(r)
    BY DEF IInv
  <1>2. i \in Pending(r)
    BY DEF IsNext
  <1>3. \A j \in Inputs : IsNext(r, j) => j = i
    BY <1>1, NextIsUnique DEF ReqInv
  <1>4. payload[r][i].bins \in SUBSET Bins
    BY <1>1 DEF TypeOK, Payloads
  <1> QED BY <1>1, <1>2, <1>3, <1>4 DEF ReqInv, Resolved

(* While one input is persisted the request itself does not change. *)
LEMMA StageStep ==
  ASSUME IInv, NEW r \in Requests, pc[r] \in Active, pc'[r] \in Active, MappingInv', TypeOK', DbGrows,
         UNCHANGED <<submitted, cached, failures, payload, answer>>,
         NEW i \in Inputs, IsNext(r, i),
         NEW p, p = payload[r][i].bbl,
         pc'[r] \in {"lock", "apply", "persist"} => Registered(p)',
         pc'[r] \in {"lock", "apply"} => payload[r][i].bins # {},
         pc'[r] = "apply" => rowLock'[p] = r /\ currentBins'[r] = bins'[p],
         pc'[r] = "persist" /\ payload[r][i].bins # {} => bins'[p] # {},
         \A b \in Bbls : rowLock'[b] = r => pc'[r] = "apply" /\ b = p
  PROVE  ReqInv(r)'
  <1>0. TypeOK /\ ReqInv(r)
    BY DEF IInv
  <1>1. Pending(r)' = Pending(r)
    BY DEF Pending
  <1>2. \A j \in Inputs : IsNext(r, j)' <=> j = i
    BY <1>1, NextInput DEF IsNext
  <1>3. Homogeneous(r)' /\ Fresh(r)' /\ AllAnswered(r)' /\ Resolved(r)'
    BY <1>0, <1>1 DEF ReqInv, Homogeneous, Fresh, AllAnswered, Resolved, Active
  <1>4. Stage(r)'
    BY <1>2 DEF Stage, Registered
  <1>5. Locks(r)'
    BY <1>2 DEF Locks
  <1>6. Answers(r)'
    <2> SUFFICES ASSUME NEW j \in Inputs, answer[r][j] # NoBbl
                 PROVE  /\ Registered(answer[r][j])'
                        /\ mapping'[j] # NoBbl
                        /\ j \in Bbls => answer[r][j] = j
                        /\ payload[r][j].bins # {} => bins'[answer[r][j]] # {}
      BY DEF Answers, Registered
    <2> DEFINE a == answer[r][j]
    <2>1. a \in Bbls
      BY <1>0 DEF TypeOK
    <2>2. Registered(a) /\ mapping[j] # NoBbl /\ (j \in Bbls => a = j)
          /\ (payload[r][j].bins # {} => bins[a] # {})
      BY <1>0 DEF ReqInv, Answers
    <2>3. Registered(a) => Registered(a)'
      BY <2>1 DEF DbGrows, Registered
    <2> QED BY <2>1, <2>2, <2>3 DEF DbGrows
  <1>7. CachedAnswers(r)'
    BY <1>0, CachedKept DEF ReqInv
  <1> QED BY <1>3, <1>4, <1>5, <1>6, <1>7 DEF ReqInv

LEMMA FindPropertyStep ==
  ASSUME IInv, NEW r \in Requests, FindProperty(r)
  PROVE  GoodStep(r)
  <1>0. TypeOK /\ MappingInv /\ ReqInv(r) /\ pc[r] = "find"
    BY DEF IInv, FindProperty
  <1>1. PICK i \in Inputs :
          /\ IsNext(r, i)
          /\ Goto(r, IF Registered(payload[r][i].bbl) THEN afterFound(r, i) ELSE "create")
    BY DEF FindProperty
  <1> DEFINE p == payload[r][i].bbl
  <1>2. UNCHANGED <<dbVars, rowLock, localVars>>
    BY DEF FindProperty
  <1>3. /\ pc' \in [Requests -> Calls] /\ pc'[r] \in Active
        /\ pc'[r] \in {"create", "lock", "persist"}
        /\ pc'[r] \in {"lock", "persist"} => Registered(p)
        /\ pc'[r] = "lock" <=> Registered(p) /\ payload[r][i].bins # {}
        /\ \A q \in Requests \ {r} : pc'[q] = pc[q]
    BY <1>0, <1>1, GotoEffect DEF afterFound, afterProperty, mayApply, Calls, Active
  <1>4. TypeOK'
    BY <1>0, <1>2, <1>3 DEF TypeOK, dbVars, localVars
  <1>5. MappingInv' /\ DbGrows
    BY <1>0, <1>2, NoDatabaseStep
  <1>6. \A q \in Requests \ {r} : Kept(q)
    BY <1>2, <1>3 DEF Kept, dbVars, localVars
  <1>7. ReqInv(r)'
    <2>1. \A b \in Bbls : rowLock'[b] # r
      BY <1>0, <1>2 DEF ReqInv, Locks
    <2>2. pc'[r] \in {"lock", "persist"} => Registered(p)'
      BY <1>2, <1>3 DEF Registered, dbVars, localVars
    <2>3. pc'[r] # "apply" /\ (pc'[r] = "persist" => payload[r][i].bins = {})
      BY <1>3
    <2> QED BY <1>0, <1>1, <1>2, <1>3, <1>4, <1>5, <2>1, <2>2, <2>3, StageStep DEF Active, localVars
  <1> QED BY <1>4, <1>5, <1>6, <1>7 DEF GoodStep

LEMMA CreatePropertyStep ==
  ASSUME IInv, NEW r \in Requests, CreateProperty(r)
  PROVE  /\ GoodStep(r)
         /\ UNCHANGED dbVars
            \/ \E p \in Bbls, found \in SUBSET Bins : PI!Register(p, found)
  <1>0. TypeOK /\ MappingInv /\ ReqInv(r) /\ pc[r] = "create"
    BY DEF IInv, CreateProperty
  <1>1. PICK i \in Inputs :
          /\ IsNext(r, i)
          /\ LET p == payload[r][i].bbl
                 found == payload[r][i].bins
             IN \/ /\ Registered(p)
                   /\ Goto(r, "error")
                   /\ UNCHANGED dbVars
                \/ /\ ~Registered(p)
                   /\ version' = [version EXCEPT ![p] = 1]
                   /\ bins' = [bins EXCEPT ![p] = found]
                   /\ reason' = [reason EXCEPT ![p] = initialReason(found)]
                   /\ Goto(r, afterProperty(r, i))
                   /\ UNCHANGED mapping
    BY DEF CreateProperty
  <1> DEFINE p == payload[r][i].bbl
             found == payload[r][i].bins
  <1>2. UNCHANGED <<rowLock, localVars>>
    BY DEF CreateProperty
  <1>3. p \in Bbls /\ found \in SUBSET Bins
    BY <1>0, <1>1, NextInput DEF Active
  <1>4. \A b \in Bbls : rowLock'[b] # r
    BY <1>0, <1>2 DEF ReqInv, Locks
  <1>5. CASE Registered(p) /\ Goto(r, "error") /\ UNCHANGED dbVars
    <2>1. /\ pc' \in [Requests -> Calls] /\ pc'[r] = "error"
          /\ \A q \in Requests \ {r} : pc'[q] = pc[q]
      BY <1>0, <1>5, GotoEffect DEF Calls, Ended
    <2>2. TypeOK'
      BY <1>0, <1>2, <1>5, <2>1 DEF TypeOK, dbVars, localVars
    <2>3. MappingInv' /\ DbGrows
      BY <1>0, <1>5, NoDatabaseStep
    <2>4. \A q \in Requests \ {r} : Kept(q)
      BY <1>2, <1>5, <2>1 DEF Kept, dbVars, localVars
    <2>5. ReqInv(r)'
      BY <1>0, <1>2, <1>4, <1>5, <2>1
      DEF ReqInv, Homogeneous, Fresh, Resolved, Stage, Locks, Answers, CachedAnswers,
          AllAnswered, Active, Registered, dbVars, localVars
    <2> QED BY <1>5, <2>2, <2>3, <2>4, <2>5 DEF GoodStep
  <1>6. CASE /\ ~Registered(p)
             /\ version' = [version EXCEPT ![p] = 1]
             /\ bins' = [bins EXCEPT ![p] = found]
             /\ reason' = [reason EXCEPT ![p] = initialReason(found)]
             /\ Goto(r, afterProperty(r, i))
             /\ UNCHANGED mapping
    <2> HIDE DEF p, found
    <2>1. /\ pc' \in [Requests -> Calls] /\ pc'[r] \in {"lock", "persist"}
          /\ pc'[r] = "lock" <=> found # {}
          /\ \A q \in Requests \ {r} : pc'[q] = pc[q]
      BY <1>0, <1>6, GotoEffect DEF afterProperty, mayApply, Calls, found
    <2>2. /\ bins' \in [Bbls -> SUBSET Bins] /\ bins'[p] = found
          /\ \A b \in Bbls \ {p} : bins'[b] = bins[b]
      BY <1>0, <1>3, <1>6 DEF TypeOK
    <2>3. /\ version' \in [Bbls -> Nat] /\ version'[p] = 1
          /\ \A b \in Bbls \ {p} : version'[b] = version[b]
      BY <1>0, <1>3, <1>6 DEF TypeOK
    <2>4. reason' \in [Bbls -> {"NONE", "NEVER_INGESTED", "NO_VALID_BIN", "IDENTIFIERS_CHANGED"}]
      BY <1>0, <1>6 DEF TypeOK, initialReason
    <2>5. TypeOK'
      BY <1>0, <1>2, <1>6, <2>1, <2>2, <2>3, <2>4 DEF TypeOK, localVars
    <2>6. DbGrows
      BY <1>6, <2>2, <2>3 DEF DbGrows, Registered
    <2>7. MappingInv'
      <3> SUFFICES ASSUME NEW j \in Inputs, mapping[j] # NoBbl
                   PROVE  Registered(mapping[j])' /\ (j \in Bbls => mapping[j] = j)
        BY <1>6 DEF MappingInv, Registered
      <3>1. mapping[j] \in Bbls /\ Registered(mapping[j]) /\ (j \in Bbls => mapping[j] = j)
        BY <1>0 DEF MappingInv, TypeOK
      <3> QED BY <1>6, <2>3, <3>1 DEF Registered
    <2>8. \A q \in Requests \ {r} : Kept(q)
      <3> SUFFICES ASSUME NEW q \in Requests \ {r}, NEW b \in Bbls, rowLock[b] = q
                   PROVE  bins'[b] = bins[b]
        BY <1>2, <2>1 DEF Kept, localVars
      <3>1. ReqInv(q) /\ TypeOK
        BY DEF IInv
      <3>2. PICK j \in Inputs : IsNext(q, j) /\ payload[q][j].bbl = b /\ pc[q] = "apply"
        BY <3>1 DEF ReqInv, Locks
      <3>3. Registered(b)
        BY <3>1, <3>2 DEF ReqInv, Stage
      <3> QED BY <1>6, <2>2, <3>3
    <2>9. ReqInv(r)'
      <3>1. Registered(p)'
        BY <1>2, <2>3 DEF Registered, localVars, p
      <3>2. (found # {} => bins'[p] # {}) /\ pc'[r] \in Active /\ pc'[r] # "apply"
        BY <2>1, <2>2 DEF Active
      <3> QED BY <1>0, <1>1, <1>2, <1>4, <2>1, <2>5, <2>6, <2>7, <3>1, <3>2, StageStep
          DEF Active, localVars, p, found
    <2>10. PI!Register(p, found)
      BY <1>6 DEF PI!Register, PI!Registered, Registered, initialReason
    <2> QED BY <1>3, <2>5, <2>6, <2>7, <2>8, <2>9, <2>10 DEF GoodStep, p, found
  <1> QED BY <1>1, <1>5, <1>6

LEMMA LockPropertyStep ==
  ASSUME IInv, NEW r \in Requests, LockProperty(r)
  PROVE  GoodStep(r)
  <1>0. TypeOK /\ MappingInv /\ ReqInv(r) /\ pc[r] = "lock"
    BY DEF IInv, LockProperty
  <1>1. PICK i \in Inputs :
          /\ IsNext(r, i)
          /\ LET p == payload[r][i].bbl
             IN /\ mayLock(p)
                /\ rowLock' = [rowLock EXCEPT ![p] = r]
                /\ currentBins' = [currentBins EXCEPT ![r] = bins[p]]
    BY DEF LockProperty
  <1> DEFINE p == payload[r][i].bbl
  <1>2. Goto(r, "apply") /\ UNCHANGED <<dbVars, submitted, cached, failures, payload, answer>>
    BY DEF LockProperty
  <1>3. p \in Bbls
    BY <1>0, <1>1, NextInput DEF Active
  <1> HIDE DEF p
  <1>4. /\ pc' \in [Requests -> Calls] /\ pc'[r] = "apply"
        /\ \A q \in Requests \ {r} : pc'[q] = pc[q]
    BY <1>0, <1>2, GotoEffect DEF Calls
  <1>5. /\ rowLock[p] = NoRequest
        /\ rowLock' \in [Bbls -> Requests \cup {NoRequest}] /\ rowLock'[p] = r
        /\ \A b \in Bbls \ {p} : rowLock'[b] = rowLock[b]
    BY <1>0, <1>1, <1>3 DEF TypeOK, mayLock, p
  <1>6. /\ currentBins' \in [Requests -> SUBSET Bins] /\ currentBins'[r] = bins[p]
        /\ \A q \in Requests \ {r} : currentBins'[q] = currentBins[q]
    BY <1>0, <1>1, <1>3 DEF TypeOK, p
  <1>7. TypeOK'
    BY <1>0, <1>2, <1>4, <1>5, <1>6 DEF TypeOK, dbVars
  <1>8. MappingInv' /\ DbGrows
    BY <1>0, <1>2, NoDatabaseStep
  <1>9. \A q \in Requests \ {r} : Kept(q)
    BY <1>2, <1>4, <1>5, <1>6, RegistrationAssumption DEF Kept, dbVars
  <1>10. ReqInv(r)'
    <2>1. Registered(p)' /\ payload[r][i].bins # {}
      BY <1>0, <1>1, <1>2 DEF ReqInv, Stage, Registered, dbVars, p
    <2>2. \A b \in Bbls : rowLock'[b] = r => b = p
      BY <1>0, <1>5 DEF ReqInv, Locks
    <2>3. rowLock'[p] = r /\ currentBins'[r] = bins'[p]
      BY <1>2, <1>5, <1>6 DEF dbVars
    <2> QED BY <1>0, <1>1, <1>2, <1>4, <1>7, <1>8, <2>1, <2>2, <2>3, StageStep DEF Active, p
  <1> QED BY <1>7, <1>8, <1>9, <1>10 DEF GoodStep

LEMMA ApplyBinSetStep ==
  ASSUME IInv, NEW r \in Requests, ApplyBinSet(r)
  PROVE  /\ GoodStep(r)
         /\ UNCHANGED dbVars
            \/ \E p \in Bbls, found \in SUBSET Bins : PI!ChangeBins(p, found)
  <1>0. TypeOK /\ MappingInv /\ ReqInv(r) /\ pc[r] = "apply"
    BY DEF IInv, ApplyBinSet
  <1>1. PICK i \in Inputs :
          /\ IsNext(r, i)
          /\ LET p == payload[r][i].bbl
                 nextBins == payload[r][i].bins
             IN /\ \/ /\ nextBins = currentBins[r]
                      /\ UNCHANGED <<bins, version, reason>>
                   \/ /\ nextBins # currentBins[r]
                      /\ bins' = [bins EXCEPT ![p] = nextBins]
                      /\ version' = [version EXCEPT ![p] = @ + 1]
                      /\ reason' = [reason EXCEPT ![p] =
                           IF nextBins = {} THEN "NO_VALID_BIN" ELSE "IDENTIFIERS_CHANGED"]
                /\ rowLock' = [rowLock EXCEPT ![p] = NoRequest]
    BY DEF ApplyBinSet
  <1> DEFINE p == payload[r][i].bbl
             found == payload[r][i].bins
  <1>2. /\ currentBins' = [currentBins EXCEPT ![r] = {}]
        /\ Goto(r, "persist")
        /\ UNCHANGED <<mapping, submitted, cached, failures, payload, answer>>
    BY DEF ApplyBinSet
  <1>3. /\ p \in Bbls /\ found \in SUBSET Bins /\ found # {} /\ Registered(p)
        /\ rowLock[p] = r /\ currentBins[r] = bins[p]
    BY <1>0, <1>1, NextInput DEF Active, ReqInv, Stage
  <1>4. \/ UNCHANGED <<bins, version, reason>> /\ bins[p] = found
        \/ /\ found # bins[p]
           /\ bins' = [bins EXCEPT ![p] = found]
           /\ version' = [version EXCEPT ![p] = @ + 1]
           /\ reason' = [reason EXCEPT ![p] = "IDENTIFIERS_CHANGED"]
    BY <1>1, <1>3
  <1>5. rowLock' = [rowLock EXCEPT ![p] = NoRequest]
    BY <1>1
  <1> HIDE DEF p, found
  <1>6. /\ pc' \in [Requests -> Calls] /\ pc'[r] = "persist"
        /\ \A q \in Requests \ {r} : pc'[q] = pc[q]
    BY <1>0, <1>2, GotoEffect DEF Calls
  <1>7. /\ bins' \in [Bbls -> SUBSET Bins] /\ bins'[p] = found
        /\ \A b \in Bbls \ {p} : bins'[b] = bins[b]
    BY <1>0, <1>3, <1>4 DEF TypeOK
  <1>8. /\ version' \in [Bbls -> Nat] /\ \A b \in Bbls : version'[b] >= version[b]
        /\ reason' \in [Bbls -> {"NONE", "NEVER_INGESTED", "NO_VALID_BIN", "IDENTIFIERS_CHANGED"}]
    <2>1. CASE UNCHANGED <<bins, version, reason>>
      BY <1>0, <2>1 DEF TypeOK
    <2>2. CASE /\ version' = [version EXCEPT ![p] = @ + 1]
               /\ reason' = [reason EXCEPT ![p] = "IDENTIFIERS_CHANGED"]
      <3>1. version' \in [Bbls -> Nat]
        BY <1>0, <1>3, <2>2 DEF TypeOK
      <3>2. \A b \in Bbls : version'[b] >= version[b]
        BY <1>0, <1>3, <2>2 DEF TypeOK
      <3> QED BY <1>0, <2>2, <3>1, <3>2 DEF TypeOK
    <2> QED BY <1>4, <2>1, <2>2
  <1>9. /\ rowLock' \in [Bbls -> Requests \cup {NoRequest}] /\ rowLock'[p] = NoRequest
        /\ \A b \in Bbls \ {p} : rowLock'[b] = rowLock[b]
    BY <1>0, <1>3, <1>5 DEF TypeOK
  <1>10. /\ currentBins' \in [Requests -> SUBSET Bins]
         /\ \A q \in Requests \ {r} : currentBins'[q] = currentBins[q]
    BY <1>0, <1>2 DEF TypeOK
  <1>11. TypeOK'
    BY <1>0, <1>2, <1>6, <1>7, <1>8, <1>9, <1>10 DEF TypeOK
  <1>12. \A b \in Bbls : Registered(b) => version'[b] > 0
    BY <1>0, <1>8 DEF Registered, TypeOK
  <1>13. DbGrows
    BY <1>2, <1>3, <1>7, <1>12 DEF DbGrows, Registered
  <1>14. MappingInv'
    <2> SUFFICES ASSUME NEW j \in Inputs, mapping[j] # NoBbl
                 PROVE  version'[mapping[j]] > 0 /\ (j \in Bbls => mapping[j] = j)
      BY <1>2 DEF MappingInv, Registered
    <2>1. mapping[j] \in Bbls /\ Registered(mapping[j]) /\ (j \in Bbls => mapping[j] = j)
      BY <1>0 DEF MappingInv, TypeOK
    <2> QED BY <1>12, <2>1
  <1>15. \A q \in Requests \ {r} : Kept(q)
    BY <1>2, <1>3, <1>6, <1>7, <1>9, <1>10, RegistrationAssumption DEF Kept
  <1>16. ReqInv(r)'
    <2>1. Registered(p)'
      BY <1>2, <1>3, <1>12 DEF Registered, p
    <2>2. \A b \in Bbls : rowLock[b] = r => b = p
      BY <1>0, <1>1, NextInput DEF ReqInv, Locks, Active, p
    <2>3. \A b \in Bbls : rowLock'[b] # r
      BY <1>9, <2>2, RegistrationAssumption
    <2> QED BY <1>0, <1>1, <1>2, <1>3, <1>6, <1>7, <1>11, <1>13, <1>14, <2>1, <2>3, StageStep
        DEF Active, p, found
  <1>17. UNCHANGED dbVars \/ PI!ChangeBins(p, found)
    BY <1>2, <1>3, <1>4 DEF PI!ChangeBins, PI!Registered, Registered, dbVars
  <1> QED BY <1>3, <1>11, <1>13, <1>14, <1>15, <1>16, <1>17 DEF GoodStep

LEMMA PersistInputStep ==
  ASSUME IInv, NEW r \in Requests, PersistInput(r)
  PROVE  /\ GoodStep(r)
         /\ UNCHANGED dbVars
            \/ \E i \in Inputs, p \in Bbls : PI!MapInput(i, p)
  <1>0. TypeOK /\ MappingInv /\ ReqInv(r) /\ pc[r] = "persist"
    BY DEF IInv, PersistInput
  <1>1. PICK i \in Inputs :
          /\ IsNext(r, i)
          /\ LET p == payload[r][i].bbl
             IN /\ mapping' = [mapping EXCEPT ![i] = upserted(i, p)]
                /\ answer' = [answer EXCEPT ![r][i] = p]
          /\ Goto(r, IF isLast(r, i) THEN "done" ELSE "find")
    BY DEF PersistInput
  <1> DEFINE p == payload[r][i].bbl
             found == payload[r][i].bins
  <1>2. UNCHANGED <<bins, version, reason, rowLock, submitted, cached, failures, payload, currentBins>>
    BY DEF PersistInput
  <1>3. /\ p \in Bbls /\ Registered(p) /\ (found # {} => bins[p] # {})
        /\ i \in Pending(r) /\ (i \in Bbls => p = i)
    BY <1>0, <1>1, NextInput DEF Active, ReqInv, Stage
  <1>4. mapping' = [mapping EXCEPT ![i] = IF mapping[i] = NoBbl THEN p ELSE mapping[i]]
        /\ answer' = [answer EXCEPT ![r][i] = p]
    BY <1>1 DEF upserted
  <1> HIDE DEF p, found
  <1>5. /\ pc' \in [Requests -> Calls] /\ pc'[r] \in {"done", "find"}
        /\ pc'[r] = "done" => Pending(r) = {i}
        /\ \A q \in Requests \ {r} : pc'[q] = pc[q]
    BY <1>0, <1>1, GotoEffect DEF Calls, Ended, isLast
  <1>6. p # NoBbl
    BY <1>3, RegistrationAssumption DEF Bbls, NoBbl
  <1>7. /\ mapping' \in [Inputs -> Bbls \cup {NoBbl}]
        /\ mapping'[i] = (IF mapping[i] = NoBbl THEN p ELSE mapping[i])
        /\ \A j \in Inputs \ {i} : mapping'[j] = mapping[j]
    BY <1>0, <1>3, <1>4 DEF TypeOK
  <1>8. /\ answer' \in [Requests -> [Inputs -> Bbls \cup {NoBbl}]]
        /\ answer'[r][i] = p
        /\ \A j \in Inputs \ {i} : answer'[r][j] = answer[r][j]
        /\ \A q \in Requests \ {r} : answer'[q] = answer[q]
    BY <1>0, <1>3, <1>4 DEF TypeOK
  <1>9. TypeOK'
    BY <1>0, <1>2, <1>5, <1>7, <1>8 DEF TypeOK
  <1>10. DbGrows
    BY <1>2, <1>7 DEF DbGrows, Registered
  <1>11. MappingInv'
    <2> SUFFICES ASSUME NEW j \in Inputs, mapping'[j] # NoBbl
                 PROVE  Registered(mapping'[j]) /\ (j \in Bbls => mapping'[j] = j)
      BY <1>2 DEF MappingInv, Registered
    <2> QED BY <1>0, <1>3, <1>7 DEF MappingInv
  <1>12. \A q \in Requests \ {r} : Kept(q)
    BY <1>2, <1>5, <1>8 DEF Kept
  <1>13. Pending(r)' = Pending(r) \ {i}
    BY <1>0, <1>2, <1>6, <1>8 DEF Pending, TypeOK
  <1>14. Homogeneous(r)' /\ Fresh(r)' /\ Resolved(r)' /\ Stage(r)' /\ Locks(r)' /\ AllAnswered(r)'
    BY <1>0, <1>2, <1>5, <1>13
    DEF ReqInv, Homogeneous, Fresh, Resolved, Stage, Locks, AllAnswered, Active
  <1>15. Answers(r)'
    <2> SUFFICES ASSUME NEW j \in Inputs, answer'[r][j] # NoBbl
                 PROVE  /\ Registered(answer'[r][j])
                        /\ mapping'[j] # NoBbl
                        /\ j \in Bbls => answer'[r][j] = j
                        /\ payload[r][j].bins # {} => bins[answer'[r][j]] # {}
      BY <1>2 DEF Answers, Registered
    <2>1. CASE j = i
      BY <1>3, <1>6, <1>7, <1>8, <2>1 DEF found
    <2>2. CASE j # i
      BY <1>0, <1>7, <1>8, <2>2 DEF ReqInv, Answers
    <2> QED BY <2>1, <2>2
  <1>16. UNCHANGED dbVars \/ PI!MapInput(i, p)
    <2>1. CASE mapping[i] = NoBbl
      BY <1>2, <1>3, <1>4, <2>1 DEF PI!MapInput, PI!Registered, Registered
    <2>2. CASE mapping[i] # NoBbl
      BY <1>0, <1>2, <1>4, <2>2 DEF dbVars, TypeOK
    <2> QED BY <2>1, <2>2
  <1>17. CachedAnswers(r)'
    <2>1. i \notin cached[r] /\ cached[r] \subseteq Inputs
      BY <1>0, <1>3 DEF ReqInv, CachedAnswers, Pending, TypeOK
    <2> QED BY <1>0, <1>2, <1>8, <1>10, <2>1, CachedKept DEF ReqInv
  <1> QED BY <1>3, <1>9, <1>10, <1>11, <1>12, <1>14, <1>15, <1>16, <1>17 DEF GoodStep, ReqInv

LEMMA FailStep ==
  ASSUME IInv, NEW r \in Requests, Fail(r)
  PROVE  GoodStep(r)
  <1>0. TypeOK /\ MappingInv /\ ReqInv(r)
    BY DEF IInv
  <1>1. UNCHANGED <<dbVars, localVars>>
    BY DEF Fail
  <1>2. /\ pc' \in [Requests -> Calls] /\ pc'[r] = "error"
        /\ \A q \in Requests \ {r} : pc'[q] = pc[q]
    BY <1>0, GotoEffect DEF Fail, Calls, Ended
  <1>3. /\ rowLock' \in [Bbls -> Requests \cup {NoRequest}]
        /\ \A p \in Bbls : rowLock'[p] = IF rowLock[p] = r THEN NoRequest ELSE rowLock[p]
    BY <1>0 DEF Fail, TypeOK
  <1>4. TypeOK'
    BY <1>0, <1>1, <1>2, <1>3 DEF TypeOK, dbVars, localVars
  <1>5. MappingInv' /\ DbGrows
    BY <1>0, <1>1, NoDatabaseStep
  <1>6. \A q \in Requests \ {r} : Kept(q)
    BY <1>1, <1>2, <1>3, RegistrationAssumption DEF Kept, dbVars, localVars
  <1>7. \A p \in Bbls : rowLock'[p] # r
    BY <1>3, RegistrationAssumption
  <1>8. Homogeneous(r)' /\ Fresh(r)' /\ Resolved(r)' /\ Stage(r)' /\ Locks(r)' /\ AllAnswered(r)'
    BY <1>0, <1>1, <1>2, <1>7
    DEF ReqInv, Homogeneous, Fresh, Resolved, Stage, Locks, AllAnswered, Active, localVars
  <1>9. Answers(r)' /\ CachedAnswers(r)'
    BY <1>0, <1>1 DEF ReqInv, Answers, CachedAnswers, Registered, dbVars, localVars
  <1> QED BY <1>4, <1>5, <1>6, <1>8, <1>9 DEF GoodStep, ReqInv

-----------------------------------------------------------------------------
(* The invariant *)

LEMMA InitInvariant == Init => IInv
  <1> SUFFICES ASSUME Init PROVE IInv
    OBVIOUS
  <1>1. NoPayload \in Payloads
    BY DEF NoPayload, Payloads
  <1>2. TypeOK
    BY <1>1 DEF Init, TypeOK, Calls
  <1>3. MappingInv
    BY DEF Init, MappingInv
  <1>4. ASSUME NEW r \in Requests PROVE ReqInv(r)
    BY RegistrationAssumption
    DEF Init, ReqInv, Homogeneous, Fresh, Resolved, Stage, Locks, Answers, CachedAnswers,
        AllAnswered, Active
  <1> QED BY <1>2, <1>3, <1>4 DEF IInv

(* Every step is a good one, and one of PropertyIdentity or none. *)
LEMMA RequestStep ==
  ASSUME IInv, NEW r \in Requests, Receive(r) \/ Proceed(r) \/ Fail(r)
  PROVE  GoodStep(r) /\ (UNCHANGED dbVars \/ PI!PINext)
  <1>1. CASE Receive(r) \/ Lookup(r) \/ Resolve(r) \/ FindProperty(r) \/ LockProperty(r) \/ Fail(r)
    <2>1. UNCHANGED dbVars
      BY <1>1 DEF Receive, Lookup, Resolve, FindProperty, LockProperty, Fail
    <2>2. GoodStep(r)
      BY <1>1, ReceiveStep, LookupStep, ResolveStep, FindPropertyStep, LockPropertyStep, FailStep
    <2> QED BY <2>1, <2>2
  <1>2. CASE CreateProperty(r)
    BY <1>2, CreatePropertyStep DEF PI!PINext
  <1>3. CASE ApplyBinSet(r)
    BY <1>3, ApplyBinSetStep DEF PI!PINext
  <1>4. CASE PersistInput(r)
    BY <1>4, PersistInputStep DEF PI!PINext, PI!Inputs, Inputs
  <1> QED BY <1>1, <1>2, <1>3, <1>4 DEF Proceed

LEMMA StepInvariant == IInv /\ [Next]_vars => IInv'
  <1> SUFFICES ASSUME IInv, [Next]_vars PROVE IInv'
    OBVIOUS
  <1>1. CASE UNCHANGED vars
    <2>1. TypeOK'
      BY <1>1 DEF IInv, TypeOK, vars, dbVars, localVars
    <2>2. MappingInv' /\ DbGrows
      BY <1>1, NoDatabaseStep DEF IInv, vars
    <2>3. \A r \in Requests : Kept(r)
      BY <1>1 DEF Kept, vars, dbVars, localVars
    <2> QED BY <2>1, <2>2, <2>3, KeptInvariant DEF IInv
  <1>2. ASSUME NEW r \in Requests, Receive(r) \/ Proceed(r) \/ Fail(r) PROVE IInv'
    <2>1. GoodStep(r)
      BY <1>2, RequestStep
    <2>2. \A q \in Requests \ {r} : ReqInv(q)'
      BY <2>1, KeptInvariant DEF GoodStep, IInv
    <2> QED BY <2>1, <2>2 DEF GoodStep, IInv
  <1> QED BY <1>1, <1>2 DEF Next

LEMMA InductiveInvariant == Spec => []IInv
  BY InitInvariant, StepInvariant, PTL DEF Spec

(* Types of the tables and of every request's variables, for any number of *)
(* concurrent registrations.                                               *)
THEOREM TypeCorrect == Spec => []TypeOK
  <1>1. IInv => TypeOK
    BY DEF IInv
  <1> QED BY <1>1, InductiveInvariant, PTL

(* What registerBbls and resolveBbl have to answer for an input is stored, *)
(* also when the request is aborted.                                       *)
THEOREM AnswersAreStored == Spec => []AnswerIsStored
  <1>1. IInv => AnswerIsStored
    <2> SUFFICES ASSUME IInv, NEW r \in Requests
                 PROVE  /\ \A i \in Inputs : answer[r][i] # NoBbl =>
                             /\ Registered(answer[r][i]) /\ mapping[i] # NoBbl
                             /\ i \in Bbls => answer[r][i] = mapping[i]
                        /\ pc[r] = "done" =>
                             \A i \in submitted[r] : result(r, i) # "BULK_REGISTRATION_UNRESOLVED"
      BY DEF AnswerIsStored
    <2>1. TypeOK /\ MappingInv /\ ReqInv(r)
      BY DEF IInv
    <2>2. ASSUME NEW i \in Inputs, answer[r][i] # NoBbl
          PROVE  /\ Registered(answer[r][i]) /\ mapping[i] # NoBbl
                 /\ i \in Bbls => answer[r][i] = mapping[i]
      BY <2>1, <2>2 DEF ReqInv, Answers, MappingInv
    <2>3. ASSUME pc[r] = "done", NEW i \in submitted[r]
          PROVE  result(r, i) # "BULK_REGISTRATION_UNRESOLVED"
      BY <2>1, <2>3 DEF result, ReqInv, AllAnswered, Pending
    <2> QED BY <2>2, <2>3
  <1> QED BY <1>1, InductiveInvariant, PTL

(* A request that findPropertyIdByResolutionInput or                       *)
(* findCachedBblRegistrations answers names the mapping that stays stored, *)
(* whatever concurrent resolutions of its input do.                        *)
THEOREM LaterCallsAgree == Spec => []LaterCallsGetTheMapping
  <1>1. IInv => LaterCallsGetTheMapping
    BY DEF IInv, ReqInv, CachedAnswers, LaterCallsGetTheMapping
  <1> QED BY <1>1, InductiveInvariant, PTL

(* The BINs of a property that persistNonCondoResolution or its like has   *)
(* answered for are stored, whatever other registrations do.               *)
THEOREM FoundBinsStay == Spec => []FoundBinsAreScanned
  <1>1. IInv => FoundBinsAreScanned
    BY DEF IInv, ReqInv, Answers, FoundBinsAreScanned
  <1> QED BY <1>1, InductiveInvariant, PTL

-----------------------------------------------------------------------------
(* Refinement of the property identity *)

LEMMA InitRefines == Init => PI!PIInit
  BY DEF Init, PI!PIInit, PI!Inputs, Inputs

LEMMA StepRefines == IInv /\ [Next]_vars => [PI!PINext]_dbVars
  BY RequestStep DEF Next, vars, dbVars

(* Concurrent and failing registrations, seen through the tables, are      *)
(* steps of PropertyIdentity: what findOrCreateProperty,                   *)
(* applyEffectiveBinSet and persistResolutionInput promise together.       *)
THEOREM RegistrationImplementsIdentity == Spec => ImplementsPropertyIdentity
  BY InitRefines, StepRefines, InductiveInvariant, PTL
     DEF Spec, ImplementsPropertyIdentity, PI!PISpec, dbVars
=============================================================================
