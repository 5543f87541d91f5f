------------------------- MODULE PropertyRegistration -------------------------
(***************************************************************************)
(* Concurrent registrations of properties by address or BBL                *)
(* (property-resolver.service.ts) and of many BBLs at once                 *)
(* (bulk-property-registration.service.ts).                                *)
(*                                                                         *)
(* A request looks its inputs up, resolves those it does not find, and     *)
(* persists each resolution by four calls that commit one by one: find and *)
(* create the property, replace its BIN set under a lock of its row, map   *)
(* the input to it.  Any call may fail and any process may die between two *)
(* of them.  The city's data sets may answer differently each time.        *)
(*                                                                         *)
(* A property is known by its BBL, and BBLs are numbered in the order in   *)
(* which a bulk request persists them (other parcels before condominium    *)
(* units, each in the order of their digits).  A bulk input that is no BBL *)
(* is answered at once and left out, and so are repetitions, which get     *)
(* their BBL's result.                                                     *)
(***************************************************************************)
EXTENDS Naturals

CONSTANTS
  Singles,      \* requests for one input (POST /properties)
  Bulks,        \* requests for many BBLs (POST /properties/bulk)
  Addresses,    \* normalised addresses
  MaxBbl,       \* number of BBLs
  Bins,         \* valid BINs
  BinSets,      \* the BIN sets that the data sets may give for a parcel
  NoRequest

Requests == Singles \cup Bulks
Bbls == 1..MaxBbl
NoBbl == 0
Inputs == Addresses \cup Bbls

ASSUME RegistrationAssumption ==
  /\ Singles \cap Bulks = {}
  /\ NoRequest \notin Requests
  /\ MaxBbl \in Nat
  /\ BinSets \subseteq SUBSET Bins
  /\ Addresses \cap Bbls = {}

VARIABLES
  bins,         \* bins[p]: rows of property_bins
  version,      \* version[p]: identifier_version, 0 before p is registered
  reason,       \* reason[p]: status_reason that registration wrote
  mapping,      \* mapping[i]: property of the resolution input i
  rowLock,      \* rowLock[p]: request that holds SELECT ... FOR UPDATE
  pc,           \* the call a request awaits
  submitted,    \* its inputs
  cached,       \* those it found mapped
  failures,     \* those that could not be resolved
  payload,      \* payload[r][i]: the resolution of input i
  answer,       \* answer[r][i]: the property of input i
  currentBins   \* the BIN set read under the row lock

dbVars == <<bins, version, reason, mapping>>
localVars == <<submitted, cached, failures, payload, answer, currentBins>>
vars == <<dbVars, rowLock, pc, localVars>>

Ended == {"done", "error"}
Calls == {"idle", "lookup", "resolve", "find", "create", "lock", "apply", "persist"} \cup Ended
Payloads == [bbl : Bbls \cup {NoBbl}, bins : SUBSET Bins]
NoPayload == [bbl |-> NoBbl, bins |-> {}]

TypeOK ==
  /\ bins \in [Bbls -> SUBSET Bins]
  /\ version \in [Bbls -> Nat]
  /\ reason \in [Bbls -> {"NONE", "NEVER_INGESTED", "NO_VALID_BIN", "IDENTIFIERS_CHANGED"}]
  /\ mapping \in [Inputs -> Bbls \cup {NoBbl}]
  /\ rowLock \in [Bbls -> Requests \cup {NoRequest}]
  /\ pc \in [Requests -> Calls]
  /\ submitted \in [Requests -> SUBSET Inputs]
  /\ cached \in [Requests -> SUBSET Inputs]
  /\ failures \in [Requests -> SUBSET Inputs]
  /\ payload \in [Requests -> [Inputs -> Payloads]]
  /\ answer \in [Requests -> [Inputs -> Bbls \cup {NoBbl}]]
  /\ currentBins \in [Requests -> SUBSET Bins]

Init ==
  /\ bins = [p \in Bbls |-> {}]
  /\ version = [p \in Bbls |-> 0]
  /\ reason = [p \in Bbls |-> "NONE"]
  /\ mapping = [i \in Inputs |-> NoBbl]
  /\ rowLock = [p \in Bbls |-> NoRequest]
  /\ pc = [r \in Requests |-> "idle"]
  /\ submitted = [r \in Requests |-> {}]
  /\ cached = [r \in Requests |-> {}]
  /\ failures = [r \in Requests |-> {}]
  /\ payload = [r \in Requests |-> [i \in Inputs |-> NoPayload]]
  /\ answer = [r \in Requests |-> [i \in Inputs |-> NoBbl]]
  /\ currentBins = [r \in Requests |-> {}]

-----------------------------------------------------------------------------
Goto(r, call) == pc' = [pc EXCEPT ![r] = call]
Registered(p) == version[p] > 0

(* Inputs that still need a property, and the one whose turn it is. *)
Pending(r) == {i \in submitted[r] : i \notin failures[r] /\ answer[r][i] = NoBbl}
IsNext(r, i) ==
  /\ i \in Pending(r)
  /\ \A d \in Pending(r) \cap Bbls : i \in Bbls => i <= d

Receive(r) ==
  /\ pc[r] = "idle"
  /\ \E inputs \in (IF r \in Singles THEN {{i} : i \in Inputs} ELSE SUBSET Bbls \ {{}}) :
       submitted' = [submitted EXCEPT ![r] = inputs]
  /\ Goto(r, "lookup")
  /\ UNCHANGED <<dbVars, rowLock, cached, failures, payload, answer, currentBins>>

(* findPropertyIdByResolutionInput, findCachedBblRegistrations. *)
Lookup(r) ==
  /\ pc[r] = "lookup"
  /\ LET known == {i \in submitted[r] : mapping[i] # NoBbl}
     IN /\ cached' = [cached EXCEPT ![r] = known]
        /\ answer' = [answer EXCEPT ![r] =
                        [i \in Inputs |-> IF i \in known THEN mapping[i] ELSE NoBbl]]
        /\ Goto(r, IF known = submitted[r] THEN "done" ELSE "resolve")
  /\ UNCHANGED <<dbVars, rowLock, submitted, failures, payload, currentBins>>

(* The data sets answer; no answer, an ambiguous or a contradictory one is *)
(* an AppError, which fails a single request but one input of a bulk one.  *)
Resolve(r) ==
  /\ pc[r] = "resolve"
  /\ \E resolved \in SUBSET Pending(r) :
       /\ \E found \in [resolved -> [bbl : Bbls, bins : BinSets]] :
            /\ \A i \in resolved \cap Bbls : found[i].bbl = i
            /\ payload' = [payload EXCEPT ![r] =
                 [i \in Inputs |-> IF i \in resolved THEN found[i] ELSE NoPayload]]
       /\ failures' = [failures EXCEPT ![r] = Pending(r) \ resolved]
       /\ Goto(r, IF resolved # {} THEN "find"
                  ELSE IF r \in Singles THEN "error" ELSE "done")
  /\ UNCHANGED <<dbVars, rowLock, submitted, cached, answer, currentBins>>

(* A resolution without BINs leaves the BIN set alone. *)
mayApply_always(r, i) == TRUE
mayApply(r, i) == payload[r][i].bins # {}
afterProperty(r, i) == IF mayApply(r, i) THEN "lock" ELSE "persist"

(* findOrCreateProperty reads first ... *)
afterFound_asIs(r, i) == "persist"
afterFound(r, i) == afterProperty(r, i)

FindProperty(r) ==
  /\ pc[r] = "find"
  /\ \E i \in Inputs :
       /\ IsNext(r, i)
       /\ Goto(r, IF Registered(payload[r][i].bbl) THEN afterFound(r, i) ELSE "create")
  /\ UNCHANGED <<dbVars, rowLock, localVars>>

(* ... and then inserts.  If another request has inserted the BBL in       *)
(* between, the unique index raises an error that is no AppError: it ends  *)
(* the whole request.                                                      *)
initialReason(found) == IF found = {} THEN "NO_VALID_BIN" ELSE "NEVER_INGESTED"

CreateProperty(r) ==
  /\ pc[r] = "create"
  /\ \E i \in Inputs :
       /\ IsNext(r, i)
       /\ LET p == payload[r][i].bbl
              found == payload[r][i].bins
          IN \/ /\ Registered(p)
                /\ Goto(r, "error")
                /\ UNCHANGED dbVars
             \/ /\ ~Registered(p)
                /\ version' = [version EXCEPT ![p] = 1]
                /\ bins' = [bins EXCEPT ![p] = found]
                /\ reason' = [reason EXCEPT ![p] = initialReason(found)]
                /\ Goto(r, afterProperty(r, i))
                /\ UNCHANGED mapping
  /\ UNCHANGED <<rowLock, localVars>>

(* applyEffectiveBinSet: the transaction locks the row and reads the BINs, *)
mayLock_noRowLock(p) == TRUE
mayLock(p) == rowLock[p] = NoRequest

LockProperty(r) ==
  /\ pc[r] = "lock"
  /\ \E i \in Inputs :
       /\ IsNext(r, i)
       /\ LET p == payload[r][i].bbl
          IN /\ mayLock(p)
             /\ rowLock' = [rowLock EXCEPT ![p] = r]
             /\ currentBins' = [currentBins EXCEPT ![r] = bins[p]]
  /\ Goto(r, "apply")
  /\ UNCHANGED <<dbVars, submitted, cached, failures, payload, answer>>

(* replaces them if they differ, and commits, which unlocks the row. *)
ApplyBinSet(r) ==
  /\ pc[r] = "apply"
  /\ \E i \in Inputs :
       /\ IsNext(r, i)
       /\ LET p == payload[r][i].bbl
              nextBins == payload[r][i].bins
          IN /\ \/ /\ nextBins = currentBins[r]
                   /\ UNCHANGED <<bins, version, reason>>
                \/ /\ nextBins # currentBins[r]
                   /\ bins' = [bins EXCEPT ![p] = nextBins]
                   /\ version' = [version EXCEPT ![p] = @ + 1]
                   /\ reason' = [reason EXCEPT ![p] =
                        IF nextBins = {} THEN "NO_VALID_BIN" ELSE "IDENTIFIERS_CHANGED"]
             /\ rowLock' = [rowLock EXCEPT ![p] = NoRequest]
  /\ currentBins' = [currentBins EXCEPT ![r] = {}]
  /\ Goto(r, "persist")
  /\ UNCHANGED <<mapping, submitted, cached, failures, payload, answer>>

(* persistResolutionInput, an upsert that updates nothing.  The request    *)
(* answers with its own property, and goes on to its next input.           *)
upserted_overwritten(i, p) == p
upserted(i, p) == IF mapping[i] = NoBbl THEN p ELSE mapping[i]

isLast_first(r, i) == TRUE
isLast(r, i) == Pending(r) = {i}

PersistInput(r) ==
  /\ pc[r] = "persist"
  /\ \E i \in Inputs :
       /\ IsNext(r, i)
       /\ LET p == payload[r][i].bbl
          IN /\ mapping' = [mapping EXCEPT ![i] = upserted(i, p)]
             /\ answer' = [answer EXCEPT ![r][i] = p]
       /\ Goto(r, IF isLast(r, i) THEN "done" ELSE "find")
  /\ UNCHANGED <<bins, version, reason, rowLock, submitted, cached, failures, payload, currentBins>>

(* A call fails or the process dies; the server rolls back and unlocks. *)
Fail(r) ==
  /\ pc[r] \notin {"idle"} \cup Ended
  /\ Goto(r, "error")
  /\ rowLock' = [p \in Bbls |-> IF rowLock[p] = r THEN NoRequest ELSE rowLock[p]]
  /\ UNCHANGED <<dbVars, localVars>>

Proceed(r) ==
  \/ Lookup(r) \/ Resolve(r) \/ FindProperty(r) \/ CreateProperty(r)
  \/ LockProperty(r) \/ ApplyBinSet(r) \/ PersistInput(r)

Next == \E r \in Requests : Receive(r) \/ Proceed(r) \/ Fail(r)

Spec == Init /\ [][Next]_vars

-----------------------------------------------------------------------------
(* The per-input result of the final loop of registerBbls. *)
result(r, i) ==
  IF i \in failures[r] THEN "failed"
  ELSE IF answer[r][i] = NoBbl THEN "BULK_REGISTRATION_UNRESOLVED"
  ELSE IF i \in cached[r] THEN "cached" ELSE "succeeded"

(* What a request has to answer for an input is stored, however it ends: a *)
(* bulk request that a later call aborts leaves no input mapped to nothing *)
(* or half registered.  A BBL is answered with the property it is mapped   *)
(* to.  Once the request is done, BULK_REGISTRATION_UNRESOLVED never shows. *)
AnswerIsStored ==
  \A r \in Requests :
    /\ \A i \in Inputs : answer[r][i] # NoBbl =>
         /\ Registered(answer[r][i])
         /\ mapping[i] # NoBbl
         /\ i \in Bbls => answer[r][i] = mapping[i]
    /\ pc[r] = "done" =>
         \A i \in submitted[r] : result(r, i) # "BULK_REGISTRATION_UNRESOLVED"

(* An input that was mapped when a request looked it up is answered with a *)
(* mapping that stays, whatever the requests still do that were already    *)
(* resolving it (storage.md: "once a specific normalized input has been    *)
(* resolved, future calls return the same stored property mapping").       *)
(* Of two requests that resolve an address at once this says nothing: the  *)
(* second answers with its own parcel, which the upsert did not store.     *)
LaterCallsGetTheMapping ==
  \A r \in Requests : \A i \in cached[r] :
    answer[r][i] # NoBbl /\ answer[r][i] = mapping[i]

(* BINs that a registration found are there to be scanned afterwards, also *)
(* when the property existed without BINs before.  It would not be         *)
(* resolved again: its input is mapped.                                    *)
FoundBinsAreScanned ==
  \A r \in Requests, i \in Inputs :
    answer[r][i] # NoBbl /\ payload[r][i].bins # {} => bins[answer[r][i]] # {}

(* Registrations keep the promises of PropertyIdentity. *)
PI == INSTANCE PropertyIdentity WITH Properties <- Bbls, NoProperty <- NoBbl
ImplementsPropertyIdentity == PI!PISpec
=============================================================================
