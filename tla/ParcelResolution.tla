---------------------------- MODULE ParcelResolution ----------------------------
(***************************************************************************)
(* What a BBL or an address resolves to: the parcel, for a condominium     *)
(* unit its base and billing BBL, and the BINs of the buildings on it.     *)
(* A BBL can be asked for alone, in a bulk registration or through an      *)
(* address that GeoSearch turns into candidates; the three ways query the  *)
(* city's data sets differently (SourceClients).                           *)
(*                                                                         *)
(* The data sets are read-only here and do not change during a request.    *)
(* What becomes of a resolution is PropertyRegistration.                   *)
(***************************************************************************)
EXTENDS SourceClients, Sequences

CONSTANTS
  Cities,         \* contents of the four data sets
  AddressQueries, \* addresses, as what GeoSearch answers about them
  NoDesignation,  \* the address names no unit
  NoInput         \* the input of a request by address

Candidates ==
  [rank : Nat, bbl : Bbls \cup {Unparsed, NoBbl}, bin : Bins \cup {Placeholder, Unparsed, Absent},
   borough : BOOLEAN, street : BOOLEAN, addressLayer : BOOLEAN]

ASSUME CitiesAssumption ==
  /\ Cities \subseteq [pluto : SUBSET PlutoRows, prints : SUBSET FootprintRows,
                       units : SUBSET UnitRows, condos : SUBSET CondoRows]
  /\ \A c \in Cities :
       /\ IsFiniteSet(c.pluto) /\ IsFiniteSet(c.prints) /\ IsFiniteSet(c.units)
       /\ IsFiniteSet(c.condos)
       /\ \A b \in Bbls : Cardinality({r \in c.pluto : r.bbl = b}) <= PlutoLimit
ASSUME AddressesAssumption ==
  /\ NoDesignation \notin Designations /\ NoInput \notin Bbls
  /\ AddressQueries \subseteq [candidates : SUBSET Candidates, boroughGiven : BOOLEAN,
                               designation : Designations \cup {NoDesignation}]
  /\ \A q \in AddressQueries : IsFiniteSet(q.candidates)

VARIABLES
  city,       \* the data sets
  request,    \* what was asked
  outcome     \* outcome[i]: what input i resolved to

vars == <<city, request, outcome>>

NoRequest == [kind |-> "none"]

Success(parcel, base, billing, bins) ==
  [code |-> "OK", parcel |-> parcel, base |-> base, billing |-> billing, bins |-> bins]
Failure(code) ==
  [code |-> code, parcel |-> NoBbl, base |-> NoBbl, billing |-> NoBbl, bins |-> {}]

(* The first exception thrown, or OK. *)
FirstError(codes) ==
  IF \A i \in DOMAIN codes : codes[i] = "OK" THEN "OK"
  ELSE codes[CHOOSE i \in DOMAIN codes :
               codes[i] # "OK" /\ \A j \in DOMAIN codes : j < i => codes[j] = "OK"]

-----------------------------------------------------------------------------
(* footprint-validation.ts *)

(* validateFootprintCandidate: a MAPPLUTO BBL decides; the base BBL stands *)
(* in for one that is missing, or, outside condominiums, does not parse.   *)
Verdict_baseFirst(row, bbl, mode) ==
  CASE row.base = bbl -> "ACCEPTED"
    [] row.base # bbl /\ row.mappluto = bbl -> "ACCEPTED"
    [] OTHER -> "FOOTPRINT_BASE_BBL_MISMATCH"
Verdict(row, bbl, mode) ==
  CASE row.mappluto = bbl -> "ACCEPTED"
    [] row.mappluto \in Bbls \ {bbl} -> "FOOTPRINT_MAPPLUTO_BBL_MISMATCH"
    [] row.mappluto = Unparsed /\ mode = "condo" -> "FOOTPRINT_MAPPLUTO_BBL_MISMATCH"
    [] OTHER -> IF row.base = bbl THEN "ACCEPTED" ELSE "FOOTPRINT_BASE_BBL_MISMATCH"

(* assertFootprintIdentifierAgreement *)
Agreement(rows, bbl, mode) ==
  LET verdicts == {Verdict(r, bbl, mode) : r \in rows}
  IN  CASE "ACCEPTED" \in verdicts \/ verdicts = {} -> "OK"
        [] verdicts = {"FOOTPRINT_BASE_BBL_MISMATCH"} -> "FOOTPRINT_BASE_BBL_MISMATCH"
        [] OTHER -> "FOOTPRINT_MAPPLUTO_BBL_MISMATCH"

(* collectValidatedBins: without placeholders. *)
CollectBins(rows, bbl, mode) ==
  {r.bin : r \in {q \in rows : Verdict(q, bbl, mode) = "ACCEPTED"}} \ {Placeholder}

(* assertGeoSearchBinCorroboratesFootprints *)
Corroboration(bin, bins) ==
  IF bin \in {Absent, Unparsed} \/ bins = {} \/ bin \in bins THEN "OK" ELSE "GEOSEARCH_BIN_CONFLICT"

-----------------------------------------------------------------------------
(* Resolving one BBL, from what the lookups gave for it. *)

(* The steps after the identifiers are known: PLUTO, footprints, their     *)
(* agreement, the BIN of GeoSearch.                                        *)
Resolved(parcel, base, billing, status, found, bbl, mode, bin) ==
  LET bins == CollectBins(found.candidates, bbl, mode)
      code == FirstError(<<PlutoCode(status), found.code,
                           Agreement(found.candidates, bbl, mode), Corroboration(bin, bins)>>)
  IN  IF code = "OK" THEN Success(parcel, base, billing, bins) ELSE Failure(code)

(* resolveNonCondoParcel *)
ResolveLot(c, bbl, bin) ==
  Resolved(bbl, NoBbl, NoBbl, LookupPluto(c.pluto, bbl),
           LookupFootprints(c.prints, "parcel", bbl), bbl, "non-condo", bin)

(* The errors of a lookup that must match one row. *)
MatchCode(rows, what) ==
  CASE Malformed(rows) -> "CONDO_MALFORMED"
    [] ~Malformed(rows) /\ MatchCount(rows) = "zero" -> what.zero
    [] ~Malformed(rows) /\ MatchCount(rows) = "multiple" -> what.multiple
    [] OTHER -> "OK"

UnitCodes    == [zero |-> "CONDO_UNIT_NOT_FOUND", multiple |-> "CONDO_UNIT_AMBIGUOUS"]
BillingCodes == [zero |-> "CONDO_BILLING_NOT_FOUND", multiple |-> "CONDO_BILLING_AMBIGUOUS"]
BaseCodes    == [zero |-> "CONDO_BASE_NOT_FOUND", multiple |-> "CONDO_BASE_AMBIGUOUS"]

(* resolveCondoUnitBbl *)
ResolveUnit(c, unit, bin) ==
  LET rows    == UnitRowsOf(c.units, unit)
      base    == TheRow(rows).base
      billing == TheRow(BillingRowsOf(c.condos, base)).billing
  IN  CASE MatchCode(rows, UnitCodes) # "OK" -> Failure(MatchCode(rows, UnitCodes))
        [] MatchCode(rows, UnitCodes) = "OK"
             /\ MatchCode(BillingRowsOf(c.condos, base), BillingCodes) # "OK" ->
             Failure(MatchCode(BillingRowsOf(c.condos, base), BillingCodes))
        [] OTHER ->
             Resolved(unit, base, billing, LookupPluto(c.pluto, billing),
                      LookupFootprints(c.prints, "base", base), billing, "condo", bin)

ResolveBbl(c, bbl, bin) ==
  IF bbl \in UnitBbls THEN ResolveUnit(c, bbl, bin) ELSE ResolveLot(c, bbl, bin)

-----------------------------------------------------------------------------
(* Resolving an address. *)

(* narrowToSupportedCandidates, after the candidates without a BBL and,    *)
(* if the address names a borough, those of others have been left out.     *)
Preferred(candidates, test(_)) ==
  IF \E c \in candidates : test(c) THEN {c \in candidates : test(c)} ELSE candidates
Narrowed(candidates) ==
  Preferred(Preferred(candidates, LAMBDA c : c.street), LAMBDA c : c.addressLayer)

Pool(q) ==
  Narrowed({c \in q.candidates : c.bbl # NoBbl /\ (q.boroughGiven => c.borough)})

(* The best candidate after sorting; all of them name the same BBL. *)
Selected(q) == CHOOSE c \in Pool(q) : \A d \in Pool(q) : c.rank <= d.rank

(* selectGeoSearchCandidate *)
SelectionCode_anyBbl(q) ==
  CASE q.candidates = {} -> "GEOSEARCH_EMPTY_RESULT"
    [] q.candidates # {} /\ {c \in q.candidates : c.bbl # NoBbl} = {} -> "GEOSEARCH_NO_IDENTIFIERS"
    [] OTHER -> IF Pool(q) = {} THEN "GEOSEARCH_AMBIGUOUS" ELSE
                IF \E c \in Pool(q) : c.bbl = Unparsed THEN "INVALID_BBL" ELSE "OK"
SelectionCode(q) ==
  LET named == {c \in q.candidates : c.bbl # NoBbl}
      bbls  == {c.bbl : c \in Pool(q)}
  IN  CASE q.candidates = {} -> "GEOSEARCH_EMPTY_RESULT"
        [] q.candidates # {} /\ named = {} -> "GEOSEARCH_NO_IDENTIFIERS"
        [] named # {} /\ bbls = {} -> "GEOSEARCH_AMBIGUOUS"
        [] Unparsed \in bbls -> "INVALID_BBL"
        [] Unparsed \notin bbls /\ Cardinality(bbls) > 1 -> "GEOSEARCH_AMBIGUOUS"
        [] OTHER -> "OK"

(* resolveCondoBaseContextFromParcelBbl, resolveCondoUnitByAddressContext *)
ResolveDesignation(c, bbl, designation, bin) ==
  LET bases == BaseRowsOf(c.condos, bbl)
      base  == IF bbl \in BillingBbls THEN TheRow(bases).base ELSE bbl
      units == DesignatedUnits(c.units, base, designation)
  IN  CASE bbl \in BillingBbls /\ MatchCode(bases, BaseCodes) # "OK" ->
             Failure(MatchCode(bases, BaseCodes))
        [] (bbl \in BillingBbls => MatchCode(bases, BaseCodes) = "OK")
             /\ MatchCode(units, UnitCodes) # "OK" -> Failure(MatchCode(units, UnitCodes))
        [] OTHER -> ResolveUnit(c, TheRow(units).unit, bin)

ResolveAddress(c, q) ==
  LET selected == Selected(q)
  IN  CASE SelectionCode(q) # "OK" -> Failure(SelectionCode(q))
        [] SelectionCode(q) = "OK" /\ q.designation = NoDesignation ->
             ResolveLot(c, selected.bbl, selected.bin)
        [] OTHER -> ResolveDesignation(c, selected.bbl, q.designation, selected.bin)

-----------------------------------------------------------------------------
(* Resolving many BBLs, from five bulk lookups, one after the other. *)

BulkBases(c, keys) ==
  {TheRow(UnitRowsOf(c.units, u)).base : u \in
     {k \in keys \cap UnitBbls : MatchCount(UnitRowsOf(c.units, k)) = "one"}}

BulkPlutoKeys(c, keys) ==
  (keys \ UnitBbls) \cup
  {TheRow(BillingRowsOf(c.condos, b)).billing : b \in
     {a \in BulkBases(c, keys) : MatchCount(BillingRowsOf(c.condos, a)) = "one"}}

(* An exception of any lookup fails the whole request. *)
BulkFails(c, keys) ==
  \/ FootprintsBulkFails(c.prints, "parcel", keys \ UnitBbls)
  \/ UnitsBulkFails(c.units, keys \cap UnitBbls)
  \/ CondosBulkFails(c.condos, BulkBases(c, keys))
  \/ FootprintsBulkFails(c.prints, "base", BulkBases(c, keys))

BulkPrints(c, mode, keys, bbl) ==
  [code |-> "OK", candidates |-> LookupFootprintsBulk(c.prints, mode, keys, bbl)]

ResolveInBulk(c, keys, bbl) ==
  LET rows     == UnitRowsOf(c.units, bbl)
      base     == TheRow(rows).base
      billings == BillingRowsOf(c.condos, base)
      status(b) == LookupPlutoBulk(c.pluto, BulkPlutoKeys(c, keys), b)
  IN  CASE bbl \notin UnitBbls ->
             Resolved(bbl, NoBbl, NoBbl, status(bbl),
                      BulkPrints(c, "parcel", keys \ UnitBbls, bbl), bbl, "non-condo", Absent)
        [] bbl \in UnitBbls /\ MatchCode(rows, UnitCodes) # "OK" ->
             Failure(MatchCode(rows, UnitCodes))
        [] bbl \in UnitBbls /\ MatchCode(rows, UnitCodes) = "OK"
             /\ MatchCode(billings, BillingCodes) # "OK" ->
             Failure(MatchCode(billings, BillingCodes))
        [] OTHER ->
             Resolved(bbl, base, TheRow(billings).billing, status(TheRow(billings).billing),
                      BulkPrints(c, "base", BulkBases(c, keys), base),
                      TheRow(billings).billing, "condo", Absent)

-----------------------------------------------------------------------------
Init ==
  /\ city \in Cities
  /\ request = NoRequest
  /\ outcome = <<>>

(* resolveBbl, for an input that is not cached. *)
AskBbl(b) ==
  /\ request = NoRequest
  /\ request' = [kind |-> "bbl", keys |-> {b}]
  /\ outcome' = [i \in {b} |-> ResolveBbl(city, b, Absent)]
  /\ UNCHANGED city

(* registerBbls, for the inputs that are not cached. *)
AskBulk(keys) ==
  /\ request = NoRequest
  /\ request' = [kind |-> "bulk", keys |-> keys]
  /\ outcome' = [b \in keys |-> IF BulkFails(city, keys) THEN Failure("REQUEST_FAILED")
                                ELSE ResolveInBulk(city, keys, b)]
  /\ UNCHANGED city

(* resolveAddress, for an address that is not cached. *)
AskAddress(q) ==
  /\ request = NoRequest
  /\ request' = [kind |-> "address", query |-> q]
  /\ outcome' = [i \in {NoInput} |-> ResolveAddress(city, q)]
  /\ UNCHANGED city

(* Any call may time out, fail or answer with something that is not JSON:  *)
(* an exception that no caller of the clients catches.                     *)
CallFails(inputs) ==
  /\ request = NoRequest
  /\ request' = [kind |-> "failed"]
  /\ outcome' = [i \in inputs |-> Failure("CALL_FAILED")]
  /\ UNCHANGED city

Answer ==
  /\ request # NoRequest
  /\ request' = NoRequest
  /\ outcome' = <<>>
  /\ UNCHANGED city

Next ==
  \/ \E b \in Bbls : AskBbl(b)
  \/ \E keys \in SUBSET Bbls \ {{}} : AskBulk(keys)
  \/ \E q \in AddressQueries : AskAddress(q)
  \/ \E inputs \in SUBSET Bbls \ {{}} : CallFails(inputs)
  \/ Answer

Spec == Init /\ [][Next]_vars

-----------------------------------------------------------------------------
Codes ==
  {"OK", "PLUTO_NOT_FOUND", "PLUTO_INCOMPLETE", "PLUTO_MULTIPLE",
   "FOOTPRINT_PAGE_LIMIT", "FOOTPRINTS_MALFORMED", "FOOTPRINT_MAPPLUTO_BBL_MISMATCH",
   "FOOTPRINT_BASE_BBL_MISMATCH", "GEOSEARCH_BIN_CONFLICT", "CONDO_MALFORMED",
   "GEOSEARCH_EMPTY_RESULT", "GEOSEARCH_NO_IDENTIFIERS", "GEOSEARCH_AMBIGUOUS", "INVALID_BBL",
   "REQUEST_FAILED", "CALL_FAILED"}
  \cup {codes[m] : codes \in {UnitCodes, BillingCodes, BaseCodes}, m \in {"zero", "multiple"}}

(* No placeholder among the BINs, no identifier that did not parse.        *)
Outcomes == [code : Codes, parcel : Bbls \cup {NoBbl}, base : ParcelBbls \cup {NoBbl},
             billing : BillingBbls \cup {NoBbl}, bins : SUBSET Bins]

TypeOK ==
  /\ city \in Cities
  /\ request.kind \in {"none", "bbl", "bulk", "address", "failed"}
  /\ DOMAIN outcome \subseteq Bbls \cup {NoInput}
  /\ \A i \in DOMAIN outcome : outcome[i] \in Outcomes

Resolutions == {outcome[i] : i \in {j \in DOMAIN outcome : outcome[j].code = "OK"}}

(* What the source rows say themselves: a building stands on the lot of    *)
(* its MAPPLUTO BBL, or of its base BBL where it has none; in a            *)
(* condominium, on the base lot and the billing lot.                       *)
Buildings(o) ==
  {r \in city.prints :
     /\ r.bin \in Bins /\ r.base \in Bbls
     /\ IF o.base = NoBbl
        THEN o.parcel = IF r.mappluto \in Bbls THEN r.mappluto ELSE r.base
        ELSE r.base = o.base /\ r.mappluto = o.billing}

(* Whichever route an input took, a resolution has the BINs of all the     *)
(* buildings on its parcel and of no other: paging, chunks, the two where  *)
(* clauses, grouping and validation together lose none and borrow none     *)
(* from a parcel that shares the base or the query.                        *)
ResolvedFromAllEvidence ==
  \A o \in Resolutions : o.bins = {r.bin : r \in Buildings(o)}

(* An input resolves the same in a bulk registration as alone, with the    *)
(* same error code if it does not resolve, whatever is asked for along     *)
(* with it.  Only what a client alone refuses outright may differ: too     *)
(* many rows, or none that parses.  (bulk-property-registration.service.ts *)
(* repeats the resolver's rules over grouped rows.)                        *)
RoutesAgree ==
  request.kind = "bulk" =>
    \A b \in request.keys : outcome[b].code # "REQUEST_FAILED" =>
      LET alone == ResolveBbl(city, b, Absent)
      IN  outcome[b] = alone \/ alone.code \in {"FOOTPRINT_PAGE_LIMIT", "FOOTPRINTS_MALFORMED"}

(* A bulk registration is refused as a whole only when one of its inputs   *)
(* could not be resolved alone either: asking for many together exhausts   *)
(* no limit that each of them keeps.                                       *)
RefusedForAnInput ==
  request.kind = "bulk" /\ (\E b \in request.keys : outcome[b].code = "REQUEST_FAILED") =>
    \E b \in request.keys : ResolveBbl(city, b, Absent).code # "OK"

(* An address resolves only if all the candidates that match it fully name *)
(* one parcel, and then to that parcel, or to the one unit so designated   *)
(* on its condominium's base lot.                                          *)
AddressIsUnambiguous ==
  request.kind = "address" =>
    LET q == request.query
        full == {c \in q.candidates : c.bbl # NoBbl /\ c.street /\ c.addressLayer
                                        /\ (q.boroughGiven => c.borough)}
    IN  \A o \in Resolutions : \A c \in full :
          IF q.designation = NoDesignation THEN o.parcel = c.bbl
          ELSE /\ {r \in city.units : r.base = o.base /\ r.designation = q.designation}
                    = {r \in city.units : r.unit = o.parcel}
               /\ c.bbl \in {o.base, o.billing}
=============================================================================
